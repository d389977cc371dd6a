------------------------- MODULE PreforkPoolProofs -------------------------
(***************************************************************************)
(* Proofs about the preforking server of PreforkPool, for every size of    *)
(* the table, every limit on idle servers and every set of processes and   *)
(* clients: the counters of the parent are those of its table, so it never *)
(* enters a server past the end of the table, and no server is forgotten;  *)
(* a failed accept() costs one entry of the table and one server at most,  *)
(* whoever is signalled in the dead server's stead, and trimming takes     *)
(* none of the minimum; as long as no process runs on after SIGTERM, no    *)
(* change of a server goes unseen.                                         *)
(***************************************************************************)
EXTENDS PreforkPool, FiniteSetTheorems, TLAPS

----------------------------------------------------------------------------
(***************************************************************************)
(* Counting the slots in use.                                              *)
(***************************************************************************)

\* A table has at most MAXCLIENT slots in use, and exactly so many if none is free.
LEMMA UsedFinite ==
  ASSUME NEW f, NEW k
  PROVE  /\ IsFiniteSet(UsedBelow(f, k))
         /\ Cardinality(UsedBelow(f, k)) \in 0 .. MAXCLIENT
<1>1. IsFiniteSet(Slots) /\ Cardinality(Slots) = MAXCLIENT
  BY FS_Interval, PoolAssumption DEF Slots
<1>2. UsedBelow(f, k) \in SUBSET Slots
  BY DEF UsedBelow
<1>3. IsFiniteSet(UsedBelow(f, k)) /\ Cardinality(UsedBelow(f, k)) <= MAXCLIENT
  BY <1>1, <1>2, FS_Subset
<1> QED
  BY <1>3, FS_CardinalityType, PoolAssumption

\* A full table: no slot is free, so as many are in use as there are.
LEMMA UsedFull ==
  ASSUME NEW f, \A s \in Slots : f[s] # NoPid
  PROVE  Cardinality(UsedBelow(f, MAXCLIENT)) = MAXCLIENT
<1>1. UsedBelow(f, MAXCLIENT) = 0 .. MAXCLIENT - 1
  BY PoolAssumption DEF UsedBelow, Slots
<1> QED
  BY <1>1, FS_Interval, PoolAssumption

\* Entering a process in a free slot adds one to the number of slots in use.
LEMMA UsedEnter ==
  ASSUME NEW f \in [Slots -> Pids \cup {NoPid}], NEW s \in Slots, NEW p \in Pids,
         f[s] = NoPid
  PROVE  Cardinality(UsedBelow([f EXCEPT ![s] = p], MAXCLIENT)) =
           Cardinality(UsedBelow(f, MAXCLIENT)) + 1
<1>1. UsedBelow([f EXCEPT ![s] = p], MAXCLIENT) = UsedBelow(f, MAXCLIENT) \cup {s}
  BY PoolAssumption DEF UsedBelow, Slots
<1>2. s \notin UsedBelow(f, MAXCLIENT)
  BY DEF UsedBelow
<1> QED
  BY <1>1, <1>2, UsedFinite, FS_AddElement

\* Clearing a slot in use takes one away.
LEMMA UsedClear ==
  ASSUME NEW f \in [Slots -> Pids \cup {NoPid}], NEW s \in Slots, f[s] # NoPid
  PROVE  Cardinality(UsedBelow([f EXCEPT ![s] = NoPid], MAXCLIENT)) =
           Cardinality(UsedBelow(f, MAXCLIENT)) - 1
<1>1. UsedBelow([f EXCEPT ![s] = NoPid], MAXCLIENT) = UsedBelow(f, MAXCLIENT) \ {s}
  BY PoolAssumption DEF UsedBelow, Slots
<1>2. s \in UsedBelow(f, MAXCLIENT)
  BY PoolAssumption DEF UsedBelow, Slots
<1> QED
  BY <1>1, <1>2, UsedFinite, FS_RemoveElement

\* A scan starts with nothing counted.
LEMMA UsedNone == ASSUME NEW f PROVE Cardinality(UsedBelow(f, 0)) = 0
<1>1. UsedBelow(f, 0) = {}
  BY PoolAssumption DEF UsedBelow, Slots
<1> QED
  BY <1>1, FS_EmptySet

\* Scanning one slot more adds one exactly if the slot is in use.
LEMMA UsedNext ==
  ASSUME NEW f, NEW s \in Slots
  PROVE  Cardinality(UsedBelow(f, s + 1)) =
           IF f[s] # NoPid THEN Cardinality(UsedBelow(f, s)) + 1
                           ELSE Cardinality(UsedBelow(f, s))
<1>1. CASE f[s] # NoPid
  <2>1. UsedBelow(f, s + 1) = UsedBelow(f, s) \cup {s}
    BY <1>1, PoolAssumption DEF UsedBelow, Slots
  <2>2. s \notin UsedBelow(f, s)
    BY PoolAssumption DEF UsedBelow, Slots
  <2> QED
    BY <1>1, <2>1, <2>2, UsedFinite, FS_AddElement
<1>2. CASE f[s] = NoPid
  <2>1. UsedBelow(f, s + 1) = UsedBelow(f, s)
    BY <1>2, PoolAssumption DEF UsedBelow, Slots
  <2> QED
    BY <1>2, <2>1
<1> QED
  BY <1>1, <1>2

\* Clearing the scanned slot does not change what was counted before it.
LEMMA UsedClearScanned ==
  ASSUME NEW f \in [Slots -> Pids \cup {NoPid}], NEW s \in Slots
  PROVE  UsedBelow([f EXCEPT ![s] = NoPid], s + 1) = UsedBelow(f, s)
BY PoolAssumption DEF UsedBelow, Slots

----------------------------------------------------------------------------
(***************************************************************************)
(* The inductive invariant.                                                *)
(***************************************************************************)

\* TypeOK without the bounds of the counters, which follow from CountsMatchTable.
Types ==
  /\ pid \in [Slots -> Pids \cup {NoPid}]
  /\ state \in [Slots -> States]
  /\ idle_count \in Nat /\ busy_count \in Nat
  /\ notified \in BOOLEAN
  /\ pc \in Labels
  /\ caller \in {"fill", "grow"}
  /\ i \in Nat
  /\ slot \in 0 .. MAXCLIENT
  /\ forked \in Pids \cup {NoPid}
  /\ idle \in Nat /\ busy \in Nat
  /\ job \in [Pids -> Jobs]
  /\ jobslot \in [Pids -> 0 .. MAXCLIENT]
  /\ client_fd \in [Pids -> Clients \cup {NoClient}]
  /\ terminated \in SUBSET Pids
  /\ backlog \in Seq(Clients)
  /\ failures \in Nat
  /\ view \in [Slots -> States \cup {"none"}]

\* What the parent knows at its program points.
Located ==
  /\ pc = "record" =>
       /\ slot \in Slots /\ pid[slot] = NoPid
       /\ forked \in Pids
       /\ Exists(forked) => jobslot[forked] = slot
  /\ pc \in {"recheck", "del_kill"} => slot \in Slots /\ pid[slot] # NoPid
  /\ pc \in {"del_probe", "del_kill"} => idle_count > 0

\* A scan in progress has counted no more than the table holds, also once it aborted.
TotalsBounded ==
  /\ idle + busy <= MAXCLIENT
  /\ idle_count + busy_count <= MAXCLIENT

IInv == Types /\ Located /\ CountsMatchTable /\ TotalsBounded /\ NoLostServer

----------------------------------------------------------------------------
\* The program starts in the invariant.
LEMMA InitIInv == Init => IInv
<1> SUFFICES ASSUME Init PROVE IInv
  OBVIOUS
<1>1. Types
  <2>1. backlog \in Seq(Clients)
    BY DEF Init
  <2>2. /\ pid \in [Slots -> Pids \cup {NoPid}]
        /\ state \in [Slots -> States]
        /\ view \in [Slots -> States \cup {"none"}]
    BY DEF Init, States
  <2>3. /\ job \in [Pids -> Jobs]
        /\ jobslot \in [Pids -> 0 .. MAXCLIENT]
        /\ client_fd \in [Pids -> Clients \cup {NoClient}]
    BY PoolAssumption DEF Init, Jobs
  <2>4. /\ pc \in Labels /\ caller \in {"fill", "grow"}
        /\ idle_count \in Nat /\ busy_count \in Nat /\ idle \in Nat /\ busy \in Nat
        /\ i \in Nat /\ slot \in 0 .. MAXCLIENT /\ failures \in Nat
        /\ forked \in Pids \cup {NoPid} /\ terminated \in SUBSET Pids
    BY PoolAssumption DEF Init, Labels
  <2>5. notified \in BOOLEAN
    BY DEF Init
  <2> QED
    BY <2>1, <2>2, <2>3, <2>4, <2>5 DEF Types
<1>2. UsedBelow(pid, MAXCLIENT) = {}
  BY DEF Init, UsedBelow
<1>3. CountsMatchTable
  <2>1. Cardinality(UsedBelow(pid, MAXCLIENT)) = 0
    BY <1>2, FS_EmptySet
  <2>2. pc = "fill" /\ idle_count + busy_count = 0
    BY DEF Init
  <2> QED
    BY <2>1, <2>2 DEF CountsMatchTable
<1>4. Located /\ TotalsBounded /\ NoLostServer
  BY PoolAssumption DEF Init, Located, TotalsBounded, NoLostServer, LiveServers, Exists
<1> QED
  BY <1>1, <1>3, <1>4 DEF IInv

\* Steps of the servers, of SIGTERM and of the clients leave the parent's variables and
\* the table of process ids alone, start no server and move none to another slot.
LEMMA OthersIInv ==
  ASSUME IInv, UNCHANGED <<pid, parent>>, Types',
         \A p \in Pids : Exists(p)' => Exists(p) /\ jobslot'[p] = jobslot[p],
         \A p \in Pids : p \in terminated => p \in terminated' \/ ~Exists(p)'
  PROVE  IInv'
<1>1. Located'
  BY DEF IInv, Located, parent, Types
<1>2. CountsMatchTable' /\ TotalsBounded'
  BY DEF IInv, CountsMatchTable, TotalsBounded, UsedBelow, parent
<1>3. NoLostServer'
  <2> SUFFICES ASSUME NEW p \in Pids, Exists(p)', p \notin terminated'
               PROVE  \/ jobslot'[p] \in Slots /\ pid'[jobslot'[p]] = p
                      \/ pc' = "record" /\ forked' = p
                      \/ pc' = "exited"
    BY DEF NoLostServer, LiveServers
  <2>1. p \in LiveServers /\ jobslot'[p] = jobslot[p]
    BY DEF LiveServers
  <2> QED
    BY <2>1 DEF IInv, NoLostServer, parent
<1> QED
  BY <1>1, <1>2, <1>3 DEF IInv

----------------------------------------------------------------------------
(***************************************************************************)
(* The steps of the parent.                                                *)
(***************************************************************************)

\* The loops of main go on or end without touching table or counters.
LEMMA LoopIInv ==
  ASSUME IInv, AddRefused \/ TrimCall \/ DelNone \/ LoopExit
  PROVE  IInv'
<1>1. /\ UNCHANGED <<pid, state, notified, idle_count, busy_count, caller, forked,
                     idle, busy, view, servers>>
      /\ pc \in {"fill", "grow", "trim", "del_probe"}
      /\ pc' \in {"fill", "grow", "trim", "del_probe", "suspend"}
      /\ slot' \in {0, slot}
      /\ i' \in Nat
      /\ pc' = "del_probe" => idle_count > 0
  BY PoolAssumption DEF IInv, Types, AddRefused, TableFull, TrimCall, DelNone, LoopExit, CallsAdd, Located
<1>2. Types'
  BY <1>1, PoolAssumption DEF IInv, Types, servers, Labels
<1>3. Located'
  BY <1>1 DEF Located
<1>4. CountsMatchTable'
  BY <1>1 DEF IInv, CountsMatchTable, UsedBelow
<1>5. TotalsBounded'
  BY <1>1 DEF IInv, TotalsBounded
<1>6. NoLostServer'
  BY <1>1 DEF IInv, NoLostServer, LiveServers, Exists, servers
<1> QED
  BY <1>2, <1>3, <1>4, <1>5, <1>6 DEF IInv

\* The search of add_1_sever ends at a free slot: the counters say there is one.
LEMMA FirstFreeInTable ==
  ASSUME IInv, CallsAdd, idle_count + busy_count < MAXCLIENT,
         NEW s \in 0 .. MAXCLIENT, IsFirstFree(s)
  PROVE  s \in Slots /\ pid[s] = NoPid
<1>1. Cardinality(UsedBelow(pid, MAXCLIENT)) < MAXCLIENT
  BY DEF IInv, CountsMatchTable, CallsAdd
<1>2. \E t \in Slots : pid[t] = NoPid
  BY <1>1, UsedFull, PoolAssumption
<1>3. s # MAXCLIENT
  BY <1>2, PoolAssumption DEF IsFirstFree, Slots
<1>4. s \in Slots
  BY <1>3, PoolAssumption DEF Slots
<1> QED
  BY <1>4 DEF IsFirstFree

\* fork() succeeds: the new process is the one add_1_sever is about to enter.
LEMMA AddForkIInv == ASSUME IInv, AddFork PROVE IInv'
<1>1. PICK s \in 0 .. MAXCLIENT, p \in Pids :
        /\ IsFirstFree(s)
        /\ ~Exists(p)
        /\ state' = [state EXCEPT ![s] = "STATE_IDLE"]
        /\ slot' = s
        /\ forked' = p
        /\ job' = [job EXCEPT ![p] = "set_idle"]
        /\ jobslot' = [jobslot EXCEPT ![p] = s]
  BY DEF AddFork, TableFull
<1>8. idle_count + busy_count < MAXCLIENT
  BY PoolAssumption DEF AddFork, TableFull, IInv, Types
<1>2. /\ CallsAdd /\ idle_count + busy_count < MAXCLIENT
      /\ caller' = pc /\ pc \in {"fill", "grow"} /\ pc' = "record"
      /\ UNCHANGED <<pid, notified, idle_count, busy_count, i, idle, busy, view,
                     client_fd, terminated, backlog, failures>>
  BY <1>8 DEF AddFork, CallsAdd
<1>3. s \in Slots /\ pid[s] = NoPid
  BY <1>1, <1>2, FirstFreeInTable
<1>4. Types'
  BY <1>1, <1>2 DEF IInv, Types, States, Labels, Jobs
<1>5. Located'
  BY <1>1, <1>2, <1>3 DEF IInv, Types, Located
<1>6. CountsMatchTable' /\ TotalsBounded'
  BY <1>2 DEF IInv, CountsMatchTable, TotalsBounded, UsedBelow
<1>7. NoLostServer'
  <2> SUFFICES ASSUME NEW q \in Pids, Exists(q)', q \notin terminated', q # p
               PROVE  jobslot'[q] \in Slots /\ pid'[jobslot'[q]] = q
    BY <1>1, <1>2 DEF NoLostServer, LiveServers
  <2>1. q \in LiveServers /\ jobslot'[q] = jobslot[q]
    BY <1>1, <1>2 DEF LiveServers, Exists, IInv, Types
  <2> QED
    BY <2>1, <1>2 DEF IInv, NoLostServer
<1> QED
  BY <1>4, <1>5, <1>6, <1>7 DEF IInv

\* fork() fails: the parent stops with its table as it is.
LEMMA AddForkFailsIInv == ASSUME IInv, AddForkFails PROVE IInv'
<1>1. PICK s \in 0 .. MAXCLIENT : state' = [state EXCEPT ![s] = "STATE_IDLE"]
  BY DEF AddForkFails, TableFull
<1>2. /\ pc \in {"fill", "grow"} /\ pc' = "exited"
      /\ UNCHANGED <<pid, notified, idle_count, busy_count, caller, i, slot, forked,
                     idle, busy, view, servers>>
  BY DEF AddForkFails, TableFull, CallsAdd
<1>3. Types'
  BY <1>1, <1>2 DEF IInv, Types, States, Labels, servers
<1>4. Located' /\ NoLostServer'
  BY <1>2 DEF Located, NoLostServer
<1>5. CountsMatchTable' /\ TotalsBounded'
  BY <1>2 DEF IInv, CountsMatchTable, TotalsBounded, UsedBelow
<1> QED
  BY <1>3, <1>4, <1>5 DEF IInv

\* The new server is entered in the free slot that was found for it.
LEMMA AddRecordIInv == ASSUME IInv, AddRecord PROVE IInv'
<1> USE DEF IInv
<1>1. slot \in Slots /\ pid[slot] = NoPid /\ forked \in Pids
      /\ (Exists(forked) => jobslot[forked] = slot)
  BY DEF AddRecord, Located
<1>2. pid' = [pid EXCEPT ![slot] = forked] /\ idle_count' = idle_count + 1
      /\ pc = "record" /\ pc' \in {"fill", "grow"}
      /\ UNCHANGED <<busy_count, idle, busy, servers>>
  BY DEF AddRecord, Types
<1>3. Types'
  BY <1>1, PoolAssumption DEF AddRecord, Types, States, Labels, servers
<1>4. Located'
  BY <1>2 DEF Located
<1>5. Cardinality(UsedBelow(pid', MAXCLIENT)) = Cardinality(UsedBelow(pid, MAXCLIENT)) + 1
  BY <1>1, <1>2, UsedEnter DEF Types
<1>6. idle_count' + busy_count' = Cardinality(UsedBelow(pid', MAXCLIENT))
  BY <1>2, <1>5 DEF CountsMatchTable, Types
<1>7. CountsMatchTable' /\ TotalsBounded'
  BY <1>2, <1>6, UsedFinite, PoolAssumption DEF CountsMatchTable, TotalsBounded, Types
<1>8. NoLostServer'
  <2> SUFFICES ASSUME NEW q \in Pids, Exists(q)', q \notin terminated'
               PROVE  jobslot'[q] \in Slots /\ pid'[jobslot'[q]] = q
    BY DEF NoLostServer, LiveServers
  <2>1. q \in LiveServers /\ jobslot'[q] = jobslot[q]
    BY <1>2 DEF LiveServers, Exists, servers
  <2>2. CASE q = forked
    BY <1>1, <1>2, <2>1, <2>2 DEF LiveServers, Types
  <2>3. CASE q # forked
    <3>1. jobslot[q] \in Slots /\ pid[jobslot[q]] = q
      BY <1>2, <2>1, <2>3 DEF NoLostServer
    <3>2. jobslot[q] # slot
      BY <1>1, <3>1, PoolAssumption
    <3> QED
      BY <1>2, <2>1, <3>1, <3>2 DEF Types
  <2> QED
    BY <2>2, <2>3
<1> QED
  BY <1>3, <1>4, <1>7, <1>8

\* The search of del_1_server stays in the table.
LEMMA DelProbeIInv == ASSUME IInv, DelProbe PROVE IInv'
<1> USE DEF IInv
<1>1. /\ UNCHANGED <<pid, state, notified, idle_count, busy_count, caller, i, forked,
                     idle, busy, view, servers>>
      /\ pc = "del_probe" /\ slot < MAXCLIENT
      /\ \/ pid[slot] # NoPid /\ pc' = "del_kill" /\ slot' = slot
         \/ pc' = "del_probe" /\ slot' = slot + 1
  BY DEF DelProbe
<1>2. Types'
  BY <1>1, PoolAssumption DEF Types, servers, Labels
<1>3. Located'
  BY <1>1, PoolAssumption DEF Located, Types, Slots
<1>4. CountsMatchTable' /\ TotalsBounded'
  BY <1>1 DEF CountsMatchTable, TotalsBounded, UsedBelow
<1>5. NoLostServer'
  BY <1>1 DEF NoLostServer, LiveServers, Exists, servers
<1> QED
  BY <1>2, <1>3, <1>4, <1>5

\* The slot that is cleared was in use, and its server, if it runs, is told to stop.
LEMMA DelKillIInv == ASSUME IInv, DelKill PROVE IInv'
<1> USE DEF IInv
<1>1. slot \in Slots /\ pid[slot] # NoPid /\ idle_count > 0
  BY DEF DelKill, Terminate, FreeSlot, Located
<1>2. /\ pid' = [pid EXCEPT ![slot] = NoPid] /\ idle_count' = idle_count - 1
      /\ terminated' = IF Exists(pid[slot]) THEN terminated \cup {pid[slot]} ELSE terminated
      /\ pc = "del_kill" /\ pc' = "trim"
      /\ UNCHANGED <<busy_count, idle, busy, job, jobslot>>
  BY DEF DelKill, Terminate, FreeSlot
<1>3. Types'
  <2>1. pid[slot] \in Pids
    BY <1>1 DEF Types
  <2>2. terminated' \in SUBSET Pids
    BY <1>2, <2>1 DEF Types
  <2> QED
    BY <1>1, <2>2, PoolAssumption DEF DelKill, Terminate, FreeSlot, Types, States, Labels
<1>4. Located'
  BY <1>2 DEF Located
<1>5. Cardinality(UsedBelow(pid', MAXCLIENT)) = Cardinality(UsedBelow(pid, MAXCLIENT)) - 1
  BY <1>1, <1>2, UsedClear DEF Types
<1>6. idle_count' + busy_count' = Cardinality(UsedBelow(pid', MAXCLIENT))
  BY <1>2, <1>5 DEF CountsMatchTable, Types
<1>7. CountsMatchTable' /\ TotalsBounded'
  BY <1>2, <1>6, UsedFinite, PoolAssumption DEF CountsMatchTable, TotalsBounded, Types
<1>8. NoLostServer'
  <2> SUFFICES ASSUME NEW q \in Pids, Exists(q)', q \notin terminated'
               PROVE  jobslot'[q] \in Slots /\ pid'[jobslot'[q]] = q
    BY DEF NoLostServer, LiveServers
  <2>1. q \in LiveServers /\ jobslot'[q] = jobslot[q]
    BY <1>2 DEF LiveServers, Exists
  <2>2. jobslot[q] \in Slots /\ pid[jobslot[q]] = q
    BY <1>2, <2>1 DEF NoLostServer
  <2>3. q # pid[slot]
    BY <1>2, <2>1 DEF LiveServers
  <2> QED
    BY <1>2, <2>1, <2>2, <2>3 DEF Types
<1> QED
  BY <1>3, <1>4, <1>7, <1>8

\* A scan starts.
LEMMA WakeIInv == ASSUME IInv, Wake PROVE IInv'
<1> USE DEF IInv
<1>1. /\ pc = "suspend" /\ pc' = "scan" /\ slot' = 0 /\ idle' = 0 /\ busy' = 0
      /\ UNCHANGED <<pid, idle_count, busy_count, servers>>
  BY DEF Wake
<1>2. notified' \in BOOLEAN
  BY DEF Wake
<1>3. Types'
  BY <1>2, PoolAssumption DEF Wake, Types, servers, Labels
<1>4. Located'
  BY <1>1 DEF Located
<1>5. CountsMatchTable' /\ TotalsBounded'
  BY <1>1, UsedNone, PoolAssumption DEF CountsMatchTable, TotalsBounded
<1>6. NoLostServer'
  BY <1>1 DEF NoLostServer, LiveServers, Exists, servers
<1> QED
  BY <1>3, <1>4, <1>5, <1>6

\* A round of the scan: the total counts the slots in use up to here, and only the slot of
\* a process that no longer exists is cleared.
LEMMA ScanSlotIInv == ASSUME IInv, ScanSlot PROVE IInv'
<1> USE DEF IInv
<1>1. slot \in Slots /\ pc = "scan"
  BY PoolAssumption DEF ScanSlot, FreeSlot, Types, Slots
<1>2. idle + busy = Cardinality(UsedBelow(pid, slot))
  BY <1>1 DEF CountsMatchTable
<1>3. UNCHANGED <<state, notified, idle_count, busy_count, caller, i, forked, busy, servers>>
  BY DEF ScanSlot, FreeSlot
<1>4. CASE pid[slot] = NoPid /\ slot' = slot + 1 /\ UNCHANGED <<pid, view, idle, pc>>
  <2>1. Types' /\ Located'
    BY <1>1, <1>3, <1>4, PoolAssumption DEF Types, Located, servers, Slots
  <2>2. CountsMatchTable' /\ TotalsBounded'
    BY <1>1, <1>2, <1>3, <1>4, UsedNext DEF CountsMatchTable, TotalsBounded, Types
  <2>3. NoLostServer'
    BY <1>3, <1>4 DEF NoLostServer, LiveServers, Exists, servers
  <2> QED
    BY <2>1, <2>2, <2>3
<1>5. CASE /\ pid[slot] # NoPid /\ ~Exists(pid[slot])
           /\ pid' = [pid EXCEPT ![slot] = NoPid]
           /\ view' = [view EXCEPT ![slot] = "none"]
           /\ slot' = slot + 1
           /\ UNCHANGED <<idle, pc>>
  <2>1. Types' /\ Located'
    BY <1>1, <1>3, <1>5, PoolAssumption DEF Types, Located, servers, Slots
  <2>2. UsedBelow(pid', slot') = UsedBelow(pid, slot)
    BY <1>1, <1>5, UsedClearScanned DEF Types
  <2>3. CountsMatchTable' /\ TotalsBounded'
    BY <1>1, <1>2, <1>3, <1>5, <2>2 DEF CountsMatchTable, TotalsBounded
  <2>4. NoLostServer'
    <3> SUFFICES ASSUME NEW q \in Pids, Exists(q)', q \notin terminated'
                 PROVE  jobslot'[q] \in Slots /\ pid'[jobslot'[q]] = q
      BY DEF NoLostServer, LiveServers
    <3>1. q \in LiveServers /\ jobslot'[q] = jobslot[q]
      BY <1>3 DEF LiveServers, Exists, servers
    <3>2. jobslot[q] \in Slots /\ pid[jobslot[q]] = q /\ q # pid[slot]
      BY <1>1, <1>5, <3>1 DEF NoLostServer, LiveServers
    <3> QED
      BY <1>5, <3>1, <3>2 DEF Types
  <2> QED
    BY <2>1, <2>3, <2>4
<1>6. CASE /\ pid[slot] # NoPid
           /\ idle' = idle + 1
           /\ view' = [view EXCEPT ![slot] = "STATE_IDLE"]
           /\ slot' = slot + 1
           /\ UNCHANGED <<pid, pc>>
  <2>1. Types' /\ Located'
    BY <1>1, <1>3, <1>6, PoolAssumption DEF Types, Located, servers, Slots, States
  <2>2. idle' + busy' = Cardinality(UsedBelow(pid', slot'))
    BY <1>1, <1>2, <1>3, <1>6, UsedNext DEF Types
  <2>3. CountsMatchTable' /\ TotalsBounded'
    BY <1>1, <1>3, <1>6, <2>2, UsedFinite, PoolAssumption
    DEF CountsMatchTable, TotalsBounded, Types
  <2>4. NoLostServer'
    BY <1>3, <1>6 DEF NoLostServer, LiveServers, Exists, servers
  <2> QED
    BY <2>1, <2>3, <2>4
<1>7. CASE pid[slot] # NoPid /\ pc' = "recheck" /\ UNCHANGED <<pid, view, idle, slot>>
  <2>1. Types' /\ Located'
    BY <1>1, <1>3, <1>7, PoolAssumption DEF Types, Located, servers, Labels
  <2>2. CountsMatchTable' /\ TotalsBounded'
    BY <1>1, <1>2, <1>3, <1>7 DEF CountsMatchTable, TotalsBounded
  <2>3. NoLostServer'
    BY <1>1, <1>3, <1>7 DEF NoLostServer, LiveServers, Exists, servers
  <2> QED
    BY <2>1, <2>2, <2>3
<1> QED
  BY <1>4, <1>5, <1>6, <1>7 DEF ScanSlot, FreeSlot

\* The second look at the slot counts it as busy.
LEMMA ScanBusyIInv == ASSUME IInv, ScanBusy PROVE IInv'
<1> USE DEF IInv
<1>1. /\ pc = "recheck" /\ slot \in Slots /\ pid[slot] # NoPid
      /\ pc' = "scan" /\ slot' = slot + 1 /\ busy' = busy + 1
      /\ UNCHANGED <<pid, idle_count, busy_count, idle, servers>>
  BY DEF ScanBusy, Located
<1>2. Types'
  BY <1>1, PoolAssumption DEF ScanBusy, Types, servers, Labels, Slots, States
<1>3. Located'
  BY <1>1 DEF Located
<1>4. idle' + busy' = Cardinality(UsedBelow(pid', slot'))
  BY <1>1, UsedNext DEF CountsMatchTable, Types
<1>5. CountsMatchTable' /\ TotalsBounded'
  BY <1>1, <1>4, UsedFinite, PoolAssumption DEF CountsMatchTable, TotalsBounded, Types
<1>6. NoLostServer'
  BY <1>1 DEF NoLostServer, LiveServers, Exists, servers
<1> QED
  BY <1>2, <1>3, <1>5, <1>6

\* The scan aborts.
LEMMA ScanAbortIInv == ASSUME IInv, ScanAbort PROVE IInv'
<1> USE DEF IInv
<1>1. /\ pc = "recheck" /\ pc' = "aborted"
      /\ UNCHANGED <<pid, idle_count, busy_count, idle, busy, servers>>
  BY DEF ScanAbort
<1>2. Types'
  BY <1>1 DEF ScanAbort, Types, servers, Labels
<1>3. Located' /\ CountsMatchTable' /\ TotalsBounded'
  BY <1>1 DEF Located, CountsMatchTable, TotalsBounded
<1>4. NoLostServer'
  BY <1>1 DEF NoLostServer, LiveServers, Exists, servers
<1> QED
  BY <1>2, <1>3, <1>4

\* The totals of a complete scan become the counters.
LEMMA ScanDoneIInv == ASSUME IInv, ScanDone PROVE IInv'
<1> USE DEF IInv
<1>1. /\ pc = "scan" /\ slot = MAXCLIENT /\ pc' \in {"trim", "grow", "suspend"}
      /\ idle_count' = idle /\ busy_count' = busy /\ idle' = 0 /\ busy' = 0
      /\ UNCHANGED <<pid, servers>>
  BY DEF ScanDone, StoreTotals, AfterScan
<1>2. Types'
  BY <1>1, PoolAssumption DEF ScanDone, StoreTotals, AfterScan, Types, servers, Labels
<1>3. Located'
  BY <1>1 DEF Located
<1>4. CountsMatchTable' /\ TotalsBounded'
  BY <1>1, PoolAssumption DEF CountsMatchTable, TotalsBounded
<1>5. NoLostServer'
  BY <1>1 DEF NoLostServer, LiveServers, Exists, servers
<1> QED
  BY <1>2, <1>3, <1>4, <1>5

----------------------------------------------------------------------------
(***************************************************************************)
(* The steps of the others.                                                *)
(***************************************************************************)

\* What a server does, whatever it is, keeps it in its slot.
LEMMA ServerIInv ==
  ASSUME IInv, NEW p \in Pids, ServerStep(p) \/ AcceptFails(p) \/ Die(p)
  PROVE  IInv'
<1>1. UNCHANGED <<pid, parent>>
  BY DEF ServerStep, AcceptFails, PublishIdle, Notify, Accept, PublishBusy, Serve,
         AcceptRetry, AcceptExit, Die
<1>2. /\ \A q \in Pids : Exists(q)' => Exists(q) /\ jobslot'[q] = jobslot[q]
      /\ \A q \in Pids : q \in terminated => q \in terminated' \/ ~Exists(q)'
  BY DEF ServerStep, AcceptFails, PublishIdle, Notify, Accept, PublishBusy, Serve,
         AcceptRetry, AcceptExit, Die, Exists, Runs, IInv, Types
<1>3. Types'
  <2> USE <1>1 DEF IInv, Types, parent
  <2>1. CASE PublishIdle(p) \/ PublishBusy(p)
    <3>1. state' \in [Slots -> States] /\ job' \in [Pids -> Jobs]
      BY <2>1 DEF PublishIdle, PublishBusy, Jobs, States
    <3> QED
      BY <2>1, <3>1 DEF PublishIdle, PublishBusy
  <2>2. CASE AcceptExit(p) \/ Die(p)
    <3>0. /\ job' = [job EXCEPT ![p] = "none"]
          /\ jobslot' = [jobslot EXCEPT ![p] = 0]
          /\ terminated' = terminated \ {p}
          /\ failures' \in {failures, failures + 1}
      BY <2>2 DEF AcceptExit, Die
    <3>1. job' \in [Pids -> Jobs] /\ terminated' \in SUBSET Pids /\ failures' \in Nat
      BY <3>0 DEF Jobs
    <3>2. jobslot' \in [Pids -> 0 .. MAXCLIENT]
      BY <3>0, PoolAssumption
    <3>3. client_fd' \in [Pids -> Clients \cup {NoClient}]
      BY <2>2 DEF AcceptExit, Die
    <3> QED
      BY <2>2, <3>1, <3>2, <3>3 DEF AcceptExit, Die
  <2>5. CASE Serve(p) \/ AcceptRetry(p)
    <3>1. job' \in [Pids -> Jobs] /\ failures' \in Nat
      BY <2>5 DEF Serve, AcceptRetry, Jobs
    <3>2. client_fd' \in [Pids -> Clients \cup {NoClient}]
      BY <2>5 DEF Serve, AcceptRetry
    <3> QED
      BY <2>5, <3>1, <3>2 DEF Serve, AcceptRetry
  <2>3. CASE Accept(p)
    <3>1. Head(backlog) \in Clients /\ Tail(backlog) \in Seq(Clients)
      BY <2>3 DEF Accept
    <3> QED
      BY <2>3, <3>1 DEF Accept, Jobs
  <2>4. CASE Notify(p)
    <3>1. notified' \in BOOLEAN
      BY <2>4 DEF Notify
    <3>2. job' \in [Pids -> Jobs]
      BY <2>4 DEF Notify, Jobs
    <3> QED
      BY <2>4, <3>1, <3>2 DEF Notify
  <2> QED
    BY <2>1, <2>2, <2>3, <2>4, <2>5 DEF ServerStep, AcceptFails
<1> QED
  BY <1>1, <1>2, <1>3, OthersIInv

\* A client connects.
LEMMA ConnectIInv == ASSUME IInv, NEW c \in Clients, Connect(c) PROVE IInv'
<1>1. UNCHANGED <<pid, state, notified, parent, job, jobslot, client_fd, terminated, failures>>
  BY DEF Connect
<1>2. backlog' \in Seq(Clients)
  BY DEF Connect, IInv, Types
<1>3. Types'
  BY <1>1, <1>2 DEF IInv, Types, parent
<1>4. /\ \A q \in Pids : Exists(q)' => Exists(q) /\ jobslot'[q] = jobslot[q]
      /\ \A q \in Pids : q \in terminated => q \in terminated' \/ ~Exists(q)'
  BY <1>1 DEF Exists
<1> QED
  BY <1>1, <1>3, <1>4, OthersIInv

----------------------------------------------------------------------------
(***************************************************************************)
(* The theorems.                                                           *)
(***************************************************************************)

\* Every reachable state of the pool satisfies the inductive invariant.
THEOREM Invariance == Spec => []IInv
<1>1. Init => IInv
  BY InitIInv
<1>2. IInv /\ [Next]_vars => IInv'
  <2> SUFFICES ASSUME IInv, [Next]_vars PROVE IInv'
    OBVIOUS
  <2>1. CASE Parent
    BY <2>1, LoopIInv, AddForkIInv, AddRecordIInv, DelProbeIInv, DelKillIInv, WakeIInv,
       ScanSlotIInv, ScanBusyIInv, ScanAbortIInv, ScanDoneIInv
    DEF Parent
  <2>2. CASE AddForkFails
    BY <2>2, AddForkFailsIInv
  <2>3. CASE \E p \in Pids : ServerStep(p) \/ AcceptFails(p) \/ Die(p)
    BY <2>3, ServerIInv
  <2>4. CASE \E c \in Clients : Connect(c)
    BY <2>4, ConnectIInv
  <2>5. CASE UNCHANGED vars
    <3>1. UNCHANGED <<pid, parent>> /\ UNCHANGED <<job, jobslot, terminated>>
      BY <2>5 DEF vars, servers
    <3>2. Types'
      BY <2>5 DEF vars, servers, parent, IInv, Types
    <3>3. /\ \A q \in Pids : Exists(q)' => Exists(q) /\ jobslot'[q] = jobslot[q]
          /\ \A q \in Pids : q \in terminated => q \in terminated' \/ ~Exists(q)'
      BY <3>1 DEF Exists
    <3> QED
      BY <3>1, <3>2, <3>3, OthersIInv
  <2> QED
    BY <2>1, <2>2, <2>3, <2>4, <2>5 DEF Next
<1> QED
  BY <1>1, <1>2, PTL DEF Spec

\* Every variable keeps its type; the counters and totals stay within the table.
THEOREM TypeCorrect == Spec => []TypeOK
<1>1. IInv => TypeOK
  BY PoolAssumption DEF IInv, Types, TotalsBounded, TypeOK
<1> QED
  BY <1>1, Invariance, PTL

\* The counters add_1_sever relies on agree with the table at all times.
THEOREM CountsAgree == Spec => []CountsMatchTable
<1>1. IInv => CountsMatchTable
  BY DEF IInv
<1> QED
  BY <1>1, Invariance, PTL

\* add_1_sever never writes past the end of the table and never over a used slot.
THEOREM NoOverrun == Spec => []SlotInBounds
<1>1. IInv => SlotInBounds
  BY PoolAssumption DEF IInv, Located, SlotInBounds, Slots
<1> QED
  BY <1>1, Invariance, PTL

\* As long as the parent runs, every server it did not stop is in the table.
THEOREM NoServerForgotten == Spec => []NoLostServer
<1>1. IInv => NoLostServer
  BY DEF IInv
<1> QED
  BY <1>1, Invariance, PTL

----------------------------------------------------------------------------
(***************************************************************************)
(* What a failed accept() costs: one entry of the table at most, and one   *)
(* server at most.                                                         *)
(***************************************************************************)

\* SIGTERM is pending for running processes only.
Doomed == \A p \in terminated : Exists(p)

\* Entries that name the server of their slot.
OwnedEntries == {s \in Slots : Named(s) # NoPid /\ Owner(Named(s), s)}

Filling == pc = "fill" \/ (pc = "record" /\ caller = "fill")

\* The servers in the table, and those that were lost to a failed accept().
Accounted == Cardinality(OwnedEntries) + failures

\* The first loop has entered as many servers as it has made rounds, and later on there are
\* never fewer than the minimum: there is more than that when one is to be stopped.
Floor ==
  /\ pc = "fill" => Accounted >= i \/ Accounted >= MINSPARSESERVERS
  /\ pc = "record" /\ caller = "fill" => Accounted >= i + 1 \/ Accounted >= MINSPARSESERVERS
  /\ ~Filling /\ pc # "exited" => Accounted >= MINSPARSESERVERS
  /\ pc \in {"del_probe", "del_kill"} => idle_count > MAXSPARSESERVERS

Kept == Doomed /\ StaleBounded /\ Floor

\* Sets of slots are finite.
LEMMA SlotSets ==
  ASSUME NEW S \in SUBSET Slots
  PROVE  IsFiniteSet(S) /\ Cardinality(S) \in Nat
<1>1. IsFiniteSet(Slots)
  BY FS_Interval, PoolAssumption DEF Slots
<1>2. IsFiniteSet(S)
  BY <1>1, FS_Subset
<1> QED
  BY <1>2, FS_CardinalityType

\* A set of slots with one more of them.
LEMMA OneSlotMore ==
  ASSUME NEW S \in SUBSET Slots, NEW T \in SUBSET Slots, NEW k, T \subseteq S \cup {k}
  PROVE  Cardinality(T) <= Cardinality(S) + 1
<1>1. IsFiniteSet(S) /\ Cardinality(S) \in Nat
  BY SlotSets
<1>2. /\ IsFiniteSet(S \cup {k})
      /\ Cardinality(S \cup {k}) \in {Cardinality(S), Cardinality(S) + 1}
  BY <1>1, FS_AddElement
<1>3. Cardinality(T) <= Cardinality(S \cup {k})
  BY <1>2, FS_Subset
<1>4. Cardinality(T) \in Nat
  BY SlotSets
<1> QED
  BY <1>1, <1>2, <1>3, <1>4

\* Each slot in use is stale or owned, so there are enough owned ones.
LEMMA OwnedOfUsed ==
  ASSUME NEW U \in SUBSET Slots, NEW S \in SUBSET Slots, NEW O \in SUBSET Slots,
         U = S \cup O
  PROVE  Cardinality(U) <= Cardinality(S) + Cardinality(O)
<1>1. /\ IsFiniteSet(S) /\ IsFiniteSet(O) /\ Cardinality(S \cap O) \in Nat
      /\ Cardinality(S) \in Nat /\ Cardinality(O) \in Nat
  BY SlotSets
<1>2. Cardinality(S \cup O) = Cardinality(S) + Cardinality(O) - Cardinality(S \cap O)
  BY <1>1, FS_Union
<1> QED
  BY <1>1, <1>2

\* The entries name processes.
LEMMA NamedType ==
  ASSUME IInv, NEW s \in Slots
  PROVE  Named(s) \in Pids \cup {NoPid}
BY DEF IInv, Types, Located, Named

\* The numbers that Kept is about.
LEMMA EntryCounts ==
  ASSUME IInv
  PROVE  /\ Cardinality(StaleEntries) \in Nat
         /\ Cardinality(OwnedEntries) \in Nat
         /\ Accounted \in Nat /\ failures \in Nat
<1>1. StaleEntries \in SUBSET Slots /\ OwnedEntries \in SUBSET Slots
  BY DEF StaleEntries, OwnedEntries
<1>2. failures \in Nat
  BY DEF IInv, Types
<1> QED
  BY <1>1, <1>2, SlotSets DEF Accounted

\* Outside of add_1_sever the entries are the slots in use.
LEMMA UsedAccounted ==
  ASSUME IInv, Kept, pc # "record"
  PROVE  Cardinality(UsedBelow(pid, MAXCLIENT)) <= Accounted
<1>1. UsedBelow(pid, MAXCLIENT) = StaleEntries \cup OwnedEntries
  BY PoolAssumption DEF UsedBelow, StaleEntries, OwnedEntries, Named, Slots
<1>2. StaleEntries \in SUBSET Slots /\ OwnedEntries \in SUBSET Slots
  BY DEF StaleEntries, OwnedEntries
<1>3. Cardinality(UsedBelow(pid, MAXCLIENT)) <=
        Cardinality(StaleEntries) + Cardinality(OwnedEntries)
  BY <1>1, <1>2, OwnedOfUsed
<1>4. Cardinality(UsedBelow(pid, MAXCLIENT)) \in Nat
  BY UsedFinite, PoolAssumption
<1> QED
  BY <1>3, <1>4, EntryCounts DEF Kept, StaleBounded, Accounted

\* Neither table nor servers change.
LEMMA SameEntries ==
  ASSUME IInv, UNCHANGED <<pid, job, jobslot, terminated>>, pc # "record", pc' # "record"
  PROVE  StaleEntries' = StaleEntries /\ OwnedEntries' = OwnedEntries
BY DEF StaleEntries, OwnedEntries, Named, Owner, Exists

\* The program starts in it.
LEMMA InitKept == Init => Kept
<1> SUFFICES ASSUME Init PROVE Kept
  OBVIOUS
<1>1. StaleEntries = {} /\ OwnedEntries = {}
  BY DEF Init, StaleEntries, OwnedEntries, Named
<1>2. Cardinality(StaleEntries) = 0 /\ Cardinality(OwnedEntries) = 0
  BY <1>1, FS_EmptySet
<1> QED
  BY <1>2, PoolAssumption DEF Init, Kept, Doomed, StaleBounded, Accounted, Floor, Filling

\* A server ends that was told to, or goes on: no entry is the worse for it.
LEMMA ServerKept ==
  ASSUME IInv, Kept, NEW p \in Pids, ServerStep(p) \/ AcceptRetry(p) \/ Die(p)
  PROVE  Kept'
<1>1. UNCHANGED <<pid, parent, failures>>
  BY DEF ServerStep, PublishIdle, Notify, Accept, PublishBusy, Serve, AcceptRetry, Die
<1>2. /\ \A q \in Pids : q # p => job'[q] = job[q] /\ jobslot'[q] = jobslot[q]
      /\ \A q \in Pids : q # p => (q \in terminated' <=> q \in terminated)
  BY DEF ServerStep, PublishIdle, Notify, Accept, PublishBusy, Serve, AcceptRetry, Die,
         IInv, Types
<1>3. \/ p \in terminated /\ p \notin terminated' /\ job'[p] = "none"
      \/ /\ job[p] # "none" /\ job'[p] # "none"
         /\ UNCHANGED <<jobslot, terminated>>
  BY DEF ServerStep, PublishIdle, Notify, Accept, PublishBusy, Serve, AcceptRetry, Die,
         Runs, Exists, IInv, Types
<1>8. terminated' \subseteq terminated
  BY DEF ServerStep, PublishIdle, Notify, Accept, PublishBusy, Serve, AcceptRetry, Die
<1>4. Doomed'
  BY <1>2, <1>3, <1>8 DEF Kept, Doomed, Exists, IInv, Types
<1>5. ASSUME NEW q \in Pids, NEW s \in Slots PROVE Owner(q, s)' <=> Owner(q, s)
  BY <1>2, <1>3 DEF Owner, Exists
<1>6. ASSUME NEW s \in Slots
      PROVE  /\ Named(s)' = Named(s)
             /\ Named(s) # NoPid => (Owner(Named(s), s)' <=> Owner(Named(s), s))
  <2>1. Named(s)' = Named(s)
    BY <1>1 DEF Named, parent
  <2>2. Named(s) \in Pids \cup {NoPid}
    BY NamedType
  <2>3. PICK q \in Pids \cup {NoPid} : q = Named(s) /\ q = Named(s)'
    BY <2>1, <2>2
  <2>4. q # NoPid => (Owner(q, s)' <=> Owner(q, s))
    BY <1>5
  <2> QED
    BY <2>1, <2>3, <2>4 DEF Owner, Exists
<1>7. StaleEntries' = StaleEntries /\ OwnedEntries' = OwnedEntries
  BY <1>6 DEF StaleEntries, OwnedEntries, Owner, Exists
<1> QED
  BY <1>1, <1>4, <1>7 DEF Kept, StaleBounded, Floor, Filling, Accounted, parent

\* A server ends because accept() failed: it owned one entry at most.
LEMMA AcceptExitKept == ASSUME IInv, Kept, NEW p \in Pids, AcceptExit(p) PROVE Kept'
<1>1. /\ UNCHANGED <<pid, parent>> /\ failures' = failures + 1
      /\ job' = [job EXCEPT ![p] = "none"]
      /\ jobslot' = [jobslot EXCEPT ![p] = 0]
      /\ terminated' = terminated \ {p}
  BY DEF AcceptExit
<1>2. Doomed'
  BY <1>1 DEF Kept, Doomed, Exists, IInv, Types
<1>3. ASSUME NEW s \in Slots, s # jobslot[p]
      PROVE  /\ Named(s)' = Named(s)
             /\ Named(s) # NoPid => (Owner(Named(s), s)' <=> Owner(Named(s), s))
  <2>1. Named(s)' = Named(s)
    BY <1>1 DEF Named, parent
  <2>2. PICK q \in Pids \cup {NoPid} : q = Named(s) /\ q = Named(s)'
    BY <2>1, NamedType
  <2>3. q # NoPid => (Owner(q, s)' <=> Owner(q, s))
    BY <1>1, <1>3 DEF Owner, Exists, IInv, Types
  <2> QED
    BY <2>1, <2>2, <2>3 DEF Owner, Exists
<1>4. /\ StaleEntries' \subseteq StaleEntries \cup {jobslot[p]}
      /\ OwnedEntries \subseteq OwnedEntries' \cup {jobslot[p]}
  BY <1>3 DEF StaleEntries, OwnedEntries, Owner, Exists
<1>5. /\ StaleEntries \in SUBSET Slots /\ OwnedEntries \in SUBSET Slots
      /\ StaleEntries' \in SUBSET Slots /\ OwnedEntries' \in SUBSET Slots
  BY DEF StaleEntries, OwnedEntries
<1>6. /\ Cardinality(StaleEntries') <= Cardinality(StaleEntries) + 1
      /\ Cardinality(OwnedEntries) <= Cardinality(OwnedEntries') + 1
  BY <1>4, <1>5, OneSlotMore
<1>7. Cardinality(StaleEntries') \in Nat /\ Cardinality(OwnedEntries') \in Nat
  BY <1>5, SlotSets
<1>8. StaleBounded'
  BY <1>1, <1>6, <1>7, EntryCounts DEF Kept, StaleBounded
<1>9. Accounted' >= Accounted /\ Accounted' \in Nat
  BY <1>1, <1>6, <1>7, EntryCounts DEF Accounted
<1>10. Floor'
  BY <1>1, <1>9, EntryCounts, PoolAssumption DEF Kept, Floor, Filling, parent, IInv, Types
<1> QED
  BY <1>2, <1>8, <1>10 DEF Kept

\* A client connects, or nothing happens.
LEMMA QuietKept ==
  ASSUME IInv, Kept, (\E c \in Clients : Connect(c)) \/ UNCHANGED vars
  PROVE  Kept'
<1>1. UNCHANGED <<pid, parent, job, jobslot, terminated, failures>>
  BY DEF Connect, vars, servers
<1> QED
  BY <1>1 DEF Kept, Doomed, StaleBounded, StaleEntries, Floor, Filling, Accounted, OwnedEntries,
     Named, Owner, Exists, parent

\* The loops of main: the first one ends with the minimum, the third one only calls
\* del_1_server when there is more than the maximum.
LEMMA LoopKept ==
  ASSUME IInv, Kept, AddRefused \/ TrimCall \/ DelNone \/ LoopExit
  PROVE  Kept'
<1>1. /\ UNCHANGED <<pid, idle_count, caller, forked, servers>>
      /\ pc \in {"fill", "grow", "trim", "del_probe"} /\ pc' # "record"
  BY DEF AddRefused, TrimCall, DelNone, LoopExit, CallsAdd
<1>2. Doomed'
  BY <1>1 DEF Kept, Doomed, Exists, servers
<1>3. StaleEntries' = StaleEntries /\ OwnedEntries' = OwnedEntries
  BY <1>1, SameEntries DEF servers
<1>4. StaleBounded' /\ Accounted' = Accounted /\ Accounted \in Nat
  BY <1>1, <1>3, EntryCounts DEF Kept, StaleBounded, Accounted, servers
<1>5. Floor'
  <2>1. Floor
    BY DEF Kept
  <2>2. CASE AddRefused
    <3>1. Cardinality(UsedBelow(pid, MAXCLIENT)) >= MINSPARSESERVERS
      BY <2>2, PoolAssumption DEF AddRefused, CallsAdd, TableFull, IInv, CountsMatchTable, Types
    <3>2. Accounted >= MINSPARSESERVERS
      <4>1. Cardinality(UsedBelow(pid, MAXCLIENT)) \in Nat
        BY UsedFinite, PoolAssumption
      <4> QED
        BY <1>1, <1>4, <3>1, <4>1, UsedAccounted, PoolAssumption
    <3> QED
      BY <1>4, <2>2, <3>2, PoolAssumption DEF AddRefused, CallsAdd, Floor, Filling
  <2>3. CASE TrimCall
    BY <1>4, <2>1, <2>3, PoolAssumption DEF TrimCall, Floor, Filling, IInv, Types
  <2>4. CASE DelNone
    BY <1>4, <2>1, <2>4, PoolAssumption DEF DelNone, Floor, Filling
  <2>5. CASE LoopExit
    BY <1>4, <2>1, <2>5, PoolAssumption DEF LoopExit, Floor, Filling, IInv, Types
  <2> QED
    BY <2>2, <2>3, <2>4, <2>5
<1> QED
  BY <1>2, <1>4, <1>5 DEF Kept

\* The new process owns the slot that was found for it; another entry that names its id, left
\* by a dead server, is as stale as before.
LEMMA AddForkKept == ASSUME IInv, Kept, AddFork PROVE Kept'
<1>1. PICK s \in 0 .. MAXCLIENT, p \in Pids :
        /\ IsFirstFree(s)
        /\ ~Exists(p)
        /\ slot' = s
        /\ forked' = p
        /\ job' = [job EXCEPT ![p] = "set_idle"]
        /\ jobslot' = [jobslot EXCEPT ![p] = s]
  BY DEF AddFork
<1>2. /\ CallsAdd /\ caller' = pc /\ pc \in {"fill", "grow"} /\ pc' = "record"
      /\ idle_count + busy_count < MAXCLIENT
      /\ UNCHANGED <<pid, idle_count, i, terminated, failures>>
  BY PoolAssumption DEF AddFork, CallsAdd, TableFull, IInv, Types
<1>3. s \in Slots /\ pid[s] = NoPid
  BY <1>1, <1>2, FirstFreeInTable
<1>4. Doomed'
  BY <1>1, <1>2 DEF Kept, Doomed, Exists, IInv, Types
<1>5. Named(s) = NoPid /\ Named(s)' = p /\ Owner(p, s)'
  BY <1>1, <1>2, <1>3 DEF Named, Owner, Exists, Kept, Doomed, IInv, Types
<1>6. ASSUME NEW t \in Slots, t # s
      PROVE  Named(t)' = Named(t) /\ Named(t) = pid[t] /\ (Owner(pid[t], t)' <=> Owner(pid[t], t))
  <2>1. Named(t)' = Named(t) /\ Named(t) = pid[t] /\ pid'[t] = pid[t]
    BY <1>1, <1>2, <1>6 DEF Named
  <2>2. Owner(pid[t], t)' <=> Owner(pid[t], t)
    BY <1>1, <1>2, <1>6 DEF Owner, Exists, IInv, Types
  <2> QED
    BY <2>1, <2>2
<1>7. StaleEntries' = StaleEntries
  BY <1>2, <1>3, <1>5, <1>6, PoolAssumption DEF StaleEntries, Owner, Exists
<1>8. OwnedEntries' = OwnedEntries \cup {s} /\ s \notin OwnedEntries
  <2>1. s \notin OwnedEntries
    BY <1>5 DEF OwnedEntries
  <2>2. s \in OwnedEntries'
    BY <1>3, <1>5, PoolAssumption DEF OwnedEntries, Owner, Exists
  <2>3. ASSUME NEW t \in Slots, t # s PROVE t \in OwnedEntries' <=> t \in OwnedEntries
    BY <1>2, <1>6, <2>3 DEF OwnedEntries, Owner, Exists
  <2>4. OwnedEntries \in SUBSET Slots /\ OwnedEntries' \in SUBSET Slots
    BY DEF OwnedEntries
  <2> QED
    BY <1>3, <2>1, <2>2, <2>3, <2>4
<1>9. Accounted' = Accounted + 1
  <2>1. OwnedEntries \in SUBSET Slots
    BY DEF OwnedEntries
  <2>2. IsFiniteSet(OwnedEntries)
    BY <2>1, SlotSets
  <2>3. Cardinality(OwnedEntries') = Cardinality(OwnedEntries) + 1
    BY <1>8, <2>2, FS_AddElement
  <2> QED
    BY <1>2, <2>3, EntryCounts DEF Accounted
<1>10. Floor'
  BY <1>2, <1>9, EntryCounts, PoolAssumption DEF Kept, Floor, Filling, IInv, Types
<1> QED
  BY <1>2, <1>4, <1>7, <1>10 DEF Kept, StaleBounded

\* A failed fork() ends the parent, which has no more to keep.
LEMMA AddForkFailsKept == ASSUME IInv, Kept, AddForkFails PROVE Kept'
<1>1. pc \in {"fill", "grow"} /\ pc' = "exited" /\ UNCHANGED <<pid, servers>>
  BY DEF AddForkFails, CallsAdd
<1>2. StaleEntries' = StaleEntries
  BY <1>1, SameEntries DEF servers
<1> QED
  BY <1>1, <1>2 DEF Kept, Doomed, StaleBounded, Exists, Floor, Filling, servers

\* Entering the new server changes no name.
LEMMA AddRecordKept == ASSUME IInv, Kept, AddRecord PROVE Kept'
<1>1. /\ pid' = [pid EXCEPT ![slot] = forked] /\ i' = i + 1
      /\ pc = "record" /\ pc' = caller /\ caller' = caller /\ caller \in {"fill", "grow"}
      /\ UNCHANGED servers
  BY DEF AddRecord, IInv, Types
<1>2. slot \in Slots /\ pid[slot] = NoPid /\ forked \in Pids
  BY <1>1 DEF IInv, Located
<1>3. Doomed'
  BY <1>1 DEF Kept, Doomed, Exists, servers
<1>4. ASSUME NEW s \in Slots PROVE Named(s)' = Named(s)
  BY <1>1, <1>2 DEF Named, IInv, Types
<1>5. StaleEntries' = StaleEntries /\ OwnedEntries' = OwnedEntries
  BY <1>1, <1>4 DEF StaleEntries, OwnedEntries, Owner, Exists, servers
<1>6. StaleBounded' /\ Accounted' = Accounted /\ Accounted \in Nat
  BY <1>1, <1>5, EntryCounts DEF Kept, StaleBounded, Accounted, servers
<1>7. Floor'
  BY <1>1, <1>6, PoolAssumption DEF Kept, Floor, Filling, IInv, Types
<1> QED
  BY <1>3, <1>6, <1>7 DEF Kept

\* The signal goes through an owned entry to its owner; through a stale one it reaches nobody,
\* or a server whose own entry becomes stale while this one is freed.
LEMMA DelKillKept == ASSUME IInv, Kept, DelKill PROVE Kept'
<1>1. /\ pid' = [pid EXCEPT ![slot] = NoPid] /\ idle_count' = idle_count - 1
      /\ terminated' = IF Exists(pid[slot]) THEN terminated \cup {pid[slot]} ELSE terminated
      /\ pc = "del_kill" /\ pc' = "trim"
      /\ UNCHANGED <<busy_count, job, jobslot, failures>>
  BY DEF DelKill, Terminate, FreeSlot
<1>2. slot \in Slots /\ pid[slot] # NoPid /\ pid[slot] \in Pids
  BY <1>1 DEF IInv, Located, Types
<1> PICK e \in Slots : e = slot
  BY <1>2
<1>3. Doomed'
  BY <1>1 DEF Kept, Doomed, Exists
<1> DEFINE k == jobslot[pid[e]]
<1>4. Named(e) = pid[e] /\ Named(e)' = NoPid
  BY <1>1, <1>2 DEF Named, IInv, Types
<1>5. ASSUME NEW s \in Slots, s # e
      PROVE  /\ Named(s)' = pid[s] /\ Named(s) = pid[s] /\ pid'[s] = pid[s]
             /\ Owner(pid[s], s)' => Owner(pid[s], s)
             /\ Owner(pid[s], s) => Owner(pid[s], s)' \/ s = k
  <2>1. Named(s)' = pid[s] /\ Named(s) = pid[s] /\ pid'[s] = pid[s]
    BY <1>1, <1>2, <1>5 DEF Named, IInv, Types
  <2>2. Owner(pid[s], s)' => Owner(pid[s], s)
    BY <1>1, <2>1 DEF Owner, Exists
  <2>3. Owner(pid[s], s) => Owner(pid[s], s)' \/ s = k
    BY <1>1, <2>1 DEF Owner, Exists
  <2> QED
    BY <2>1, <2>2, <2>3
<1>6. StaleEntries' \subseteq (StaleEntries \ {e}) \cup {k}
  <2> SUFFICES ASSUME NEW s \in StaleEntries' PROVE s \in (StaleEntries \ {e}) \cup {k}
    OBVIOUS
  <2>1. s \in Slots /\ Named(s)' # NoPid /\ ~Owner(Named(s), s)'
    BY DEF StaleEntries
  <2>2. s # e
    BY <1>4, <2>1
  <2>3. Named(s)' = pid[s] /\ Named(s) = pid[s] /\ pid'[s] = pid[s]
    BY <1>5, <2>1, <2>2
  <2>4. ~Owner(pid[s], s)'
    BY <2>1, <2>3 DEF Owner, Exists
  <2>5. ~Owner(pid[s], s) \/ s = k
    BY <1>5, <2>1, <2>2, <2>4
  <2> QED
    BY <2>1, <2>2, <2>3, <2>5 DEF StaleEntries
<1>7. StaleEntries \in SUBSET Slots /\ StaleEntries' \in SUBSET Slots
      /\ StaleEntries \ {e} \in SUBSET Slots
  BY DEF StaleEntries
<1>8. Cardinality(StaleEntries') <= Cardinality(StaleEntries)
  <2>1. IsFiniteSet(StaleEntries)
    BY <1>7, SlotSets
  <2>2. CASE e \in StaleEntries
    <3>1. Cardinality(StaleEntries \ {e}) = Cardinality(StaleEntries) - 1
      BY <2>1, <2>2, FS_RemoveElement
    <3>2. Cardinality(StaleEntries') <= Cardinality(StaleEntries \ {e}) + 1
      BY <1>6, <1>7, OneSlotMore
    <3>3. Cardinality(StaleEntries') \in Nat
      BY <1>7, SlotSets
    <3> QED
      BY <3>1, <3>2, <3>3, EntryCounts
  <2>3. CASE e \notin StaleEntries
    <3>1. Owner(pid[e], e)
      BY <1>2, <1>4, <2>3 DEF StaleEntries
    <3>2. k = e /\ e \notin StaleEntries'
      BY <1>4, <3>1 DEF StaleEntries, Owner
    <3>3. StaleEntries' \subseteq StaleEntries
      BY <1>6, <3>2
    <3> QED
      BY <2>1, <3>3, FS_Subset
  <2> QED
    BY <2>2, <2>3
<1>9. StaleBounded'
  <2>1. Cardinality(StaleEntries') \in Nat
    BY <1>7, SlotSets
  <2> QED
    BY <1>1, <1>8, <2>1, EntryCounts DEF Kept, StaleBounded
<1>10. idle_count' >= MINSPARSESERVERS /\ idle_count' \in Nat
  BY <1>1, PoolAssumption DEF Kept, Floor, IInv, Types
<1>11. Cardinality(UsedBelow(pid', MAXCLIENT)) = idle_count' + busy_count'
  <2>1. Cardinality(UsedBelow(pid, MAXCLIENT)) = idle_count + busy_count
    BY <1>1 DEF IInv, CountsMatchTable
  <2>2. Cardinality(UsedBelow(pid', MAXCLIENT)) = Cardinality(UsedBelow(pid, MAXCLIENT)) - 1
    BY <1>1, <1>2, UsedClear DEF IInv, Types
  <2> QED
    BY <1>1, <2>1, <2>2 DEF IInv, Types
<1>12. Accounted' >= MINSPARSESERVERS
  <2>1. UsedBelow(pid', MAXCLIENT) = StaleEntries' \cup OwnedEntries'
    BY <1>1, PoolAssumption DEF UsedBelow, StaleEntries, OwnedEntries, Named, Slots
  <2>2. OwnedEntries' \in SUBSET Slots /\ UsedBelow(pid', MAXCLIENT) \in SUBSET Slots
    BY DEF OwnedEntries, UsedBelow
  <2>3. Cardinality(UsedBelow(pid', MAXCLIENT)) <=
          Cardinality(StaleEntries') + Cardinality(OwnedEntries')
    BY <1>7, <2>1, <2>2, OwnedOfUsed
  <2>4. Cardinality(StaleEntries') \in Nat /\ Cardinality(OwnedEntries') \in Nat
    BY <1>7, <2>2, SlotSets
  <2>5. busy_count' \in Nat /\ failures' \in Nat
    BY <1>1 DEF IInv, Types
  <2> QED
    BY <1>9, <1>10, <1>11, <2>3, <2>4, <2>5, PoolAssumption DEF StaleBounded, Accounted
<1>13. Floor'
  BY <1>1, <1>12 DEF Floor, Filling
<1> QED
  BY <1>3, <1>9, <1>13 DEF Kept

\* Searching changes no entry, and scanning frees stale ones only.
LEMMA ScanKept ==
  ASSUME IInv, Kept, DelProbe \/ Wake \/ ScanSlot \/ ScanBusy \/ ScanAbort \/ ScanDone
  PROVE  Kept'
<1>1. /\ UNCHANGED servers
      /\ pc \in {"del_probe", "suspend", "scan", "recheck"}
      /\ pc' \in {"del_probe", "del_kill", "scan", "recheck", "aborted", "trim", "grow", "suspend"}
      /\ pc' \in {"del_probe", "del_kill"} => pc = "del_probe" /\ UNCHANGED idle_count
  BY DEF DelProbe, Wake, ScanSlot, ScanBusy, ScanAbort, ScanDone, AfterScan, FreeSlot
<1>2. Doomed'
  BY <1>1 DEF Kept, Doomed, Exists, servers
<1>3. StaleEntries' \subseteq StaleEntries /\ OwnedEntries' = OwnedEntries
  <2>1. CASE UNCHANGED pid
    BY <1>1, <2>1, SameEntries DEF servers
  <2>2. CASE ScanSlot /\ pid[slot] # NoPid /\ ~Exists(pid[slot])
    <3>1. slot \in Slots /\ pid' = [pid EXCEPT ![slot] = NoPid]
      BY <2>2, PoolAssumption DEF ScanSlot, FreeSlot, IInv, Types, Slots
    <3> PICK e \in Slots : e = slot
      BY <3>1
    <3>2. Named(e) = pid[e] /\ Named(e)' = NoPid /\ ~Owner(pid[e], e)
      BY <1>1, <2>2, <3>1 DEF Named, Owner, IInv, Types
    <3>3. ASSUME NEW s \in Slots, s # e
          PROVE  Named(s)' = Named(s) /\ (Owner(Named(s), s)' <=> Owner(Named(s), s))
      <4>1. Named(s)' = Named(s)
        BY <1>1, <3>1, <3>3 DEF Named, IInv, Types
      <4> QED
        BY <1>1, <4>1 DEF Owner, Exists, servers
    <3>4. StaleEntries' \subseteq StaleEntries
      BY <3>2, <3>3 DEF StaleEntries, Owner, Exists
    <3>5. OwnedEntries' = OwnedEntries
      BY <3>2, <3>3 DEF OwnedEntries, Owner, Exists
    <3> QED
      BY <3>4, <3>5
  <2> QED
    BY <2>1, <2>2 DEF DelProbe, Wake, ScanSlot, ScanBusy, ScanAbort, ScanDone
<1>4. StaleBounded'
  <2>1. StaleEntries \in SUBSET Slots /\ StaleEntries' \in SUBSET Slots
    BY DEF StaleEntries
  <2>2. /\ IsFiniteSet(StaleEntries) /\ Cardinality(StaleEntries') \in Nat
    BY <2>1, SlotSets
  <2>3. Cardinality(StaleEntries') <= Cardinality(StaleEntries)
    BY <1>3, <2>2, FS_Subset
  <2> QED
    BY <1>1, <2>2, <2>3, EntryCounts DEF Kept, StaleBounded, servers
<1>5. Accounted' = Accounted
  BY <1>1, <1>3 DEF Accounted, servers
<1>6. Floor'
  BY <1>1, <1>5 DEF Kept, Floor, Filling
<1> QED
  BY <1>2, <1>4, <1>6 DEF Kept

\* Whatever happens, no more entries are stale than servers were lost to a failed accept(),
\* and no more servers are missing.
THEOREM KeptAlways == Spec => []Kept
<1>1. IInv /\ Kept /\ [Next]_vars => Kept'
  BY LoopKept, AddForkKept, AddForkFailsKept, AddRecordKept, DelKillKept, ScanKept, ServerKept,
     AcceptExitKept, QuietKept
  DEF Next, Parent, AcceptFails
<1> QED
  BY <1>1, InitKept, Invariance, PTL DEF Spec

\* Each failed accept() leaves one stale entry at most, however the id in it is reused and
\* whoever is signalled through it.
THEOREM StaleCorrect == Spec => []StaleBounded
<1>1. Kept => StaleBounded
  BY DEF Kept
<1> QED
  BY <1>1, KeptAlways, PTL

\* There are at least as many servers as owned entries.
LEMMA ServersOfTable ==
  ASSUME IInv, pc # "exited"
  PROVE  /\ Cardinality(LiveServers) \in Nat
         /\ Cardinality(LiveServers) >= Cardinality(OwnedEntries)
<1> DEFINE used == UsedBelow(pid, MAXCLIENT)
           named == {pid[s] : s \in used}
           g == [s \in used |-> pid[s]]
           f == [s \in OwnedEntries |-> Named(s)]
<1>1. IsFiniteSet(used) /\ \A s \in used : s \in Slots /\ pid[s] \in Pids
  BY UsedFinite DEF UsedBelow, IInv, Types
<1>2. f \in Injection(OwnedEntries, LiveServers)
  <2>1. ASSUME NEW s \in OwnedEntries PROVE Named(s) \in LiveServers /\ jobslot[Named(s)] = s
    <3>1. Named(s) \in Pids
      BY NamedType DEF OwnedEntries
    <3> QED
      BY <3>1 DEF OwnedEntries, Owner, LiveServers
  <2>2. f \in [OwnedEntries -> LiveServers]
    BY <2>1
  <2>3. ASSUME NEW s \in OwnedEntries, NEW t \in OwnedEntries, f[s] = f[t] PROVE s = t
    BY <2>1, <2>3
  <2> QED
    BY <2>2, <2>3 DEF Injection, IsInjective
<1>3. IsFiniteSet(LiveServers)
  <2>1. g \in Surjection(used, named)
    BY DEF Surjection
  <2>2. IsFiniteSet(named \cup {forked})
    BY <1>1, <2>1, FS_Surjection, FS_AddElement
  <2>3. LiveServers \in SUBSET (named \cup {forked})
    BY PoolAssumption DEF IInv, NoLostServer, LiveServers, UsedBelow, Slots
  <2> QED
    BY <2>2, <2>3, FS_Subset
<1>4. Cardinality(OwnedEntries) <= Cardinality(LiveServers)
  BY <1>2, <1>3, FS_Injection
<1> QED
  BY <1>4, <1>3, FS_CardinalityType

\* Once filled, the pool has MINSPARSESERVERS servers, but for one for each failed accept().
THEOREM FloorCorrect == Spec => []PoolFloor
<1>1. IInv /\ Kept => PoolFloor
  <2> SUFFICES ASSUME IInv, Kept, ~Filling, pc # "exited"
               PROVE  Cardinality(LiveServers) + failures >= MINSPARSESERVERS
    BY DEF PoolFloor, Filling
  <2>1. Accounted >= MINSPARSESERVERS
    BY DEF Kept, Floor
  <2> QED
    BY <2>1, ServersOfTable, EntryCounts, PoolAssumption DEF Accounted
<1> QED
  BY <1>1, Invariance, KeptAlways, PTL

----------------------------------------------------------------------------
(***************************************************************************)
(* What the parent sees, if no process runs on after SIGTERM was sent.     *)
(***************************************************************************)

\* The state a server has published, before it tells the parent and after.
Published(p) == IF job[p] \in {"tell_idle", "accept"} THEN "STATE_IDLE" ELSE "STATE_BUSY"

\* The parent knows of it, is told of it, or has yet to come to its slot.
Noticed(p) ==
  \/ notified
  \/ view[jobslot[p]] = Published(p)
  \/ pc \in {"scan", "recheck"} /\ slot <= jobslot[p]

\* What a server has published stands in its slot, and does not go unnoticed once it waits or
\* serves.
Watched(p) ==
  /\ job[p] \in {"tell_idle", "accept", "tell_busy", "serve"} => state[jobslot[p]] = Published(p)
  /\ job[p] \in {"accept", "serve"} => Noticed(p)

Blank == \A s \in Slots : pid[s] = NoPid => view[s] = "none"

\* It is so while the parent runs.
Seen == Blank /\ (~Stopped => \A p \in LiveServers : Watched(p))

\* A running server is in its slot of the table, unless it is about to be entered there.
LEMMA SlotOfServer ==
  ASSUME IInv, ~Stopped, NEW p \in LiveServers
  PROVE  /\ p \in Pids /\ Exists(p) /\ p \notin terminated /\ jobslot[p] \in Slots
         /\ \/ pid[jobslot[p]] = p
            \/ pc = "record" /\ forked = p /\ jobslot[p] = slot /\ pid[slot] = NoPid
BY DEF IInv, NoLostServer, Located, LiveServers, Stopped

\* No two running servers have the same slot.
LEMMA SlotsDiffer ==
  ASSUME IInv, ~Stopped, NEW p \in LiveServers, NEW q \in LiveServers, jobslot[p] = jobslot[q]
  PROVE  p = q
BY SlotOfServer, PoolAssumption

\* The parent goes on or stops, with the table and its view of it as they are.
LEMMA AsideSeen ==
  ASSUME IInv, Seen, UNCHANGED <<pid, state, notified, view, servers>>,
         \/ Stopped'
         \/ ~Stopped /\ (pc \notin {"scan", "recheck"} \/ slot = MAXCLIENT)
  PROVE  Seen'
<1>1. Blank'
  BY DEF Seen, Blank
<1>2. LiveServers' = LiveServers
  BY DEF LiveServers, Exists, servers
<1>3. ASSUME ~Stopped', NEW p \in LiveServers PROVE Watched(p)'
  <2>1. ~Stopped /\ Watched(p) /\ jobslot[p] \in Slots
    BY <1>3, SlotOfServer DEF Seen
  <2>2. ~(pc \in {"scan", "recheck"} /\ slot <= jobslot[p])
    BY <1>3, <2>1, PoolAssumption DEF Slots
  <2> QED
    BY <2>1, <2>2 DEF Watched, Noticed, Published, servers
<1> QED
  BY <1>1, <1>2, <1>3 DEF Seen

\* fork() gives the new server a slot that is nobody's.
LEMMA AddForkSeen == ASSUME IInv, Seen, AddFork PROVE Seen'
<1>1. PICK s \in 0 .. MAXCLIENT, p \in Pids :
        /\ IsFirstFree(s)
        /\ ~Exists(p)
        /\ state' = [state EXCEPT ![s] = "STATE_IDLE"]
        /\ job' = [job EXCEPT ![p] = "set_idle"]
        /\ jobslot' = [jobslot EXCEPT ![p] = s]
  BY DEF AddFork
<1>2. /\ CallsAdd /\ pc \in {"fill", "grow"}
      /\ UNCHANGED <<pid, notified, view, terminated>>
  BY DEF AddFork, CallsAdd
<1>3. idle_count + busy_count < MAXCLIENT
  BY PoolAssumption DEF AddFork, TableFull, IInv, Types
<1>4. s \in Slots /\ pid[s] = NoPid
  BY <1>1, <1>2, <1>3, FirstFreeInTable
<1>5. Blank'
  BY <1>2 DEF Seen, Blank
<1>6. job'[p] = "set_idle"
  BY <1>1 DEF IInv, Types
<1>7. ASSUME NEW q \in LiveServers', q # p PROVE Watched(q)'
  <2>1. q \in LiveServers /\ job'[q] = job[q] /\ jobslot'[q] = jobslot[q]
    BY <1>1, <1>2, <1>7 DEF LiveServers, Exists, IInv, Types
  <2>2. ~Stopped
    BY <1>2 DEF Stopped
  <2>3. pid[jobslot[q]] = q /\ jobslot[q] \in Slots /\ q \in Pids
    BY <1>2, <2>1, <2>2, SlotOfServer
  <2>4. state'[jobslot[q]] = state[jobslot[q]]
    BY <1>1, <1>4, <2>3, PoolAssumption DEF IInv, Types
  <2> QED
    BY <1>2, <2>1, <2>2, <2>4 DEF Seen, Watched, Noticed, Published
<1> QED
  BY <1>5, <1>6, <1>7 DEF Seen, Watched

\* The parent takes the server it enters for idle; if that is not so any more, it is told.
LEMMA AddRecordSeen == ASSUME IInv, Seen, AddRecord PROVE Seen'
<1>1. /\ pc = "record"
      /\ pid' = [pid EXCEPT ![slot] = forked]
      /\ view' = [view EXCEPT ![slot] = "STATE_IDLE"]
      /\ UNCHANGED <<state, notified, servers>>
  BY DEF AddRecord
<1>2. slot \in Slots /\ pid[slot] = NoPid /\ forked \in Pids /\ view[slot] = "none" /\ ~Stopped
  BY <1>1 DEF IInv, Located, Seen, Blank, Stopped
<1>3. Blank'
  BY <1>1, <1>2, PoolAssumption DEF Seen, Blank, IInv, Types
<1>4. LiveServers' = LiveServers
  BY <1>1 DEF LiveServers, Exists, servers
<1>5. ASSUME NEW p \in LiveServers PROVE Watched(p)'
  <2>1. Watched(p) /\ jobslot[p] \in Slots
    BY <1>2, SlotOfServer DEF Seen
  <2>2. CASE jobslot[p] = slot
    <3>1. job[p] \in {"accept", "serve"} => notified
      BY <1>1, <1>2, <2>1, <2>2 DEF Watched, Noticed, Published
    <3> QED
      BY <1>1, <2>1, <3>1 DEF Watched, Noticed, Published, servers
  <2>3. CASE jobslot[p] # slot
    BY <1>1, <2>1, <2>3 DEF Watched, Noticed, Published, servers, IInv, Types
  <2> QED
    BY <2>2, <2>3
<1> QED
  BY <1>3, <1>4, <1>5 DEF Seen

\* The server whose slot is freed is told to stop; those of other slots are not affected.
LEMMA DelKillSeen == ASSUME IInv, Seen, DelKill PROVE Seen'
<1>1. /\ pc = "del_kill"
      /\ pid' = [pid EXCEPT ![slot] = NoPid]
      /\ view' = [view EXCEPT ![slot] = "none"]
      /\ terminated' = IF Exists(pid[slot]) THEN terminated \cup {pid[slot]} ELSE terminated
      /\ UNCHANGED <<state, notified, job, jobslot>>
  BY DEF DelKill, Terminate, FreeSlot
<1>2. slot \in Slots /\ ~Stopped
  BY <1>1 DEF IInv, Located, Stopped
<1>3. Blank'
  BY <1>1, <1>2 DEF Seen, Blank, IInv, Types
<1>4. ASSUME NEW p \in LiveServers' PROVE Watched(p)'
  <2>1. p \in LiveServers /\ p # pid[slot]
    BY <1>1, <1>4 DEF LiveServers, Exists
  <2>2. pid[jobslot[p]] = p /\ jobslot[p] \in Slots
    BY <1>1, <1>2, <2>1, SlotOfServer
  <2>3. view'[jobslot[p]] = view[jobslot[p]]
    BY <1>1, <2>1, <2>2 DEF IInv, Types
  <2> QED
    BY <1>1, <1>2, <2>1, <2>3 DEF Seen, Watched, Noticed, Published
<1> QED
  BY <1>3, <1>4 DEF Seen

\* The pending notification is taken, and every slot is yet to be scanned.
LEMMA WakeSeen == ASSUME IInv, Seen, Wake PROVE Seen'
<1>1. /\ pc = "suspend" /\ pc' = "scan" /\ slot' = 0
      /\ UNCHANGED <<pid, state, view, servers>>
  BY DEF Wake
<1>2. ~Stopped /\ Blank'
  BY <1>1 DEF Stopped, Seen, Blank
<1>3. LiveServers' = LiveServers
  BY <1>1 DEF LiveServers, Exists, servers
<1>4. ASSUME NEW p \in LiveServers PROVE Watched(p)'
  <2>1. Watched(p) /\ 0 <= jobslot[p]
    BY <1>2, SlotOfServer DEF Seen, Slots
  <2> QED
    BY <1>1, <2>1 DEF Watched, Noticed, Published, servers
<1> QED
  BY <1>2, <1>3, <1>4 DEF Seen

\* The scan leaves a slot behind having seen what stands in it.
LEMMA ScanSeen == ASSUME IInv, Seen, ScanSlot \/ ScanBusy PROVE Seen'
<1>1. /\ pc \in {"scan", "recheck"} /\ pc' \in {"scan", "recheck"} /\ slot \in Slots
      /\ slot' \in {slot, slot + 1}
      /\ UNCHANGED <<state, notified, servers>>
  BY PoolAssumption DEF ScanSlot, ScanBusy, FreeSlot, IInv, Types, Located, Slots
<1>2. ~Stopped
  BY <1>1 DEF Stopped
<1>3. Blank'
  BY <1>1 DEF ScanSlot, ScanBusy, FreeSlot, Seen, Blank, IInv, Types, Located
<1>4. LiveServers' = LiveServers
  BY <1>1 DEF LiveServers, Exists, servers
<1>5. \A s \in Slots : s # slot => view'[s] = view[s]
  BY DEF ScanSlot, ScanBusy, FreeSlot, IInv, Types
<1>6. ASSUME slot' = slot + 1, pid[slot] # NoPid, Exists(pid[slot])
      PROVE  view'[slot] = state[slot]
  BY <1>1, <1>6 DEF ScanSlot, ScanBusy, FreeSlot, IInv, Types
<1>7. ASSUME NEW p \in LiveServers PROVE Watched(p)'
  <2>1. /\ Watched(p) /\ jobslot[p] \in Slots /\ pid[jobslot[p]] = p /\ p \in Pids /\ Exists(p)
    BY <1>1, <1>2, <1>7, SlotOfServer DEF Seen
  <2>2. CASE slot' = slot + 1 /\ jobslot[p] = slot
    BY <1>1, <1>6, <2>1, <2>2, PoolAssumption DEF Watched, Noticed, Published, servers
  <2>3. CASE jobslot[p] # slot
    <3>1. slot <= jobslot[p] => slot' <= jobslot[p]
      BY <1>1, <2>1, <2>3, PoolAssumption DEF Slots
    <3> QED
      BY <1>1, <1>5, <2>1, <2>3, <3>1 DEF Watched, Noticed, Published, servers
  <2>4. CASE slot' = slot /\ jobslot[p] = slot
    <3>1. slot' <= jobslot[p]
      BY <1>1, <2>4, PoolAssumption DEF Slots
    <3> QED
      BY <1>1, <2>1, <3>1 DEF Watched, Noticed, Published, servers
  <2> QED
    BY <1>1, <2>2, <2>3, <2>4
<1> QED
  BY <1>3, <1>4, <1>7 DEF Seen

\* A server that runs was not told to stop: it writes to its own slot, and then tells.
LEMMA ServerSeen ==
  ASSUME LateTerm = FALSE, IInv, Seen, NEW p \in Pids,
         ServerStep(p) \/ AcceptFails(p) \/ Die(p)
  PROVE  Seen'
<1>1. UNCHANGED <<pid, parent>>
  BY DEF ServerStep, AcceptFails, PublishIdle, Notify, Accept, PublishBusy, Serve,
         AcceptRetry, AcceptExit, Die
<1>2. Blank'
  BY <1>1 DEF Seen, Blank, parent
<1>3. ASSUME ~Stopped', NEW q \in LiveServers', q # p PROVE Watched(q)'
  <2>1. /\ q \in LiveServers /\ job'[q] = job[q] /\ jobslot'[q] = jobslot[q]
        /\ notified => notified'
    BY <1>3 DEF ServerStep, AcceptFails, PublishIdle, Notify, Accept, PublishBusy, Serve,
         AcceptRetry, AcceptExit, Die, LiveServers, Exists, IInv, Types
  <2>2. ~Stopped
    BY <1>1, <1>3 DEF Stopped, parent
  <2>3. state'[jobslot[q]] = state[jobslot[q]]
    <3>1. CASE PublishIdle(p) \/ PublishBusy(p)
      <4>1. p \in LiveServers
        BY <3>1 DEF PublishIdle, PublishBusy, Runs, LiveServers
      <4>2. jobslot[q] # jobslot[p]
        BY <1>3, <2>1, <2>2, <4>1, SlotsDiffer
      <4>3. jobslot[q] \in Slots /\ state \in [Slots -> States]
        BY <2>1, <2>2, SlotOfServer DEF IInv, Types
      <4> QED
        BY <3>1, <4>2, <4>3 DEF PublishIdle, PublishBusy
    <3>2. CASE UNCHANGED state
      BY <3>2
    <3> QED
      BY <3>1, <3>2 DEF ServerStep, AcceptFails, Notify, Accept, Serve, AcceptRetry, AcceptExit, Die
  <2> QED
    BY <1>1, <2>1, <2>2, <2>3 DEF Seen, Watched, Noticed, Published, parent
<1>4. ASSUME ~Stopped', p \in LiveServers' PROVE Watched(p)'
  <2>1. ~Stopped
    BY <1>1, <1>4 DEF Stopped, parent
  <2>2. CASE PublishIdle(p) \/ PublishBusy(p)
    <3>1. p \in LiveServers
      BY <2>2 DEF PublishIdle, PublishBusy, Runs, LiveServers
    <3>2. jobslot[p] \in Slots /\ jobslot' = jobslot
      BY <2>1, <2>2, <3>1, SlotOfServer DEF PublishIdle, PublishBusy
    <3> QED
      BY <2>2, <3>2 DEF PublishIdle, PublishBusy, Watched, Published, IInv, Types
  <2>3. CASE Notify(p)
    <3>1. p \in LiveServers
      BY <2>3 DEF Notify, Runs, LiveServers
    <3>2. state[jobslot[p]] = Published(p)
      BY <2>1, <2>3, <3>1 DEF Notify, Seen, Watched
    <3> QED
      BY <2>3, <3>2 DEF Notify, Watched, Noticed, Published, IInv, Types
  <2>4. CASE job'[p] \in {"none", "set_idle", "set_busy"}
    BY <2>4 DEF Watched
  <2> QED
    BY <2>2, <2>3, <2>4 DEF ServerStep, AcceptFails, Accept, Serve, AcceptRetry, AcceptExit, Die,
       IInv, Types
<1> QED
  BY <1>2, <1>3, <1>4 DEF Seen

\* Every reachable state of the pool is such, if SIGTERM ends a process at once.
THEOREM SeenAlways == ASSUME LateTerm = FALSE PROVE Spec => []Seen
<1>1. Init => Seen
  BY DEF Init, Seen, Blank, LiveServers, Exists
<1>2. IInv /\ Seen /\ [Next]_vars => Seen'
  <2> SUFFICES ASSUME IInv, Seen, [Next]_vars PROVE Seen'
    OBVIOUS
  <2>1. CASE AddRefused \/ TrimCall \/ DelProbe \/ DelNone \/ LoopExit \/ ScanDone
    BY <2>1, AsideSeen DEF AddRefused, TrimCall, DelProbe, DelNone, LoopExit, ScanDone, CallsAdd,
       Stopped
  <2>2. CASE ScanAbort
    BY <2>2, AsideSeen DEF ScanAbort, Stopped
  <2>3. CASE AddForkFails
    <3>1. Stopped' /\ UNCHANGED <<pid, view>>
      BY <2>3 DEF AddForkFails, Stopped
    <3> QED
      BY <3>1 DEF Seen, Blank
  <2>4. CASE AddFork \/ AddRecord \/ DelKill \/ Wake \/ ScanSlot \/ ScanBusy
    BY <2>4, AddForkSeen, AddRecordSeen, DelKillSeen, WakeSeen, ScanSeen
  <2>5. CASE \E p \in Pids : ServerStep(p) \/ AcceptFails(p) \/ Die(p)
    BY <2>5, ServerSeen
  <2>6. CASE (\E c \in Clients : Connect(c)) \/ UNCHANGED vars
    <3>1. UNCHANGED <<pid, state, notified, parent, job, jobslot, terminated>>
      BY <2>6 DEF Connect, vars, servers
    <3>2. LiveServers' = LiveServers
      BY <3>1 DEF LiveServers, Exists
    <3>3. \A p : Watched(p)' = Watched(p)
      BY <3>1 DEF Watched, Noticed, Published, parent
    <3> QED
      BY <3>1, <3>2, <3>3 DEF Seen, Blank, Stopped, parent
  <2> QED
    BY <2>1, <2>2, <2>3, <2>4, <2>5, <2>6 DEF Next, Parent
<1> QED
  BY <1>1, <1>2, Invariance, PTL DEF Spec

\* The parent never sleeps over a change of one of its servers.
THEOREM WakeupCorrect == ASSUME LateTerm = FALSE PROVE Spec => []NoLostWakeup
<1>1. Seen => NoLostWakeup
  BY DEF Seen, Watched, Noticed, Published, NoLostWakeup, Stopped
<1>2. Spec => []Seen
  BY SeenAlways
<1> QED
  BY <1>1, <1>2, PTL
============================================================================

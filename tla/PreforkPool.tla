---------------------------- MODULE PreforkPool ----------------------------
(***************************************************************************)
(* The preforking server of dynamic_pool.c.  A parent process keeps a      *)
(* table of server processes in shared memory.  Each server publishes in   *)
(* its slot whether it is idle or busy and notifies the parent with        *)
(* SIG_NOTIFY.  The parent sleeps in sigsuspend; each time it is woken it  *)
(* scans the table, recomputes idle_count and busy_count, and stops idle   *)
(* servers or forks new ones to keep the number of idle servers between    *)
(* MINSPARSESERVERS and MAXSPARSESERVERS.                                  *)
(*                                                                         *)
(* Parent and servers run concurrently on the shared table without any     *)
(* lock, so every access of the parent to a slot's state is a step of its  *)
(* own.  Process ids are those of the pool's processes: fork returns any   *)
(* id that no running process has, also one that is still in the table.    *)
(***************************************************************************)
EXTENDS Integers, FiniteSets, Sequences

CONSTANTS
  MAXCLIENT,         \* number of slots of the table
  MINSPARSESERVERS,  \* fewest idle servers wanted
  MAXSPARSESERVERS,  \* most idle servers wanted
  Pids,              \* process ids fork may return
  NoPid,             \* the -1 in an unused slot
  Clients,           \* clients of the service
  NoClient,          \* a server that holds no connection
  LateTerm,          \* TRUE: a process may still run after SIGTERM was sent to it
  MaxAcceptFail      \* bound on the servers that end because accept() failed

ASSUME PoolAssumption ==
  /\ MAXCLIENT \in Nat \ {0}
  /\ MINSPARSESERVERS \in Nat
  /\ MAXSPARSESERVERS \in Nat
  /\ MINSPARSESERVERS <= MAXSPARSESERVERS
  /\ MAXSPARSESERVERS <= MAXCLIENT
  /\ NoPid \notin Pids
  /\ NoClient \notin Clients
  /\ LateTerm \in BOOLEAN
  /\ MaxAcceptFail \in Nat

VARIABLES
  pid,         \* serverpool[].pid, written by the parent only
  state,       \* serverpool[].state, written by parent and servers
  idle_count,
  busy_count,
  notified,    \* SIG_NOTIFY is pending for the parent: a queue of capacity one
  pc,          \* what the parent does next
  caller,      \* the loop of main that called add_1_sever
  i,           \* loop variable of main
  slot,        \* loop variable of add_1_sever, del_1_server and scan_pool
  forked,      \* pid returned by fork in add_1_sever
  idle, busy,  \* locals of scan_pool
  job,         \* per process: what it does next in server_job, "none" if not running
  jobslot,     \* per process: the slot argument of server_job
  client_fd,   \* per process: the client whose connection it holds
  terminated,  \* processes with SIGTERM pending
  backlog,     \* connections waiting in the listening socket
  failures,    \* servers that ended because accept() failed
  view         \* history: the state the parent last attributed to each slot

parent == <<idle_count, busy_count, pc, caller, i, slot, forked, idle, busy, view>>
servers == <<job, jobslot, client_fd, terminated, backlog, failures>>
vars == <<pid, state, notified, parent, servers>>

Slots == 0 .. MAXCLIENT - 1
States == {"STATE_IDLE", "STATE_BUSY"}
Jobs == {"none", "set_idle", "tell_idle", "accept", "set_busy", "tell_busy", "serve"}
Labels == {"fill", "grow", "record", "suspend", "scan", "recheck", "trim",
           "del_probe", "del_kill", "aborted", "exited"}

\* kill(p, 0) succeeds: the process exists.  SIGCHLD is ignored with SA_NOCLDWAIT,
\* so a process that ends leaves no zombie behind.
Exists(p) == job[p] # "none"

\* A process with SIGTERM pending executes no further code of its own, unless the
\* signal is delivered late.
Runs(p) == Exists(p) /\ (p \in terminated => LateTerm)

\* The slot the search loop of add_1_sever ends with: the first one whose pid is -1,
\* MAXCLIENT if there is none.
IsFirstFree(s) ==
  /\ s \in 0 .. MAXCLIENT
  /\ \A t \in Slots : t < s => pid[t] # NoPid
  /\ s \in Slots => pid[s] = NoPid

----------------------------------------------------------------------------
\* main up to the first loop: empty table, SIG_NOTIFY blocked, socket listening.
Init ==
  /\ pid = [s \in Slots |-> NoPid]
  /\ state = [s \in Slots |-> "STATE_IDLE"]
  /\ idle_count = 0
  /\ busy_count = 0
  /\ notified = FALSE
  /\ pc = "fill"
  /\ caller = "fill"
  /\ i = 0
  /\ slot = 0
  /\ forked = NoPid
  /\ idle = 0
  /\ busy = 0
  /\ job = [p \in Pids |-> "none"]
  /\ jobslot = [p \in Pids |-> 0]
  /\ client_fd = [p \in Pids |-> NoClient]
  /\ terminated = {}
  /\ backlog = <<>>
  /\ failures = 0
  /\ view = [s \in Slots |-> "none"]

----------------------------------------------------------------------------
(***************************************************************************)
(* The parent: add_1_sever.                                                *)
(***************************************************************************)

\* One of the two loops of main calls add_1_sever once more.  The bound of the second
\* loop is evaluated anew in each round, with the idle_count of that moment.
CallsAdd ==
  \/ pc = "fill" /\ i < MINSPARSESERVERS
  \/ pc = "grow" /\ i < MINSPARSESERVERS - idle_count

\* Mutant: the table is taken to be full one server too late.
TableFullLate == idle_count + busy_count > MAXCLIENT

TableFull == idle_count + busy_count >= MAXCLIENT

\* The table is full: return -1.
AddRefused ==
  /\ CallsAdd
  /\ TableFull
  /\ i' = i + 1
  /\ UNCHANGED <<pid, state, notified, idle_count, busy_count, pc, caller, slot, forked,
                 idle, busy, view, servers>>

\* Find a slot, mark it idle and fork.  The child runs server_job from here on, the
\* parent has yet to enter it in the table.
AddFork ==
  /\ CallsAdd
  /\ ~TableFull
  /\ \E s \in 0 .. MAXCLIENT, p \in Pids :
       /\ IsFirstFree(s)
       /\ ~Exists(p)
       /\ state' = [state EXCEPT ![s] = "STATE_IDLE"]
       /\ slot' = s
       /\ forked' = p
       /\ job' = [job EXCEPT ![p] = "set_idle"]
       /\ jobslot' = [jobslot EXCEPT ![p] = s]
  /\ caller' = pc
  /\ pc' = "record"
  /\ UNCHANGED <<pid, notified, idle_count, busy_count, i, idle, busy, view,
                 client_fd, terminated, backlog, failures>>

\* fork() fails: the parent exits.  Its servers go on.
AddForkFails ==
  /\ CallsAdd
  /\ ~TableFull
  /\ \E s \in 0 .. MAXCLIENT :
       /\ IsFirstFree(s)
       /\ state' = [state EXCEPT ![s] = "STATE_IDLE"]
  /\ pc' = "exited"
  /\ UNCHANGED <<pid, notified, idle_count, busy_count, caller, i, slot, forked,
                 idle, busy, view, servers>>

\* The rest of add_1_sever in the parent: enter the new server in the table.
AddRecord ==
  /\ pc = "record"
  /\ pid' = [pid EXCEPT ![slot] = forked]
  /\ view' = [view EXCEPT ![slot] = "STATE_IDLE"]
  /\ idle_count' = idle_count + 1
  /\ i' = i + 1
  /\ slot' = 0
  /\ forked' = NoPid
  /\ pc' = caller
  /\ UNCHANGED <<state, notified, busy_count, caller, idle, busy, servers>>

----------------------------------------------------------------------------
(***************************************************************************)
(* The parent: del_1_server.                                               *)
(***************************************************************************)

\* main calls del_1_server once more; its early return needs idle_count = 0 and cannot
\* be taken under the loop condition.
TrimCall ==
  /\ pc = "trim"
  /\ i < idle_count - MAXSPARSESERVERS
  /\ slot' = 0
  /\ pc' = "del_probe"
  /\ UNCHANGED <<pid, state, notified, idle_count, busy_count, caller, i, forked,
                 idle, busy, view, servers>>

\* One round of the search: test the slot.
DelProbe ==
  /\ pc = "del_probe"
  /\ slot < MAXCLIENT
  /\ \/ /\ pid[slot] # NoPid /\ state[slot] = "STATE_IDLE"
        /\ pc' = "del_kill"
        /\ UNCHANGED slot
     \/ /\ pid[slot] = NoPid \/ state[slot] # "STATE_IDLE"
        /\ slot' = slot + 1
        /\ UNCHANGED pc
  /\ UNCHANGED <<pid, state, notified, idle_count, busy_count, caller, i, forked,
                 idle, busy, view, servers>>

\* The search found no idle server: idle_count was stale, nothing is done.
DelNone ==
  /\ pc = "del_probe"
  /\ slot = MAXCLIENT
  /\ pc' = "trim"
  /\ i' = i + 1
  /\ slot' = 0
  /\ UNCHANGED <<pid, state, notified, idle_count, busy_count, caller, forked,
                 idle, busy, view, servers>>

\* kill(p, SIGTERM) has no effect if the process is gone.
Terminate(p) == terminated' = IF Exists(p) THEN terminated \cup {p} ELSE terminated

\* Mutant: the slot is not freed.
FreeSlotNot == UNCHANGED <<pid, view>>

FreeSlot ==
  /\ pid' = [pid EXCEPT ![slot] = NoPid]
  /\ view' = [view EXCEPT ![slot] = "none"]

\* Mutant: the server is tested again and spared if it is busy, but its slot is freed.
DelKillIfIdle ==
  /\ pc = "del_kill"
  /\ IF state[slot] = "STATE_IDLE" THEN Terminate(pid[slot]) ELSE UNCHANGED terminated
  /\ FreeSlot
  /\ idle_count' = idle_count - 1
  /\ pc' = "trim"
  /\ i' = i + 1
  /\ slot' = 0
  /\ UNCHANGED <<state, notified, busy_count, caller, forked, idle, busy,
                 job, jobslot, client_fd, backlog, failures>>

\* Mutant: the search goes on after the first idle server.
DelKillNoBreak ==
  /\ pc = "del_kill"
  /\ Terminate(pid[slot])
  /\ FreeSlot
  /\ idle_count' = idle_count - 1
  /\ pc' = "del_probe"
  /\ slot' = slot + 1
  /\ UNCHANGED <<state, notified, busy_count, caller, i, forked, idle, busy,
                 job, jobslot, client_fd, backlog, failures>>

\* Send SIGTERM to the process named in the slot, whatever it does by now, and free
\* the slot.
DelKill ==
  /\ pc = "del_kill"
  /\ Terminate(pid[slot])
  /\ FreeSlot
  /\ idle_count' = idle_count - 1
  /\ pc' = "trim"
  /\ i' = i + 1
  /\ slot' = 0
  /\ UNCHANGED <<state, notified, busy_count, caller, forked, idle, busy,
                 job, jobslot, client_fd, backlog, failures>>

----------------------------------------------------------------------------
(***************************************************************************)
(* The parent: main loop and scan_pool.                                    *)
(***************************************************************************)

\* A loop over add_1_sever or del_1_server ends; the parent goes to sleep.
LoopExit ==
  /\ \/ pc = "fill" /\ i >= MINSPARSESERVERS
     \/ pc = "grow" /\ i >= MINSPARSESERVERS - idle_count
     \/ pc = "trim" /\ i >= idle_count - MAXSPARSESERVERS
  /\ pc' = "suspend"
  /\ i' = 0
  /\ UNCHANGED <<pid, state, notified, idle_count, busy_count, caller, slot, forked,
                 idle, busy, view, servers>>

\* sigsuspend lets the pending SIG_NOTIFY in and returns with it blocked again.
Wake ==
  /\ pc = "suspend"
  /\ notified
  /\ notified' = FALSE
  /\ pc' = "scan"
  /\ slot' = 0
  /\ idle' = 0
  /\ busy' = 0
  /\ UNCHANGED <<pid, state, idle_count, busy_count, caller, i, forked, view, servers>>

\* One round of scan_pool up to the first test of the slot's state.
ScanSlot ==
  /\ pc = "scan"
  /\ slot < MAXCLIENT
  /\ \/ /\ pid[slot] = NoPid
        /\ slot' = slot + 1
        /\ UNCHANGED <<pid, view, idle, pc>>
     \/ /\ pid[slot] # NoPid /\ ~Exists(pid[slot])
        /\ FreeSlot
        /\ slot' = slot + 1
        /\ UNCHANGED <<idle, pc>>
     \/ /\ pid[slot] # NoPid /\ Exists(pid[slot]) /\ state[slot] = "STATE_IDLE"
        /\ idle' = idle + 1
        /\ view' = [view EXCEPT ![slot] = "STATE_IDLE"]
        /\ slot' = slot + 1
        /\ UNCHANGED <<pid, pc>>
     \/ /\ pid[slot] # NoPid /\ Exists(pid[slot]) /\ state[slot] # "STATE_IDLE"
        /\ pc' = "recheck"
        /\ UNCHANGED <<pid, view, idle, slot>>
  /\ UNCHANGED <<state, notified, idle_count, busy_count, caller, i, forked, busy, servers>>

\* The second test of the slot's state reads the shared memory again.
ScanBusy ==
  /\ pc = "recheck"
  /\ state[slot] = "STATE_BUSY"
  /\ busy' = busy + 1
  /\ view' = [view EXCEPT ![slot] = "STATE_BUSY"]
  /\ slot' = slot + 1
  /\ pc' = "scan"
  /\ UNCHANGED <<pid, state, notified, idle_count, busy_count, caller, i, forked, idle, servers>>

\* Neither test held: "unknown state.", abort().
ScanAbort ==
  /\ pc = "recheck"
  /\ state[slot] # "STATE_BUSY"
  /\ pc' = "aborted"
  /\ UNCHANGED <<pid, state, notified, idle_count, busy_count, caller, i, slot, forked,
                 idle, busy, view, servers>>

\* Mutant: scan_pool adds to the totals.
StoreTotalsAdded == idle_count' = idle_count + idle /\ busy_count' = busy_count + busy

StoreTotals == idle_count' = idle /\ busy_count' = busy

\* Mutant: a single missing server is not made up for.
AfterScanLate == IF idle > MAXSPARSESERVERS THEN "trim"
                 ELSE IF idle + 1 < MINSPARSESERVERS THEN "grow" ELSE "suspend"

AfterScan == IF idle > MAXSPARSESERVERS THEN "trim"
             ELSE IF idle < MINSPARSESERVERS THEN "grow" ELSE "suspend"

\* scan_pool stores the totals and main decides whether to shrink or grow the pool.
ScanDone ==
  /\ pc = "scan"
  /\ slot = MAXCLIENT
  /\ StoreTotals
  /\ pc' = AfterScan
  /\ i' = 0
  /\ slot' = 0
  /\ idle' = 0
  /\ busy' = 0
  /\ UNCHANGED <<pid, state, notified, caller, forked, view, servers>>

Parent ==
  \/ AddRefused \/ AddFork \/ AddRecord
  \/ TrimCall \/ DelProbe \/ DelNone \/ DelKill
  \/ LoopExit \/ Wake \/ ScanSlot \/ ScanBusy \/ ScanAbort \/ ScanDone

----------------------------------------------------------------------------
(***************************************************************************)
(* The servers: server_job, and the signals that end them.                 *)
(***************************************************************************)

PublishIdle(p) ==
  /\ Runs(p) /\ job[p] = "set_idle"
  /\ state' = [state EXCEPT ![jobslot[p]] = "STATE_IDLE"]
  /\ job' = [job EXCEPT ![p] = "tell_idle"]
  /\ UNCHANGED <<pid, notified, parent, jobslot, client_fd, terminated, backlog, failures>>

\* Mutant: only idle servers notify the parent.
NotifyIdleOnly(p) ==
  /\ Runs(p) /\ job[p] \in {"tell_idle", "tell_busy"}
  /\ notified' = (notified \/ job[p] = "tell_idle")
  /\ job' = [job EXCEPT ![p] = IF job[p] = "tell_idle" THEN "accept" ELSE "serve"]
  /\ UNCHANGED <<pid, state, parent, jobslot, client_fd, terminated, backlog, failures>>

\* kill(ppid, SIG_NOTIFY): a second notification merges with a pending one.
Notify(p) ==
  /\ Runs(p) /\ job[p] \in {"tell_idle", "tell_busy"}
  /\ notified' = TRUE
  /\ job' = [job EXCEPT ![p] = IF job[p] = "tell_idle" THEN "accept" ELSE "serve"]
  /\ UNCHANGED <<pid, state, parent, jobslot, client_fd, terminated, backlog, failures>>

Accept(p) ==
  /\ Runs(p) /\ job[p] = "accept"
  /\ backlog # <<>>
  /\ client_fd' = [client_fd EXCEPT ![p] = Head(backlog)]
  /\ backlog' = Tail(backlog)
  /\ job' = [job EXCEPT ![p] = "set_busy"]
  /\ UNCHANGED <<pid, state, notified, parent, jobslot, terminated, failures>>

\* accept() fails with EINTR or EAGAIN: next round of the loop.
AcceptRetry(p) ==
  /\ Runs(p) /\ job[p] = "accept"
  /\ job' = [job EXCEPT ![p] = "set_idle"]
  /\ UNCHANGED <<pid, state, notified, parent, jobslot, client_fd, terminated, backlog, failures>>

\* accept() fails otherwise: the server exits, and nobody is notified.
AcceptExit(p) ==
  /\ Runs(p) /\ job[p] = "accept"
  /\ failures < MaxAcceptFail
  /\ failures' = failures + 1
  /\ job' = [job EXCEPT ![p] = "none"]
  /\ jobslot' = [jobslot EXCEPT ![p] = 0]
  /\ terminated' = terminated \ {p}
  /\ UNCHANGED <<pid, state, notified, parent, client_fd, backlog>>

PublishBusy(p) ==
  /\ Runs(p) /\ job[p] = "set_busy"
  /\ state' = [state EXCEPT ![jobslot[p]] = "STATE_BUSY"]
  /\ job' = [job EXCEPT ![p] = "tell_busy"]
  /\ UNCHANGED <<pid, notified, parent, jobslot, client_fd, terminated, backlog, failures>>

\* Greet the client, sleep, close the connection.
Serve(p) ==
  /\ Runs(p) /\ job[p] = "serve"
  /\ client_fd' = [client_fd EXCEPT ![p] = NoClient]
  /\ job' = [job EXCEPT ![p] = "set_idle"]
  /\ UNCHANGED <<pid, state, notified, parent, jobslot, terminated, backlog, failures>>

\* SIGTERM is delivered; the kernel closes the connection the process may hold.
Die(p) ==
  /\ p \in terminated
  /\ terminated' = terminated \ {p}
  /\ client_fd' = [client_fd EXCEPT ![p] = NoClient]
  /\ job' = [job EXCEPT ![p] = "none"]
  /\ jobslot' = [jobslot EXCEPT ![p] = 0]
  /\ UNCHANGED <<pid, state, notified, parent, backlog, failures>>

ServerStep(p) ==
  \/ PublishIdle(p) \/ Notify(p) \/ Accept(p) \/ PublishBusy(p) \/ Serve(p)
AcceptFails(p) == AcceptRetry(p) \/ AcceptExit(p)

\* A client connects, once at a time.
Connect(c) ==
  /\ \A k \in DOMAIN backlog : backlog[k] # c
  /\ \A p \in Pids : client_fd[p] # c
  /\ backlog' = Append(backlog, c)
  /\ UNCHANGED <<pid, state, notified, parent, job, jobslot, client_fd, terminated, failures>>

----------------------------------------------------------------------------
Next ==
  \/ Parent
  \/ AddForkFails
  \/ \E p \in Pids : ServerStep(p) \/ AcceptFails(p) \/ Die(p)
  \/ \E c \in Clients : Connect(c)

Spec == Init /\ [][Next]_vars

\* Every process that can run is scheduled again, and a pending SIGTERM is delivered.
\* Failures and the arrival of clients are not forced; accept() is not interrupted for ever.
ServersFair ==
  /\ \A p \in Pids : WF_vars(ServerStep(p)) /\ WF_vars(Die(p))
  /\ <>[][\A p \in Pids : ~AcceptRetry(p)]_vars

FairSpec == Spec /\ WF_vars(Parent) /\ ServersFair

----------------------------------------------------------------------------
(***************************************************************************)
(* Properties.                                                             *)
(***************************************************************************)

\* Every variable has its type.  The counters never leave 0 .. MAXCLIENT, slot may stand
\* one past the table, where the search loops end.
TypeOK ==
  /\ pid \in [Slots -> Pids \cup {NoPid}]
  /\ state \in [Slots -> States]
  /\ idle_count \in 0 .. MAXCLIENT
  /\ busy_count \in 0 .. MAXCLIENT
  /\ notified \in BOOLEAN
  /\ pc \in Labels
  /\ caller \in {"fill", "grow"}
  /\ i \in Nat
  /\ slot \in 0 .. MAXCLIENT
  /\ forked \in Pids \cup {NoPid}
  /\ idle \in 0 .. MAXCLIENT
  /\ busy \in 0 .. MAXCLIENT
  /\ job \in [Pids -> Jobs]
  /\ jobslot \in [Pids -> 0 .. MAXCLIENT]
  /\ client_fd \in [Pids -> Clients \cup {NoClient}]
  /\ terminated \in SUBSET Pids
  /\ backlog \in Seq(Clients)
  /\ failures \in Nat
  /\ view \in [Slots -> States \cup {"none"}]

\* The slots below k that are in use.
UsedBelow(table, k) == {s \in Slots : table[s] # NoPid /\ s < k}

\* The counters that add_1_sever trusts are those of the table: their sum is the number of
\* slots in use, and during a scan the running totals stand for the slots scanned so far.
\* Servers that come, go and change state in between never make the two disagree.
CountsMatchTable ==
  /\ pc \in {"scan", "recheck"} => idle + busy = Cardinality(UsedBelow(pid, slot))
  /\ pc \notin {"scan", "recheck", "aborted"} =>
       idle_count + busy_count = Cardinality(UsedBelow(pid, MAXCLIENT))

\* add_1_sever compares counters, then searches the table: the search never runs off its
\* end, and the slot it found is still free when the new server is entered in it.
SlotInBounds == pc = "record" => slot < MAXCLIENT /\ pid[slot] = NoPid

\* The running servers that the parent has not told to stop.
LiveServers == {p \in Pids : Exists(p) /\ p \notin terminated}

\* No server is forgotten: each one that runs and was not sent SIGTERM is in the table, in
\* the slot it writes its state to, but for the one add_1_sever is about to enter.
NoLostServer ==
  \A p \in LiveServers :
    \/ jobslot[p] \in Slots /\ pid[jobslot[p]] = p
    \/ pc = "record" /\ forked = p
    \/ pc = "exited"

\* The process runs as the server of the slot and nobody has told it to stop.
Owner(p, s) == Exists(p) /\ p \notin terminated /\ jobslot[p] = s

\* The process the table names for a slot, the one about to be entered included.
Named(s) == IF pc = "record" /\ s = slot THEN forked ELSE pid[s]

\* Entries that name a process which is not, or no longer, the server of that slot: through
\* such an entry del_1_server signals nobody, or the server of another slot.
StaleEntries == {s \in Slots : Named(s) # NoPid /\ ~Owner(Named(s), s)}

\* A server that ends because accept() failed leaves one stale entry and no more.  The scan
\* may take it away; a reused id keeps it alive, and the SIGTERM that del_1_server then sends
\* through it to a stranger frees it but makes the stranger's own entry stale.  The damage
\* moves through the table, it never grows.
StaleBounded == Cardinality(StaleEntries) <= failures

\* Trimming, and growing by a loop whose bound moves, never leave fewer servers than
\* MINSPARSESERVERS once the pool was filled, whatever servers do between probe and kill: each
\* server that ended by itself, and each SIGTERM that hit a stranger in its stead, accounts
\* for one that is missing.
PoolFloor ==
  (pc \notin {"fill", "exited"} /\ ~(pc = "record" /\ caller = "fill")) =>
    Cardinality(LiveServers) + failures >= MINSPARSESERVERS

\* No notification is lost although the pending signal has a capacity of one: when the
\* parent sleeps and nothing is pending, the state it last attributed to a server that
\* waits in accept() or serves a client is the server's true state.
NoLostWakeup ==
  (pc = "suspend" /\ ~notified) =>
    \A p \in LiveServers :
      /\ job[p] = "accept" => view[jobslot[p]] = "STATE_IDLE"
      /\ job[p] = "serve" => view[jobslot[p]] = "STATE_BUSY"

\* What "unknown state." in scan_pool claims cannot happen: a slot in use always has one
\* of the two states, so the scan never calls abort().
NeverAborts == pc # "aborted"

Stopped == pc \in {"aborted", "exited"}

\* The servers that wait for a client or are about to.
IdleServers == {p \in LiveServers : job[p] \in {"set_idle", "tell_idle", "accept"}}

\* Too few idle servers are made up for, though one wake-up forks only a part of what is
\* missing: again and again there are enough of them, or a server for each slot.  A stale entry
\* hides one missing server, for ever when the parent is never woken again or when the id in
\* it was reused and the scan counts that server twice; it never hides more than one.
Refill ==
  []<>(\/ Cardinality(IdleServers) + Cardinality(StaleEntries) >= MINSPARSESERVERS
       \/ Cardinality(LiveServers) + Cardinality(StaleEntries) >= MAXCLIENT
       \/ Stopped)

\* Nobody is left to accept a client, nor will be: the parent stopped, or sleeps and has
\* nobody to wake it.  Unless fork() failed, it takes as many failed accept() calls as the
\* pool has servers at least.
Deserted ==
  /\ LiveServers = {}
  /\ Stopped \/ (pc = "suspend" /\ ~notified)
  /\ pc = "exited" \/ failures >= MINSPARSESERVERS

\* A client that waits in the backlog is accepted in the end, also when the parent trims
\* the pool at that moment, aborts or exits after a failed fork(), as long as anybody is left.
Accepted ==
  \A c \in Clients :
    (\E k \in DOMAIN backlog : backlog[k] = c) ~>
      ((\E p \in Pids : client_fd[p] = c) \/ Deserted)
============================================================================

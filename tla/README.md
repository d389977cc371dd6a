# net_work: models, checks and proofs

`net_work` is a collection of small C programs on sockets, processes, threads
and signals: a preforked server with a shared table, a chat server with a thread
per client, echo servers in every style (iterative, forking, `select`, `epoll`),
a calculator, file transfers over half-closed connections, a web server, and
demonstrations of single topics: threads with and without a lock, children and
their exit statuses, pipes, datagrams. Each program stands for itself; servers
and their clients interact by messages, the processes and threads of one program
by shared memory, signals, pipes, semaphores and a mutex.

This directory holds TLA+ modules of the programs, the TLC runs that check them
on small instances, and theorems about them that hold for every value of the
constants and are checked by TLAPS.

## 1. Inventory

| component | state it keeps | operations | what is hard |
|---|---|---|---|
| prefork pool, `dynamic_pool.c` | table of pid and state per slot in shared memory, counters of the parent, pending SIG_NOTIFY and SIGTERM | fork into a free slot, stop an idle server, scan the table, sleep; the servers' loop of accept and serve | no lock on the table; signals merge; servers die silently; pids come back |
| chat server and client, `chat_server.c`, `chat_client.c` | `clientSockets`, `clientCnt` under a mutex, `clientSocket` of main, descriptors | accept, register, start a thread; read, broadcast, remove, close | the thread is given the *address* of `clientSocket`; descriptors are reused; broadcasting blocks with the mutex held; SIGPIPE |
| web server, `http/web_server.c` | `clientSocket` of main, two streams per request, `strtok`'s place for the whole process, the table of descriptors | accept, start a thread; open two streams, read a request, cut it up, send a file or an error, close | address of `clientSocket` as in the chat server; `strtok` is not reentrant; paths that leave a stream open; `NULL` streams when descriptors run out |
| select and epoll echo servers, `select/echo_select_server.c`, `epoll/*.c` | the watched set and its copy, `fdMax`; the epoll set and the events returned and not handled | wait, go through what was reported, accept, read, echo, close | what was reported is old by the time it is handled, and descriptors are closed and reused in the same round; readiness that is reported once; blocking reads |
| forking echo servers, `tcp/echo_mpserver.c`, `tcp/echo_store_server.c`, `process/remove_zombie.c` | descriptors in two processes, zombies, pending SIGCHLD, a pipe | fork per client, reap in a handler, store through the pipe | signals that merge, fork that fails, a pipe nobody reads any more |
| iterative servers, `tcp/echo_server.c`, `reuseaddr_echo_server.c`, `calc_server.c`, `hello_server.c`, `close/file_server.c`, `stdIO/*_server*.c`, and their clients, `tcp/echo_mpclient.c` among them | one connection, a buffer, how much of a request was read | accept, read in pieces, answer, half-close, close | messages in pieces, values left by the client before, a client that stops half way, half-closed connections |
| semaphore threads, `thread/semaphore.c` | `num`, two semaphores | scan a number, add a number | `num` has no lock but the order of the semaphores |
| shared counters and threads, `thread/mutex.c`, `thread1.c` to `thread4.c` | one variable, a mutex | create, join; load, add, store | increments that get lost; a main that ends before its thread |
| processes and signals, `process/*.c` | states and exit statuses of children, the alarm | fork, exit, `wait`, `waitpid`, alarm | who collects which status, also when a fork failed |
| pipes, `process_communication/*.c` | one or two pipes | write, read | `pipe2.c` relies on `sleep()` for who reads |
| datagram echo, `udp/*.c` | the server's queue, what a client waits for | send, receive, reply; bind and end | lost datagrams, no time-out; a server that is not there |
| news, `broadcast/*.c` | position in the file | send a line, receive | the last line is sent twice; lines overtake each other |
| demonstrations: `oob/*.c`, `select/select.c`, `stdIO/stdcpy.c`, `syscpy.c`, `dup.c`, `dns/*.c`, single files at the top | none to speak of | single calls | nothing that several steps of the program could break |

What makes them correct:

- *prefork pool*: counters and table agree, no running server drops out of the
  table, a server that ends after a failed `accept()` spoils at most one entry of
  the table, trimming keeps the wanted minimum but for such servers, no change of
  a server goes unseen by the sleeping parent, clients are accepted as long as
  anybody is left to do so;
- *chat*: `clientCnt` is the number of sessions, the registry holds exactly the
  open sessions, one order of broadcasts for all clients and none missing in
  between, whoever has entered hears what is said from then on and is let go only
  after leaving, the registry is overrun only by one session more than it has
  entries, what is sent is relayed, sessions are cleaned up;
- *web server*: a client gets one answer, to its own request; every descriptor
  has somebody who will close it; connections are closed in the end;
- *echo servers*: each unit is taken once, a connection is closed only after its
  client has left and all it sent was taken, the watched set is the open set,
  clients that wait are answered, the single thread never blocks on one client;
- *forking servers*: the zombies are explained by merged signals, what children
  write to the shared pipe is stored once and nothing but a killed child's last
  read is lost, a connection is refused only when `fork()` failed and cut only when
  its client has left, and no client waits for good;
- *iterative servers*: nothing is lost by cutting messages into pieces or by
  closing half a connection, and a client's answer is computed from its own
  request;
- *semaphore threads*: mutual exclusion, each value handed over once, both end;
- *threads*: what main prints is what the lock, or its absence, allows;
- *processes and pipes*: each status is collected once, messages reach the other
  process, all end;
- *datagrams*: a client prints the echo of its own last message or nothing.

`PROJECT.json` lists the hazards at their lines, with the properties that cover
them.

## 2. Modules

| module | models | composed of |
|---|---|---|
| `PreforkPool` | `dynamic_pool.c` | |
| `ChatRoom` | what a chat promises (abstract) | |
| `ChatServer` | `chat_server.c`, `chat_client.c` | implements `ChatRoom` |
| `WebServer` | `http/web_server.c` | |
| `EchoNet` | connections of the echo programs: `read()`, `write()`, `epoll/echo_client.c` | |
| `EchoService` | what an echo server promises (abstract) | |
| `EventServer` | `select/echo_select_server.c`, the four `epoll/epoll_*.c` servers | `EchoNet`, implements `EchoService` |
| `SigChld` | reaping in a SIGCHLD handler, `process/remove_zombie.c` | |
| `ForkServer` | `tcp/echo_mpserver.c`, `tcp/echo_store_server.c` | `EchoNet`, `SigChld`, implements `EchoService` |
| `IterativeServer` | the iterative servers and their clients | `EchoNet` |
| `HandOff` | handing values over one at a time (abstract) | |
| `Semaphores` | `thread/semaphore.c` | implements `HandOff` |
| `Threads` | `thread/mutex.c`, `thread1.c` to `thread4.c` | `Repertoire` |
| `Processes` | `process/*.c`, `process_communication/*.c` | `Repertoire` |
| `Datagrams` | `udp/*.c`, `broadcast/*.c` | `Repertoire` |
| `Repertoire` | the choice of the small program that runs | |
| `MCPoolLimits` | two pools of `PreforkPool` in one run, one that fills its table and a smaller one | `PreforkPool`, twice |
| `MCRepertoire` | all small programs in one run | `Semaphores`, `Threads`, `Processes`, `Datagrams` |
| `MC...` | the module as TLC checks it, with a symmetry set where no liveness is checked | |
| `...Proofs` | theorems about the module | |

A definition marked `Mutant` is not part of a model. It is a plausible slip in
the definition that follows it, and shows for one property that the runs would
notice.

### How the models correspond to the code

An action is the code between two points at which another process or thread, or
the network, can make a difference: one system call or one access to shared
memory, with the assignments around it. The variable named `pc`, `server`,
`main`, `thread`, `step`, `at` or `child` says what a process does next. Text is
abstracted to a number of units, of which a read takes any part that the code's
buffer and the call allow.

**`PreforkPool`.** `pid` and `state` are `serverpool[]`. `AddFork` and
`AddRecord` are `add_1_sever` before and after the child exists, because the
child runs while the parent has yet to enter it; `DelProbe` and `DelKill` are the
test of a slot and the `kill()` that relies on it; `ScanSlot` and `ScanBusy` (or
`ScanAbort`) are the two reads of one slot's state in `scan_pool`. `fork` may
return any id that no running process has, also one that still stands in the
table. With `LateTerm` a process may go on for some steps after SIGTERM was sent
to it. `AcceptExit` is a server that ends after a failed `accept()`: nobody is told,
since SIGCHLD is ignored and it does not notify, and `failures` counts such servers.
`StaleEntries` are the entries that name a process which is not the server of their
slot. `view` is a history variable. Not modelled: printing the picture of the
table and setting up the socket.

**`ChatServer`.** A session is a connection and the thread started for it.
`Start` reads `clientSocket` whenever the thread gets to it. `Issue` fixes the
connection a `read()` waits on, which closing the descriptor in another thread
does not change. `Write` blocks with the mutex held while the client's window,
`MaxOut`, is full. A write to a client that has closed succeeds and may be
answered by a reset; the next one fails or raises SIGPIPE (`WriteKills`), and
both are allowed. `Remove` is the whole critical section of the clean-up. Nothing
in the code compares `clientCnt` with `MAX_CLNT`: with a full registry `Register` is
not possible and `Overrun` is, the write behind the array, after which the behaviour
is undefined and the model stops following the server. The number of sessions is
not tied to `MAX_CLNT`. Not modelled: the wording of messages.

**`WebServer`.** A connection stands for its thread, its request and its file.
A request is one of five kinds, those that `handler` tells apart. `save`
is the pointer `strtok` keeps between calls: a call with `NULL` goes on wherever
the last call of *any* thread left off, and `disturbed` remembers who met another
thread's text. (The comment at line 78 of `web_server.c` explains `strtok` for one
string; with detached threads there are several.) `fdTable` gives out the lowest
free descriptor; under a low limit `fdopen(dup())` yields `NULL`, and using the
`NULL` stream ends the process (`crashed`); `starved` remembers whose call
failed. `own` remembers what `accept()` returned for a connection. The client
sends one request and waits for the answer. Not modelled: what pages and headers
say.

**`EchoNet`.** `peer` tells how the connection looks to the server: after the
client has closed, `read()` returns 0 when the inbox is empty, and a `write()`
may bring back a reset; after a reset one call fails with an error and later
writes raise SIGPIPE. The client waits for one answer per message, and takes all
that has arrived for it, as its single `read()` does.

**`EventServer`.** One loop for five programs; `program` chooses the source file:
`select` (a copy of the watched set, handled in ascending order), level triggered
(`epoll_server.c`, `epoll_eplt_server.c`), edge triggered with one read
(`epoll_epet_test_server.c`), edge triggered with an endless loop of reads
(`epoll_epet_server.c`). `Wait` is `select()` or `epoll_wait()` and fills `ready`,
which plays the part of `cpySocks` or `epEvents`; `Handle` takes one descriptor
of it. `edge` holds the descriptors something arrived on since they were last
reported. `fdTable` gives out the lowest free descriptor, so that one closed in a
round may belong to a new client before the round is over. Not modelled: the
capacity of the event array, a failing `epoll_wait`, the time-out of `select()`.

**`ForkServer`.** The child of a connection is named by it. `Dropped` says that no
process has a connection open any more: parent and child have closed it in either
order, or the kernel closed it for a child that SIGPIPE killed. A failed `fork()`
falls through to the parent's branch, as in the code, which closes the only
descriptor; the client then finds its connection closed (`HungUp`). A child that is
killed in the `write()` of `echo_store_server.c:77` takes with it what it read at
line 76 and had yet to write to the pipe at line 78 (`ChildKilled` empties its
buffer). The pipe holds `PIPE_SIZE` units; the storing
child reads `Rounds` times (10 in the code) and ends, and since no process closes
its reading end, a full pipe blocks its writers for good. `SigChld` is extended
by it: `Ends` is a child's end, `Deliver` and `Reap` are the handler.

**`IterativeServer`.** `program` chooses the server, with the client that belongs
to it; `echo_mpclient` is the echo server with clients that read in one process
and write in another. `server` runs through the loop of the program chosen. In
`CalcCount` and `CalcRest` a `read()` of 0 leaves `optCount` and `revLen` as they
are, also when the client before set them; the bytes that are computed with may
then belong to nobody, and `Outcome` allows anything. Whether `fclose()` of the
writing stream ends the connection depends on a duplicate (`HalfCloses`).
`EchoAgain` is the line that `echo_std_server.c` writes once too often because
`feof()` learns of the end only from a failed `fgets()`. `hello_server.c` is a
transfer that ends with `close()`; its client reads once and prints what has
arrived. Users of clients may end them at any time (`Kill`). The numbers of the
calculator are not modelled; of `calc()` it matters whether it returns a value,
exits, or divides by zero.

**`Semaphores`.** Each thread's wait, access and post are three steps.

**`Threads`.** `num++` is a load and a store, as the Debug build of
`CMakeLists.txt` compiles it; under the mutex of `mutex.c`, which a thread holds
for all its rounds, nobody runs in between. `thread1.c` leaves its thread behind
when main ends. `thread1.c` and `thread2.c` end
when their thread cannot be created (`CreateFails`); in `thread3.c`, `thread4.c`
and `mutex.c` creation is taken to succeed.

**`Processes`.** Each program is a script per process, of a few operations
(`fork`, `exit`, `wait`, `waitpid`, read and write a pipe, `sleep`, count, set the
alarm); a fork may fail, and the script goes on as the code does. How long a
process sleeps is tied to nothing, so in `pipe2.c` the child may take back its own
message (`TookBack`).

**`Datagrams`.** A datagram may be lost at any time, and the server's user starts
and ends it. A connected client is told that the port is not bound by an error of
its next call, which it prints as any other echo; one that is not connected waits.
The news are sent line by line; `feof()` learns of the end too late, so that the
last line goes out twice unless the file lacks its last newline.

### Abstract specifications

`ChatRoom` is a log: things are said one at a time, members join and are let go
between two of them, and one is finished only when every member that is still
there has heard it; a member hears a thing only if the one before is the last it
has heard. It is implemented by taking the number of broadcasts for the log, the
holder of the mutex for the speaker, what was written to a connection for what
its client has heard, the sessions between `Register` and `Remove` for the
members, and `MAX_CLNT` for the room's capacity; the room ends only over somebody
who left, or when it is full and one more wants to join. That is more than
`SameOrder` and `NoGap`: the first broadcast after a
session was entered is not missed either, and a member that is let go has left,
which is what the comment checked by `chat_mixup` says, true until the first
mix-up. After it the room is `confused`, and order is all it keeps.

`EchoService` says that whatever a client sent is taken to be echoed once, that a
connection is closed only after its client has left and nothing of it is
outstanding, and that a server ends only on behalf of a client that has left
(SIGPIPE). The refinement mapping of `EventServer` and `ForkServer` takes `echoed`
as what was sent and is not in the inbox; `status` is computed from the server's
own record of the connection. Where each connection has a process of its own
(`PerClient`), what ends for a client that has left is its connection, which is then
"cut", and not the server; and up to `MaxRefused` connections may be "refused",
closed with nothing taken. In `ForkServer` the status of a connection that is open
in no process is told by its child: ended in order ("closed"), killed ("cut"), or
never made because `fork()` failed ("refused"). No other connection is ever closed,
and `MaxRefused` is the bound on failed forks.

`HandOff` says that a value is taken, once and in order, before the next is
given. `Semaphores` implements it with `scanned` and `added` as the two
sequences.

## 3. Runs

| run | shows | bounds |
|---|---|---|
| `pool_safety` | counters and table of the pool stay right; what a failed `accept()` costs in entries and servers | 2 slots, 3 ids, 2 clients, late SIGTERM, 1 failed accept |
| `pool_liveness` | no lost wake-up, the pool is refilled, clients are accepted | 2 slots, minimum and maximum 2 or 1, 2 ids, 1 client, 2 failed accepts, prompt SIGTERM |
| `pool_abort` | **violation**: `scan_pool` aborts on a legal state | 2 slots, 3 ids, 1 client, prompt SIGTERM |
| `chat_safety` | count, registry, order of broadcasts; the server implements `ChatRoom` | 3 sessions, registry of 2, 2 descriptors, 2 chunks |
| `chat_liveness` | chunks are relayed and sessions cleaned up | 2 sessions, registry of 2, 2 chunks |
| `chat_mixup` | **violation**: a thread cleans up although its client is there | 2 sessions |
| `event_service` | all `select` and `epoll` servers implement `EchoService` and watch the open descriptors; which of them answer, echo everything and never block | 2 connections, 2 descriptors, 3 units, buffer 1 |
| `epoll_loop_blocks` | **violation**: the endless loop blocks in `read()` | the same |
| `web_service` | one answer to one's own request, an owner for each descriptor, connections closed in the end | 2 connections, all 5 kinds of request, 4 descriptors of which 2 or all may be used |
| `fork_service` | zombies, pipe and echo of the forking servers | 2 connections, 3 units, pipe 2, 2 rounds, 1 failed fork |
| `programs` | the small programs: exclusion and hand-off, sums, statuses, messages, all end | 3 numbers and 5 rounds of the semaphores; 4 threads of 2 rounds; 2 failed forks; 2 datagram clients of 3 messages |
| `iterative_service` | round trip, right answer, half-close, every client served | 2 connections, 2 rounds, 4 units, buffer 2, up to 2 operands, file of 4 |

*Why the bounds are enough to see the interesting cases.* In the pool, two slots
make it possible that one server is stopped or dies while another takes its
place, and three ids that a new server gets an id that is still in the table. With
minimum 2 and two slots a wake-up that finds one stale entry can fork only a part
of what is missing, and two failed `accept()` calls can take the whole pool; with
minimum and maximum 1 servers are stopped as well, which a pool as large as its
table never does. The excess is never more than one with two slots, so that the
bound of the trimming loop, which shrinks while the loop runs (line 227), is not
exercised by a run; `FloorCorrect` covers it. With three sessions, two descriptors
and a registry of two in the chat, a descriptor is reused while another session
broadcasts, `accept()` fails for want of a descriptor, two threads can find the same
number at main's variable, and the third session overruns the registry if it comes
before one of the others was removed. Two descriptors for two
connections of an event server mean that a descriptor closed in a round is given
out again in it. Three units with a buffer of one make edge triggering leave
something behind, and fill the pipe of two after the storing child has ended. Two
requests to the web server suffice for one thread to take the other's descriptor
or the rest of its `strtok`; with two descriptors both calls of `dup()` and of
`fopen()` fail now and then, with four nothing does. Four threads of two rounds let a
stored value overwrite two others; the sums of `thread3.c` are those of the code.
Two rounds of the calculator let the second client meet what the first one left;
the transfers serve one client, so the second connection is one that comes too
late. A file of four with a buffer of two needs an empty last piece.
`CHECK_DEADLOCK FALSE` stands in every configuration, because all these programs
legitimately stop: clients have sent all they may, a server has ended or waits
for ever.

*What the violations show.*

- `pool_abort`: `scan_pool` tests `serverpool[i].state` for idle at line 134 and
  for busy at line 136. The server writes the word in between, both tests fail,
  and the parent calls `abort()` with the message "unknown state.". Its servers go
  on without a parent.
- `chat_mixup`: `pthread_create` gets `&clientSocket` at line 57 of
  `chat_server.c`. A connection accepted before the thread has read it makes two
  threads serve one client and none the other; when the one client leaves, its
  end is also taken for the end of a client that is connected.
- `epoll_loop_blocks`: the comment at line 34 of `epoll_epet_server.c` announces
  non-blocking reads, but only the listening socket is made non-blocking. The
  server echoes what arrived and then blocks in `read()` for good.

*Exceptions written into the properties, each a weakness of the code that is
reported here.*

- *Chat*: `Relayed`, `Reaped`, `RegistryExact` and `NoGap` except the mix-up
  above, which `ChatRoom` knows as being confused; `Relayed` and `Reaped` also
  SIGPIPE, which ends the chat server when a client that left without reading is
  written to twice, and the overrun registry. Both are claimed for clients that
  read: one that does not holds up everyone, since the broadcasting thread waits for
  it with the mutex held.
- *Web*: the same mix-up (`MixedUp`), threads that met another thread's `strtok`
  (`disturbed`) and calls that failed for want of a descriptor (`starved`).
  `RightOutcome` allows the server to come down on a file name without extension:
  `strtok` returns `NULL`, and copying from it is a segmentation fault.
  `DescriptorsOwned` counts the two leaks: the writing stream when the file is
  missing, and the file that was sent. The first of them keeps the client's
  connection open for good, which `Served` excepts.
- *Forking*: `Answered` excepts the pipe after the storing child has ended. When
  `fork()` fails for a client it is not answered either, but finds its connection
  closed. `StoredOnce` excepts a child that SIGPIPE killed: between 1 and `BUF_SIZE`
  units, its last read, are gone with it.
- *Iterative*: `Served` excepts a server that died (`calc_server.c` on an unknown
  operator or a division by zero, SIGPIPE), one that had served its number of
  clients, and `calc_server.c` when a client leaves before its request is
  complete, since a `read()` of 0 keeps its loop going. `HalfCloseCompletes` does
  not promise `sep_server.c` its client's answer: `fclose()` of one stream closes
  the socket for both, which is what `sep_server2.c` is written to avoid.
- *Event*: `WaitsForEventsOnly` and `Answered` leave out the looping server.
  `LevelCompletes` is about the level triggered ones only: the edge triggered
  server with one read per event leaves units behind, and a connection whose
  client left while there were any stays open.
- *Pool*: a server that ends after a failed `accept()` (line 91) leaves its id in
  the table. The next scan takes the entry away, unless the id has been given to a
  new server by then: `kill(pid, 0)` succeeds, both slots now name one process, the
  scan counts it twice, and the pool stays one short of what it believes. A SIGTERM
  sent through the stale entry (lines 112-113) ends the server of the other slot,
  whose own entry is then the stale one. `StaleBounded` says that there is never more
  than one such entry per server lost, `PoolFloor` and `Refill` that no more servers
  are missing. Nobody notifies the parent of such an end: if it sleeps, it goes on
  sleeping until another server reports. When all servers end like this, nobody ever
  does, and `Accepted` excepts a pool that is `Deserted`: later clients wait in the
  backlog for good. `PoolFloor` also leaves out the first filling of the pool.
  `NoLostServer` excepts a parent that a failed `fork()` has ended, `Refill` also one
  that has aborted, `Accepted` either of them if no server is left. `NoLostWakeup` is checked with
  prompt delivery of SIGTERM only; if a server that was sent SIGTERM runs on so
  long that its slot has been given to another, it may write "busy" over the idle
  state of its successor, and the parent sees that until the next report.
  `CountsMatchTable` and `NoLostServer` are checked, and proved, with late
  delivery too.
- *Small programs*: `Totals` says for `thread4.c` only that the sum is within what
  can get lost, since nothing more is true; `thread3.c` may print anything from 11
  to 55. `AllEnd` excepts a failed fork in the three pipe programs, whose parent then
  waits at a pipe that nobody writes to, and `pipe2.c`'s child that slept too
  short; `Echoed` a datagram, or an echo, that was lost: there is no time-out and no
  retry.

## 4. Fairness

Liveness is claimed under weak fairness of what the system schedules by itself:

- `PreforkPool`: the parent, each server process (but not its failures), and the
  delivery of a pending SIGTERM; `accept()` is not interrupted by a signal for ever
  (`AcceptRetry` happens finitely often), and a failing `accept()` is possible, never
  due;
- `ChatServer`: main, each thread, and each client's reading thread, which
  `recvMsg` runs without pause;
- `WebServer`: main and each thread;
- `EventServer`: the only thread, and a client that waits for its echo reads it
  (it is in `read()`);
- `ForkServer`: parent, each child, the storing child, and clients that wait: they
  are in `read()`, which returns an echo or the end of a connection that was closed;
- `Semaphores`, `Threads`, `Processes`: the threads and processes of the program,
  and the alarm. Fairness of "some thread" and "some process" is enough, as each
  has finitely many steps to take and none can use up another's turns;
- `Datagrams`: the server and the clients;
- `IterativeServer`: the server, and the clients *including their users*: the
  server serves one client after the other, so nobody else is served before the
  present user is done. A user may be killed instead. That a user types on is an
  assumption about people, and the property says what follows from it.

Connecting, sending and leaving are not forced anywhere else. Strong fairness is
not used. No property relies on fair acquisition of the mutex beyond what weak
fairness and finitely many chunks give.

## 5. Proofs

The theorems hold for every value of the constants that satisfies the named
`ASSUME` of the module.

**`PreforkPoolProofs`**: `TypeCorrect`, `CountsAgree`, `NoOverrun` and
`NoServerForgotten`, that is `TypeOK`, `CountsMatchTable`, `SlotInBounds` and
`NoLostServer`. The inductive invariant is

    IInv == Types /\ Located /\ CountsMatchTable /\ TotalsBounded /\ NoLostServer

`CountsMatchTable` alone is not inductive: entering a server needs to know that
the slot is free (`Located`, at `record`), which follows because a table whose
counters are below `MAXCLIENT` has a free slot, and the search finds the first;
freeing one needs to know that it is in use (`Located`, at `del_kill`). A scan
keeps the running totals equal to the used slots below `slot`, which the lemmas
`UsedNext`, `UsedClear` and `UsedEnter` about the cardinality of the used slots
carry from step to step. `NoLostServer` then follows since a slot is freed only
when its process is gone or was just sent SIGTERM.

Two more invariants rest on this one. `Kept` counts the entries that name the
server of their slot (`OwnedEntries`) and those that do not (`StaleEntries`): a
failed `accept()` turns one of the first into one of the second, and a SIGTERM sent
through a stale entry frees it and makes at most one other stale. So stale entries
never outnumber the failures (`StaleCorrect`, which is `StaleBounded`), and owned
entries and failures together keep the minimum at each point of `main` (`Floor`),
the loop that trims included: there are more than the minimum when one is about to
be stopped. With an injection of owned entries into the servers this is
`FloorCorrect` (`PoolFloor`), for any number of slots and any excess. `Seen` says that what a server
published stands in its slot, and that the parent knows it, is notified, or has
yet to scan the slot; it needs that no two servers share a slot (`SlotsDiffer`)
and gives `WakeupCorrect` (`NoLostWakeup`) under the assumption `LateTerm =
FALSE`, without which it is not true.

**`ChatServerProofs`**: `TypeCorrect`, `CountCorrect` (`CountIsSessions`),
`OrderCorrect` (`SameOrder`), and `InBounds`: the unchecked write to
`clientSockets[clientCnt]` leaves the array only when exactly `MAX_CLNT` sessions are
entered and not removed, and `clientCnt` is never below 0 or above `MAX_CLNT` before;
how many sessions there were in all does not matter. The invariant is

    IInv == TypeOK /\ Begun /\ Pending /\ CountIsSessions /\ InArray /\ Ordered /\ Exclusive

where `Begun` and `Pending` tie a thread to an accepted connection, and
`Exclusive` says that whoever is in the loop of `sendMessage` holds the mutex and
carries the highest number, so that appending it keeps every stream sorted
(`Ordered`). `CountIsSessions` is proved without assuming that threads have the
right descriptor; `InArray` ties `main = "overrun"` to a full registry.

`RegistryCorrect` (`RegistryExact`) and `GapFree` (`NoGap`) do assume it; since a
mix-up lasts (`MixupLasts`), what holds without one is still inductive. `Matched`
relates entries and sessions in both directions, with no descriptor entered
twice, and keeps a descriptor open on its connection until its thread has closed
it: `accept()` cannot return it before. `UpToDate` adds that an entry the sender
has passed has seen the current broadcast and any other the one before (`Due`);
for a write that fails it relies on the peer being lost for good.

`Refines` shows that `ChatRoom` is implemented. Beyond the invariants above it
needs `Told` (an entry the sender has passed, whose client is there, has been
written to, so that a broadcast that ends has been heard by all) and `OwnEnd` (a
thread waits for its own connection, and goes to remove its socket only after its
client has left). Each action has a lemma that says which step of the room it is;
`MixupStays` shows that only `Start` can confuse it.

**`EventServerProofs`**: `TypeCorrect`, `WatchCorrect` (`WatchesOpen`),
`OnlyWaits` (`WaitsForEventsOnly`), and `Refines`: all five programs implement
`EchoService`. The invariant is

    IInv == TypeOK /\ WatchesOpen /\ Tables /\ ReadyHolds /\ Position

`Tables` says that the table of descriptors and the connections agree,
`ReadyHolds` that what was reported and is not yet handled is still ready: only
this thread takes anything away, so a report does not go stale in the round. And
`Position` says that the descriptor being handled is open and has something to
read, the latter not for the looping server, whose second `read()` nothing was
reported for; it is left out of `WaitsForEventsOnly`.

**`WebServerProofs`**: `TypeCorrect`, `OutcomeCorrect` (`RightOutcome`) and
`OwnersCorrect` (`DescriptorsOwned`). The invariant is

    IInv == TypeOK /\ MainOrder /\ (MixedUp \/ Clean)

`Clean` follows each thread through its request (`InOrder`: what it holds, has
read, has cut up, lacks and has replied), says that each open descriptor is the
one of a thread or of a leaked stream (`Owned`, `FilesCounted`), and that the
server comes down only for a reason the properties name (`CrashExcused`).

**`ForkServerProofs`**: `TypeCorrect`, `BalanceCorrect` (`ZombiesBalance`) and
`HandlerNotInVain`: whenever the handler runs there is a zombie, so the status it
looks at was set. The invariant adds `Dead` (a zombie is a child that ended, so
one that ends is a new zombie) and `Fresh` (the connection about to be forked for
has no child) to type and balance. `StoreCorrect` (`StoredOnce`) follows the
units from the children through the pipe to the file, by lemmas about the units
of appended and of divided sequences; `Held` says which children have units in hand,
so that a killed one, whose buffer is lost, is missing what it had just read and
nothing else. `Refines` shows that `EchoService` is implemented, refusals, cuts and
all; it needs `Finished`: a child ends in order only after its client has left and
all it sent was read, a child is killed only after its client has left and some of
what it sent was read, and no more connections are refused than forks failed.

**`IterativeServerProofs`**: `TypeCorrect`, `RoundTripCorrect` (`RoundTrip`),
`AnswerCorrect` (`RightAnswer`) and `HalfCloseCorrect` (`HalfCloseCompletes`), for
all programs of the module. The invariant is

    IInv == TypeOK /\ Stands /\ Ends /\ Echoed /\ Computed /\ Transferred

`Stands` says where the server is and which connection it has, `Ends` relates the
two ends of each connection. `Echoed` is a conservation law: what the client has
written is what it has read back, plus what is in its inbox, in the server's hand
and in the outbox. `Computed` follows a request through its pieces, `Transferred`
a file and the final answer over the half-closed connection. A step either is a
call of the server on a connection or leaves the server alone (`Called`,
`Apart`), so that each part is shown to be kept once for all connections not
involved.

**`ThreadsProofs`**, on `Semaphores`: `RaceFree` (`NoRace`) and `Refines`, the
refinement of `HandOff`. The invariant `TokenInv` says that one token goes round
through the semaphores and the threads (`Turn`), how far the loops are apart
(`Lag`), how long the histories are (`Progress`), and that `num` is the number on
its way (`Carried`).

On `Threads`: `TypeCorrect`; `MutexExact`: `mutex.c` prints 0, whatever the number
of its threads and their rounds; `ResultTaken`: the thread whose result main of
`thread2.c` takes has made all its rounds; and `TotalsCorrect` (`Totals`), what
main finds in all five programs. The invariant is

    IInv == ThreadTypeOK /\ program \in ThreadPrograms /\ MainOrder /\ RoundOrder /\ Exclusion

`MainOrder` and `RoundOrder` say how far main and the threads are, `Exclusion` that
a thread between `lock` and `unlock` holds the mutex and has loaded what is in
`total`. With it `total` is what the finished threads and the holder have added
(`Exact`), for which finite sets of threads are counted. Without a lock a store
may throw away any number of rounds, so that `total` cannot be told from the
rounds; but it stays between minus the rounds done downwards and the rounds done
upwards, and so does every value loaded and not yet stored (`Drift`, over the
cardinality of the set of rounds done, and by `HalfEach` half of the threads count
each way). In `thread3.c` `Summed` keeps, for the number and both registers, the
most that can have been added and the least that is left: thread 0, whose addends
are the smaller ones, cannot lose what it has itself added since it loaded.

**`RepertoireProofs`**, on `Processes`: `PipesCross` (`MessagesCross`) and
`StatusesCollected` (`Collected`). The scripts are fixed, so the lemmas `Pipe1Ops`
to `SignalOps` tell for each program at which step which operation stands; no
other lemma opens a script. For each program an invariant relates the positions of
its processes to what is in the pipes and was read (`Pipe1Inv`, `Pipe2Inv`,
`Pipe3Inv`), and to the children, the statuses and the failed forks (`WaitInv`,
`WaitPidInv`, `ForkInv`). `Pipe2Inv` shows that there is one way only to lose the
message: the child reads before the parent, and then the pipe stays empty. The
number of failing forks is not bounded in the proofs but by the constant.

On `Datagrams`: `EchoesOwn` (`OwnEcho`) and `TakenOnce` (`OncePerMessage`), for any
number of clients and messages. `EchoInv` says that what is on its way for a
client is its latest message and at one place at most, the queue, the server or
the client's own socket (`AtServer`, `AtClient`), that the client then waits, and
that one that was refused has nothing on its way. `RowInv` orders what was taken
and what waits as one row, by `Before`, which is `<` for messages that arrive in
order and, for the news that overtake each other, says that only the last line may
be there twice.

Together: `AllTypesKept`, `ResultsRight`, `MessagesReach` and `SemaphoresKept` (`AllTypeOK`,
`Results`, `Messages`, and `NoRace` with `ImplementsHandOff`) state the properties
of the run `programs` for the specification that run checks. `StepOfOne` projects a
step of the repertoire to a step or a stutter of each part. It follows that the
specification of a part holds if its program was chosen (`SemaphoresRun`,
`ThreadsRun`, `ProcessesRun`), and that its variables keep their initial values if
it was not.

*Only model-checked*: all liveness, since fairness and `ENABLED` are out of the
prover's reach. Every safety property that a passing run checks is the subject of
a theorem. No module has a recursive operator.

## 6. Limits of the models

- The length of the listening queue is not bounded, and failures of `socket`,
  `bind`, `listen`, `malloc`, `mmap` or `pthread_create` are left out where they
  end the program before there is state to spoil, or are not handled.
- A `write()` is taken to be complete: the code never looks at its result, and
  messages are shorter than a socket's buffer. Only the chat, whose broadcast
  blocks everyone, models a full buffer.
- A reset may be reported to the next call as an error or as SIGPIPE; both occur.
- Clients are those of the repository. Others, that never read or send half a
  request, appear only where a user ends a client at any moment. A client of the
  web server sends one request and waits.
- `select()` is modelled without its time-out, which only sends it round again.
- Unsynchronised accesses are a load and a store each, as the Debug build
  compiles them; an optimising build may do otherwise.
- A `sleep()` synchronises nothing, however long it is.
- The file of the news exists and is not empty. Datagrams of the echo keep their
  order, those of the news do not.

### Not modelled

- *Out-of-band data* (`oob/*.c`): SIGURG, urgent data, `MSG_PEEK`, `readv` and
  `writev` are the kernel's; the programs make one call after the other. Seen in
  reading: the handler of `oob_receive.c` writes `buf[-1]` when `recv()` fails, and
  `peek_receive.c` loops for ever if its peer closes without having sent anything.
- *`select/select.c`*: one descriptor, standard input, watched in a loop that keeps
  no state.
- *Files* (`stdIO/stdcpy.c`, `syscpy.c`, `dup.c` and others): one process and one
  file, with nobody else to interfere.
- *Names* (`dns/*.c`, `gethostbyname`): a call and its output.
- *Build files* and what CMake has generated.

## 7. What could be added

Clients other than those of the repository, above all for the datagram and the web
server; and who said what in the chat, that is the chunks of text as data.

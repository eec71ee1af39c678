# Linux-process-OH in TLA+

The repository is a course on Linux processes: eight labs of small C and C++
programs on System V message queues, semaphores and shared memory, POSIX
threads and sockets. Most programs are a few system calls long; what is worth
verifying is how several of them share a queue, a semaphore, a segment, a
counter or a socket. This directory holds TLA+ models of them, TLC runs on
small instances and TLAPS proofs.

## 1. The system: inventory

| Part | State | Operations | How it interacts |
|---|---|---|---|
| shared memory writer and reader, `lab5/02_rw` | the segment (`nbytes`, `eof`, `data`), two semaphores, the writer's stream state | attach, `ensure_semset`, reserve, fill, publish, release, print, leave | two processes over a segment and a semaphore set that outlive both |
| race-free creation, `lab4/03_good_init` | the set, its values, `sem_otime` | exclusive create, zero, touch, store; open, poll | several copies of one program on one key |
| forking file server, `lab2/02_client_server` | the server's queue, a private queue for each client, one child for each request | ask, fork, send chunks, end or error, clean up | clients, server and children over message queues |
| chat room, `lab 8/chat_*`, `lab 7/5` | slot table, watched set, highest descriptor, `nready`; socket buffers | select, accept, recv, send to the others, hang up | one event loop and its clients over stream sockets |
| semaphore tools, `lab3`, `lab4` | one set | create, SETVAL, SETALL, -3, +1, -1 with SEM_UNDO, report | independent programs on one set |
| message queue tools, `lab1`, `lab2/01_tools` | one queue and its limits | create, send, receive (blocking, not blocking, truncating), set limits, remove | independent programs on one queue |
| C file server, `lab2/msg_file_*.c` | like the C++ one | one message for each file | clients, server, children |
| echo servers, `lab 7/1`, `2`, `4`, `lab 8/tcp_echo_*` | one connection at a time, or a child for each | accept, copy | clients and server over stream sockets |
| datagram servers, `lab 7/3`, `lab 8/ipv*_dg_*` | a bound address | question, answer | clients and server over datagrams |
| threads, `lab6` | counters, an index, a flag | increment, take, wait and signal, cancel, join | threads of one process |
| segment tools, `lab5/01_segments` | segments | create, attach, remove | none |

What is hard in it, by kind; `PROJECT.json` lists each hazard at its line:

* *Interleaving and order.* `ensure_semset` sets both semaphores again when the
  reader starts. `sem_good_init` raises its "ready" signal before the values
  are stored. Several children of the file server send at once. The compiler
  may swap the stores of `nbytes` and `eof`.
* *What outlives a process.* Segments, semaphores and queues stay in the kernel
  with the state of earlier sessions. A killed process gives nothing back.
* *Limits.* Message queues and sockets fill up and block their senders; the
  chat server can run out of descriptors.
* *Partial failure.* `fork`, `fopen`, `read` and `send` fail in the middle of
  an exchange.
* *Signals.* A write to a socket whose peer has gone raises SIGPIPE.

What makes each part correct: the reader's output is the writer's
input, whole, once and in order, and the two are never in the segment together;
one copy initialises the set, once, and nobody uses it before it was zeroed;
every request is answered at most once, each client prints its own file from the
beginning, in order, and to the end before it is told so (the client in C up to a zero byte); every chat client hears
every other one without a gap, and the server's tables describe the same
sockets; a semaphore is what was stored, given and taken, with undone operations
taken back once, and an exclusive run sets only a set it made; whoever waits for
a message that is there gets it; an echo is exact and every child is
waited for; a datagram's answer goes to who asked; a counter loses no increment
where a mutex or the order of the threads protects it.

## 2. Modules

| Module | Models | State and actions against the code |
|---|---|---|
| `ShmTransfer` | `shm_writer.cpp`, `shm_reader.cpp`, `bin_sems.hpp`, `init_sem.hpp` | Each program counter value (`wpc`, `rpc`) is a place between two system calls or stores; each action is one call, one store into the segment, or the begin or end of a block store. `sem` and `blk` are the kernel's objects; `out` is the reader's standard output |
| `BlockChannel` | nothing in the code: the abstract promise of `lab5/02_rw` | a one-place channel: send, receive, close, drain |
| `InitOnce` | nothing in the code: the promise of `lab4/03_good_init` | one copy is elected, writes zeros and then its values; the others are told |
| `FileService` | nothing in the code: the promise of both file servers of `lab2` | ask, lose, send, close with a verdict, take, hear |
| `Broadcast` | nothing in the code: the promise of the chat | join, say, deliver, done, go, dismiss, close |
| `Tally` | nothing in the code: the promise of the threads that take turns | add one, in one step; report the total |
| `ShmTransferProofs` | | theorems on `ShmTransfer` (section 5) |
| `SemGoodInit` | `sem_good_init.cpp` and `get_otime` | one action for each system call of a copy; `otime` says whether `sem_otime` is nonzero, `vals` who stored the values; a creator whose values the kernel does not take ends `refused` |
| `SemGoodInitProofs` | | theorems on `SemGoodInit` |
| `MsgFile` | `msg_file_server.cpp`, `msg_file_client.cpp`, `msg_file.hpp` | `requests` and `responses` are the queues; server loop, each child and each client have a program counter; `Die`, `KillChild`, `ServerRestart` and `ServerForkFails` are the faults; `cut` is whose child was killed |
| `ChatServer` | `lab 8/chat_server.c`, `chat_client.c` (`domain = "inet"`) and `lab 7/5/5_chat_server.c`, `5_chat_client.c` (`"unix"`) | `socks`, `allset`, `rset`, `maxfd`, `nready`, `i`, `j`, `buf`, `sent` are the variables of `main`; one action for each call of the loop. `up` and `down` are the socket buffers, `backlog` the listen queue |
| `SemSet` | every program of `lab3` and `lab4` that changes a set, but for `03_good_init` | one action for each system call of a run; `val` is the set, `adj` the kernel's `semadj`, `base` and `since` the history the books are kept with, `maker` the run that made the set |
| `Threads` | the fifteen programs of `lab6`, chosen by `prog` | `tpc` is where each thread is; `x++` is a load (`Load`) and a store (`Store`); `mtx` the mutex, `got` the positions of the array each thread has used |
| `MsgQueue` | every program of `lab1` and of `lab2` but for the file servers, in C++ and C, chosen by `job` | `queue`, `qbytes`, `exists`, `gen` (the identifier) are the kernel's; one action for each `msgget`, `msgctl`, `msgsnd`, `msgrcv` |
| `FileOnce` | `lab2/msg_file_server.c`, `msg_file_client.c`, `msg_file.h` | `asked` and `clientId` are the queues; `loop`, `kid`, `fetcher` the server, its children and the clients; `KillServer`, `KillChild` and the second branch of `Fork` are the faults |
| `EchoServer` | `lab 7/1`, `2`, `4` and `lab 8/tcp_echo_*`, chosen by `kind` | `name` is the path or port, `srv` the servers, `h` the process that serves each connection, `up` and `down` the sockets, `zombies` and `sigchld` its children |
| `Datagram` | `lab 7/3` and `lab 8/ipv4_dg_*`, `ipv6_dg_*`, chosen by `proto` | `path` is who has the clients' path, `net` the datagrams on their way, `inq` and `rq` the sockets |
| `MsgFileProofs`, `ChatServerProofs`, `ThreadsProofs`, `SemSetProofs` | | theorems on `MsgFile`, `ChatServer`, `Threads`, `SemSet` |
| `QueueProofs` | | theorems on `MsgQueue` and `FileOnce` |
| `SocketProofs` | | theorems on `EchoServer` and `Datagram` |
| `MCShm`, `MCGoodInit`, `MCMsgFile`, `MCChat` | | constant values for TLC |
| `MCSync`, `MCComm` | | test benches: constant values for `SemSet` and `Threads`, and for `MsgQueue`, `FileOnce`, `EchoServer` and `Datagram`. The parts share no state; a behaviour is one of them, chosen in `Init`, and the others do not move |

`ShmTransfer` composes two programs and the kernel objects between them. The other
modules each compose the processes of one lab. The labs share no state with each
other, so no module composes two labs.

Six modules implement an abstract one through `INSTANCE ... WITH`; each mapping
is at the end of the module, and every action not named here stutters:

| Module, mapping, specification | Implements | Which steps are which |
|---|---|---|
| `ShmTransfer`, `Channel`, `ChannelSpec` | `BlockChannel` | the release of `SEM_READER` sends, the start of the reader's output receives, the release of the end mark closes, the reader's test of it drains |
| `SemGoodInit`, `Once`, `OnceSpec` | `InitOnce` | the exclusive `semget` wins, `SETALL` writes zeros or values, a look at a nonzero `sem_otime` tells |
| `MsgFile`, `Service`, `ServiceSpec` | `FileService` | the client's `msgsnd` asks, the child's sends a chunk or closes, `msgrcv` of the client takes a chunk or hears the verdict, a failed fork or a server started again loses what the server held, a killed child breaks its answer off |
| `FileOnce`, `SingleAnswer`, `SingleAnswerSpec` | `FileService` | the same with one message for each answer; killing the server loses what it held, killing a child the one answer it had |
| `ChatServer`, `Room`, `BroadcastSpec` | `Broadcast` | `accept` joins, `recv` gives the floor, each message accepted by `send` is delivered, the end of the inner loop is done, a client's `close` goes, the server's dismisses, SIGPIPE closes |
| `Threads`, `Counting`, `TallySpec` | `Tally` | the store of `x++` adds, `main` reports |
Definitions marked *Mutant* are wrong versions of the definition they precede:
each is what a plausible bug in that code would make of it, and each property is
shown to fail under one. They are in no specification.

### Abstractions

* `ShmTransfer`: a block is its position and whether all its bytes are there; a
  length is the block it counts. The stores of `nbytes` and `eof` happen in
  either order: the code has no barrier between them, and at `-O2`
  (the build line in `lab5/README.txt`) g++ indeed emits them swapped at the end of
  file. A system call that fails ends the program; only the reader's missing
  segment is modelled.
* `SemGoodInit`: `SETALL` is one step of the kernel, so the values of the set
  are known by who stored them. 50 looks become `MaxTries`. The numbers of the
  command line are given, and cut as line 51 cuts them (`Short`); the options, the count and
  the values that are not given (0 to 3) are left out. The count is within `SEMMSL`.
* `MsgFile`: a chunk is its position and whether it holds a zero byte, which is
  all `print_chunk` can tell apart. A queue holds a number of messages rather
  than 16384 bytes. Reaping (`waitpid`) changes nothing the others see. The
  server is restarted only after it was killed, and finds the old queue. A child
  can be killed before, between and after any two of its messages.
* `ChatServer`: a message is its author and its number and is not cut into
  bytes, but `recv` may return several and `send` may accept them one at a
  time. What a client has closed the server sees at once; the reset that
  answers a TCP send to a closed socket may come any time later. A connection always
  finds a slot: `MAX_CLIENTS` is `FD_SETSIZE`, so the branch that rejects a
  client needs a descriptor that does not fit the `fd_set`. Lab 7 rebuilds its
  watched set from the slots in every round and has no `nready`; `allset` is
  that set.
* `SemSet`: arguments are numbers, read in octal (`oct`) or decimal (`dec`) as
  the code reads them. `static_cast<unsigned short>` is `% (2 * (VMax + 1))`, so a
  small `VMax` has the values that are cut, the ones that are refused and the ones
  that are stored. The programs that use semaphore 0 take an identifier that is valid.
  `strtol`'s long becomes an `int` where the code stores it in one (`Narrow`; `IMax`
  is `INT_MAX`), for the value, the permissions and the count alike; arguments may be
  negative. `Msl` is `SEMMSL`, above which `semget` refuses a count.
  A run is a run of one program: the sets of runs are disjoint and finite. `IsValue` is
  the test by which `sem_create_init` reads an argument as the value and not as the
  permissions; the loop keeps the last such argument, and so does `Parse`.
* `Threads`: a sleep says nothing about what another thread does meanwhile.
  The threads of one program are created in one step, and each finds its own id
  stored (`check_thread6_2.c` reads it): glibc stores it before the thread begins,
  which POSIX does not promise, and no property depends on it. What is printed is kept
  only where `main` prints a result.
* `MsgQueue`: a message is who sent it, its type and its length, the terminating
  zero included. A private queue (`IPC_PRIVATE`) concerns nobody else.
* `FileOnce`: `MAX_DATA` is scaled down, a file is its size and the place of its first
  zero byte (`FirstZero`): the client prints with `%s`, which stops there
  (`UpToZero`). `rest` says whether
  the bytes of the stack behind a short file begin with something other than zero:
  `resp` is not initialised, so both happen. The queues do not fill up: there
  are fewer clients than messages that fit.
* `EchoServer`: a line is as many pieces as it takes for TCP to deliver it in
  parts; `Lines[c]` gives the number of the last piece of each line of `c`, so that
  a line is the run of pieces after the line before it. There are fewer clients
  than places in the backlog, and a line fits
  into a socket. Of two servers on one TCP port the second fails in `Bind`; with
  `SO_REUSEADDR` its `bind` may succeed and its `listen` fail instead, and it ends
  the same way. Lab 7 task 4 ignores SIGCHLD, so only `tcp_echo` has zombies.
* `Datagram`: a question fits into the buffers, a UDP port is not used again
  while an answer to it may be on its way, and a server's AF_UNIX queue is never full.

## 3. Runs

| Run | Instance | Shows |
|---|---|---|
| `shm_ordered` | 3 blocks, reader started first, either killed anywhere, semaphores left at 0, 1 or 2 | `OneToken`, `SegmentExclusive`, `DeliveredPrefix`, `NothingLostAtExit`; the refinement `ChannelSpec`; `Transferred`: a session nobody is killed in ends with the whole input printed |
| `shm_any_order` | 2 blocks, any start order, kills | in whatever order the programs start, an old block is never printed, and the reader ends only on the mark this session's writer has set at the end of its own input (`NothingOld`) |
| `shm_race` | any start order | **violates** `SegmentExclusive` (finding 1) |
| `good_init` | 3 copies, one of them with a value the set does not take, 3 looks, any copy killed | one initialiser (`OneInitialiser`); the refinement `OnceSpec`, which implies that the set is never set back and that nobody goes on with what the kernel left in it; every copy ends (`EveryCopyEnds`); a creator that lives stores its values or ends with an error, and that only if the kernel refuses them (`ValuesArrive`) |
| `good_init_early` | the same | **violates** `SkippedMeansReady` (finding 2) |
| `msg_file_serve` | 3 clients with files of 4, 1 and no chunks, queues of 1 and 2, one failing fork; the server, one client and the children of two clients may be killed; one restart | `OneCustodian`, `PrintedIsFile`, `QuietCleanup`; the refinement `ServiceSpec`: a request lost by the server is lost whole, an answer breaks off only if its own child is killed; `Answered`: while no server is killed and no fork fails, every surviving client ends unless its own child is killed |
| `msg_file_nul` | 2 clients, a chunk with a zero byte | **violates** `FileReceived` (finding 3) |
| `chat` | 3 clients, 2 descriptors, TCP (lab 8) and AF_UNIX (lab 7), two talkers; the third client may quit | `TablesAgree`, `RecvReady`, `Faithful`; the refinement `BroadcastSpec`; `Heard`: only SIGPIPE, or the server and a client blocked in `send` to each other, stop the chat |
| `chat_sigpipe` | the same over AF_UNIX | **violates** `ChatGoesOn` (finding 4) |
| `synchronisation` | eleven runs of the semaphore programs on one key, in any order, on no set or an old one of one or two semaphores; each of the fifteen thread programs with loops of 3 and arrays of 3 | `Ledger`: semaphore 0 is what was stored, given and taken, and SEM_UNDO takes back no more than the run did; `SetsItsOwn`: a run of `sem_create_init` with `-x` never sets a set that it has not made; `AskedIsStored`; `Counted`, `HandedOut`: what each thread program computes; the refinement `TallySpec`: where threads take turns, `x++` is one step; `ProgramEnds`: each ends |
| `communication` | six sessions of six runs of the queue programs; 2 servers and 2 clients of each echo program; 3 clients of each datagram program; 3 clients of the C file server, two kills of the server or its children | `WaitersProceed`; `EchoExact`, `Answered`, `Reaped`; `OwnAnswer`, `Replied`; `FetchedOnce` and the refinement `SingleAnswerSpec` |
| `datagram_address` | 2 clients of lab 7 task 3 | **violates** `AnswerIsMine` (finding 5) |

Deadlock checking is off in all of them: every session may end, and
in several a killed process leaves another one blocked for good, as the code does.

Some properties say what the code does although one might wish for more, each
for a reason that is visible in the code:

* `AskedIsStored` leaves out permissions of 666: `sem_create_init` tells the
  first argument from the second by whether the permissions are still the default.
  It leaves out, too, numbers that do not fit the type they are stored in: an `int` for
  `sem_create_init`, which stores 4294967299 as 3, an `unsigned short` for
  `sem_setall`, which stores 65536 as 0; both without an error.
* `SetsItsOwn` is about runs with `-x`. Without it the program sets again a set that
  is in use, and `Ledger` counts anew from each value that is stored.
* `FetchedOnce` lets a client print up to `MAX_DATA - 1` bytes of a longer file,
  nothing from the first zero byte on, and something behind a shorter file without
  one; it lets a failed `fork` and a killed server or child lose a request.
* `OneCustodian` and `Answered` of `MsgFile` except the clients whose child was killed.
* `Counted` lets the version without a mutex lose all increments but two;
  `HandedOut` lets the shared index go one element too far.
* `WaitersProceed` leaves a sender waiting once the limit is below its message,
  or when `message_receive_v1` is not running.
* `Replied` excepts lost datagrams (the clients have no timeout), the empty
  question the ipv6 server passes over, and clients that share the path;
  `Answered` those behind an idle client of a server that serves one at a time.

### Why the bounds are enough

* Three blocks give the segment a first, a middle and a last one; the protocol
  keeps one block in flight, so a longer input repeats the same hand-over. For
  any number of blocks there are the proofs.
* Three copies of `sem_good_init` are a creator, a waiter and one that comes
  between them. Three looks let a waiter be woken at the first look, later, or
  never. `VMax = 3` makes 5 a number that an `unsigned short` holds and the set
  refuses, and 9 one that is cut to 1.
* The file of `c1` is longer than its queue, so its child blocks; `c3`'s cannot
  be opened; `c1`'s may fail in the middle. One slot in the server's queue makes
  clients block too. The children of `c1` and `c2` may be killed, one in the middle of
  an answer that waits for room and one with a single chunk to send. One restart and one failing fork are the faults whose
  first occurrence matters: after them the same states recur.
* Three chat clients for two descriptors make `accept` fail, and a descriptor
  is given out again after a hang-up. Buffers of one and two messages fill up
  with two lines for each talker, enough for the state where the server and a
  client wait for each other; the client with room for two lets `recv` return
  two messages at once. The client that may quit says nothing, so that it can
  leave while a message is sent to it.
* `VMax = 5` is above the 3 that `sem_dec3` takes and near enough for an
  increment to fail and an undo to be cut off. Of each program there are one or
  two runs, enough for two to wait for the same release, for a set to be
  stored over while an undo is pending, and for two runs with `-x` and one without
  to meet on one set. `IMax = 1023` leaves 666 an `int`, and -2045 is then
  what -4294967293 is in the code: 3. `Msl = 4` is above every count asked for, so no
  run makes `semget` refuse one; the proofs have any `Msl`.
* Three increments of two threads include the schedule that loses all but two.
  Three elements are odd, so that the two halves differ.
* `Mnb = 1040` holds one message of 1025 bytes, which `message_receive_v1`
  does not accept, and a few short ones, but not two long ones; with `SetLimit` it
  is 5. The six sessions together contain every program of the two labs, each
  with the one that makes it wait, fail or go on.
* Two echo servers take a path from each other; two clients are one that is
  served and one behind it or next to it. `c1` has a line of two pieces and a
  second line, so that an answer can be late by a part.
* Three datagram clients: one asks, one takes the path from it, one has left a
  question; one of them sends the empty message and one may be interrupted.
* `MaxData = 4` with files of none, one and five bytes: missing, shorter and
  longer than an answer; the long one has a zero byte inside an answer, the short one
  none. Two kills hit the server, before, while or after it has a request in its
  hands, a child, or one and then the other.

### Fairness

`FairSpec` is weak fairness on each process's next step: the kernel runs a
process that can run and completes a call that can complete. System V semaphores,
queues and stream sockets wake their waiters, so weak fairness is enough: no
property relies on which of two waiters goes first. There is none on killing,
restarting, quitting, a failing fork, nor, in the chat, on what users type, when
they connect and when they end their input.

The same rule gives the others. `SemSet` has none: whether anybody starts a program
that gives is up to the users, and that `semop` wakes a waiter is the kernel's.
`ThreadsFairness` covers every thread once
the user has started the program, but neither the start nor a spurious wake-up.
`QueueFairness` covers calls of `msgsnd` and `msgrcv`. `EchoFairness` covers
accepting, serving, receiving and the signal handler, not typing, connecting or
leaving. `DgFairness` lets a datagram arrive or be lost, and its receiver take it.

## 4. Findings

1. `shm_race`: `lab5/README.txt` starts the writer first. The reader's
   `ensure_semset` then stores 1 into `SEM_WRITER` and 0 into `SEM_READER`
   while the writer may hold the segment; both are inside it together, and a
   block or the end mark can be lost.
2. `good_init_early`: `sem_otime` becomes nonzero before the final `SETALL`.
   A copy that looks in between prints "initialization already completed" and
   goes on with zeros.
3. `msg_file_nul`: `print_chunk` measures a chunk with `strlen`; the bytes after
   a zero byte are not printed.
4. `chat_sigpipe`: a client that leaves while another one's message is being
   sent around ends the server by SIGPIPE. Over TCP the second send to such
   a client does the same.

5. `datagram_address`: laboratory work 7 (page 5, task 3) wants the client's path
   to end in the process id; the code has one path for all. The server answers
   to the path, so whoever bound it last gets the answer to another's question.

More that no document of the repository speaks about. Where they can be
reached in a run, the properties allow them by name:

* a failed `fork` in `msg_file_server.cpp` loses the request (`ServerSound` in
  `OneCustodian`), and so does the one in `msg_file_server.c` (`dropped`);
* the chat server and a client can block in `send` to each other for ever
  (`Embraced` in `Heard`);
* `ipv6_dg_server.c` takes an empty datagram for an error and does not answer;
* `sem_create_init` reads `666 4` as permissions of 4 octal and the default value
  (`Parse`);
* `sem_create_init` and `sem_setall` store what is left of a number that does not fit an
  `int` or an `unsigned short`, without an error (`Narrow`, `Short`);
* `sem_good_init` lets a value from 32768 to 65535 pass and raises its "ready" signal
  before the kernel refuses it: the others go on with zeros (`Store`, `ValuesArrive`);
* a child of either file server that is killed leaves its client waiting for ever
  (`cut` in `Answered`);
* `msg_file_client.c` prints with `%s` and stops at a zero byte (`UpToZero`);
* `message_create.c` takes `-f` in its `getopt` string but has no `case` for it, so
  that it falls to the `default` and ends with the usage text;
* `message_receive_v3_noerror.cpp` prints a cut message up to a zero that was cut off;
* a descriptor of `FD_SETSIZE` or more is stored beyond the `fd_set` at
  `chat_server.c:73` (not reached: the default limit on open files is the same number).

## 5. Proofs

Every safety invariant and action property a run checks, and each of the six
refinements, is a theorem that TLAPS checks,
for every value of the constants that the module's assumption admits: an
assumption says of what kind each constant is, that a name stands for one thing,
and that a capacity or a loop that is never empty in the code is not empty.
Seldom is one of these properties inductive, so each module has an inductive
invariant (`IInv`, or the name given below) from which the theorems follow; TLC
has checked these invariants on the runs' instances.
The proof that a step keeps one has a step for each action, or a lemma for
each part of the invariant with a step for each action.

### `lab5/02_rw`: `ShmTransferProofs`

For every number of blocks, every set of processes that may be killed and every
set of values left in the semaphores (`ShmAssumption`):

* `TypeCorrect`: `Spec => []TypeOK`, in any start order;
* `ShmExclusive`, `ShmOneToken`, `ShmDelivered`, `ShmNothingLost`: the four
  safety invariants of `shm_ordered`, for `ReaderFirst` (finding 1 shows that
  they do not hold otherwise);
* `ShmRefines`: `ShmTransfer` implements `BlockChannel`;
* `ShmNothingOld`: `NothingOld`, in any start order.

None of the four invariants is inductive: mutual exclusion says nothing
about the semaphores, and the token count says nothing about what the segment
holds. `IInv` adds: `StartOrder` (the writer initialises only while the reader
waits on `SEM_READER`), `EndOfInput` and `Filled` (what the writer knows and has
stored at each place), `WriterSide` (while the writer owns the segment the reader
waits and has printed all that was sent), `ReaderSide` (while the reader owns it
the segment holds either the one block not printed yet or the end mark, and the
writer waits or is done) and `Written` (the output so far). `CopyUntorn` is the
lemma that the reader's copy of a block is whole when the segment did not change
meanwhile. `ShmRefines` follows from `IInv` and a case for each action:
`WriterRelease` is `Send`, `ReaderWriteBegin` is `Receive`, the release of the end
mark is `Close`, the reader's test of it is `Drain`, everything else stutters.

In any start order nobody owns the segment, and `AnyOrder` has to do without the
token. It says instead that a reader past its initialisation, which has emptied
`SEM_READER`, finds in that semaphore only releases of this session's writer
(`OwnRelease`), and that by its first release this writer has stored all three
fields of the segment (`OwnSegment`); so what the reader prints may be torn but is
not old (`OwnOutput`), and the mark it leaves on was set at the end of the input.

### `lab4/03_good_init`: `SemGoodInitProofs`

For any number of copies, any of them killed, any values on their command lines, and
any bound on the looks (`GoodInitAssumption`): `TypeCorrect`,
`InitialisedByOne` (`OneInitialiser`), `GoodInitRefines` (`OnceSpec`) and two facts
it implies, stated on the module's own state: `NeverSeenUnset` (`NeverUnset`) and
`InitialisedOnce` (`NoReinit`, an action property). The inductive invariant ties
everything to the creator: whoever is past the exclusive `semget` is the
creator (`CreatorCreates`); the values are the kernel's until it has zeroed and
its own only once it is through (`ValuesOfCreator`); `sem_otime` is nonzero only
after the zeroing and nobody was told to go on before that (`OtimeAfterZero`);
and a waiter that will look again has a look left (`LooksLeft`). `NoReinit` is
then a case for each action: the two that store happen before the creator is through.
For the refinement `ValuesOfCreator` is an equivalence: before it has zeroed, the values
are the kernel's.

### `lab2/02_client_server`: `MsgFileProofs`

For any number of clients, with files of any length, queues of any capacity and
any bounds on kills of the server, the clients and the children, on restarts and
failing forks: `TypeCorrect`,
`RequestHasOneCustodian` (`OneCustodian`), `ClientPrintsItsFile` (`PrintedIsFile`)
and `CleanupIsQuiet` (`QuietCleanup`). The invariant holds for each client on its own
(`Good`), which makes the steps of the others a single lemma: its request is in
one place after the other, the queue, the server's hands, a child's, and once
the answer is closed nowhere (`Idle`, `OnePlace`); what it has printed and what is
in its queue are one run of its own file's chunks that ends, if at all, with the
message that closes it (`InOrder`, `Complete`); its child has read what it has
sent, or one chunk more (`Progress`); and only a failed fork, a restart or the end of its own child loses
the request (`Kept`). `OneCustodian` counts those places; the count is at most
one because no two of them hold the request.

`MsgFileRefines` (`ServiceSpec`): the server, its children and the clients, whichever
of them is killed, implement `FileService`. Killing the server or a client loses a
request whole or not at all; killing a child breaks off the answer of its own
client, which may have had a part of it, and nobody else's (`KillIsBreak`). What was sent is what was taken and what waits in the
client's queue; the verdict is the closing message there, or the one the client has
left its loop with; a request is owed while `OnePlace` has it somewhere. A step that
leaves these alone for each client stutters (`NobodyMoves`); one that moves a single
client changes the books of that one (`OneMoves`), and there is a lemma for each such
step: `SendIsAsk`, `LossIsLose`, `ChunkIsSend`, `EndIsClose`, `ChunkIsTake`,
`EndIsHear`. That the end is sent only of a whole file comes from `Progress`, that
chunks arrive in order from `InOrder`, that nothing follows the verdict from `OnePlace`.
The proof needs the invariant in both states of a step.

### The chat: `ChatServerProofs`

For any number of clients with any number of lines, sockets of any capacity,
any number of descriptors, over either family: `TypeCorrect`, `TablesAlwaysAgree`
(`TablesAgree`), `RecvNeverBlocks` (`RecvReady`) and `EveryoneIsHeard` (`Faithful`).

`IInv` describes the tables element by element (`Tables`: a descriptor is watched,
open and in exactly one slot, or none of it), gives each client one socket
(`OneSocket`) and says of a round of the loop (`Round`) that `nready` counts at least
the reported descriptors that are still to come and that each of them is still
readable. The last needs that only the server takes from a socket and that a
hang-up of one slot leaves the others alone.

`EveryoneIsHeard` rests on `Hearing`, the books of the broadcast. What waits on a
socket is numbered on from what was taken off it (`Numbered`); `buf` is the
last that was taken off the speaker's (`Buffered`); a client hears nothing before it
is accepted (`Unheard`); message by message, the stream a client has got or
will get numbers each author's messages on from what it missed (`InStep`); and
in the middle of a broadcast a client lacks precisely what is still due to its
slot: all of `buf` if the loop has not come to it, what is left of `buf` if it is
at it, nothing if it is past it (`Due`, `Served`). Back in `select`, nothing is due.

`ChatRefines` (`BroadcastSpec`) puts the two together: the tables give each
listener one slot (`Places`), so `sent` and the place of the loop say how much of
the floor it was given, and the loop is through only when all have all of it.
`OneOrder` (`SameOrder`) is what users see of it: two messages that two clients both
hear come to both in the same order, whoever said them. It is kept with `Told` (what
anybody has heard was taken off a socket) and `Latest` (after a message still being
sent around nobody has heard anybody else), and with `RisingHolds`, that each hears
one author's messages in the order they were sent. No run checks it: with the two
talkers of `chat`, no two clients both hear messages of different authors.

### Semaphore tools: `SemSetProofs`

For any finite number of runs of each program, any arguments and any `SEMVMX`
above 2 (`sem_dec3` takes 3), any `INT_MAX` above what an `unsigned short` holds and
any `SEMMSL`: `TypeCorrect`, `BooksBalance` (`Ledger`), `ExclusiveSetsItsOwn`
(`SetsItsOwn`) and `WhatWasAskedIsStored` (`AskedIsStored`, an action property).
`AskedIsStored` rests on `Narrow` and `Short` being the identity on the numbers that fit.
`SetsItsOwn` holds because a set that exists is never made again, so that its maker
stays. `Ledger` is kept with two facts: `Stages` (a set once made stays, with the size the runs of
`sem_setall` that are on their way to `SETALL` have counted) and `Undos` (the kernel
keeps an adjustment for a run exactly while it is between its `semop` and its
end and nobody has stored since, which is what `SETVAL` and `SETALL` forget).

### Threads: `ThreadsProofs`

For each of the fifteen programs, any number of iterations and any length of
the array: `TypeCorrect`, `MainFindsTheResult` (`Counted`) and `EachElementIsHandedOut`
(`HandedOut`). The invariant has a part for each kind of program. With a mutex, or one thread
after the other, `x` is the number of stores and a loaded value is not stale
(`Exclusive`, `Exact`). In the race, `Between` bounds `x` by the number of stores
and says that it is never 0 again after the first, so that a thread that has
stored before loads at least 1: with two rounds or more the last store leaves at
least 2. With an index of its own a thread has
used exactly the positions below it (`Indexed`); with the shared index only one
thread may be past the test with the index at `Size` (`OneIndex`); where each
thread has its part, it has used as many of it, without repetition, as its sequence
is long (`InPart`), and all of it at its end.

`ThreadsTally` (`TallySpec`): the programs whose threads take turns, one after the
other, under the mutex, or with one worker that `main` joins or is signalled by,
implement `Tally`, where an addition is one step. The store is that step; it
adds one because what was loaded is still there (`Exact`). `main` reads the total only
when nothing is left to add: it has joined all, or it waits until the
counter, which it reads, is no longer 0, and there is one addition.

### Message queues: `QueueProofs`

For any finite number of runs of the queue programs, in any line-up, and any limit:
`QueueTypeCorrect`. Of the queue nothing more is claimed: the order of the messages is
the kernel's. The queue stays a sequence of messages (`QueueInv`): that there is a
first one of those a receive may take is the well-founded minimum of the library. The
number of queues ever made is bounded by the runs that have started.

For any number of clients, any kills of the server and its children, any sizes, any
places of a zero byte and any `MAX_DATA`: `FileTypeCorrect` and
`AnsweredOnce` (`FetchedOnce`) of the C file server, by the same argument as for
`MsgFile` (`OnePlace`), with what the answer holds in every place (`RightAnswer`).
`FileOnceRefines` (`SingleAnswerSpec`): it implements the same `FileService` as
`MsgFile`, with answers of one message and no chunks, and gives the error exactly to
those whose file is not there. A killed child had sent nothing, so its request is lost
whole: the two servers differ in that an answer of `MsgFile` may break off.

### Sockets: `SocketProofs`

For any number of clients, servers and texts: `EchoTypeCorrect` and
`ClientsGetTheirTextBack` (`EchoExact`), of each of the four kinds of stream
server. What a client has got, what is on its way back, in the server's buffer
and on its way there are four runs of its pieces, each going on where the one
before it ends (`Parts`), so a read or a write moves the border between two.
`Backlog` and `Connection` say that a connection waits in one backlog or is served
by one process.

For any number of clients of each protocol: `DgTypeCorrect` and
`ClientsGetTheirAnswer` (`OwnAnswer`) of the datagram programs. Over UDP an answer
carries the address it goes to (`Networked`). Over AF_UNIX a client whose path
nobody else has bound is alone with the server, so what arrives is the answer to
its question (`Mine`); finding 5 shows what happens otherwise.

### Only model-checked

* Liveness, because fairness and ENABLED are outside what the prover does:
  `Transferred`, `EveryCopyEnds`, `ValuesArrive`, `Heard`,
  `ProgramEnds`, `WaitersProceed`, `Reaped`, `Replied` and the two properties called
  `Answered`.
* What a fold computes for a sequence of any length (`Bytes`, the size of a
  queue): induction over data is out of the prover's reach, and no theorem here needs it.

## 6. Not modelled, and why

* `lab5/01_segments`: `shm_create`, `shm_attach` and `shm_rm` make one or two
  calls each and store nothing in the segment. All that could go wrong is the
  kernel's own bookkeeping of segments, of which the repository holds no code.
* `sem_info` of labs 3 and 4: they read and print.
* Everywhere: usage errors, wording and layout of the output, permissions, and
  removal of kernel objects by an administrator while the chat, the file servers
  or `lab5/02_rw` use them (`MsgQueue` has it for the queue tools).
* `pthread_create` that fails.
* Calls that fail for want of memory, and signals other than SIGPIPE, SIGCHLD
  and the ones that kill a process.

## 7. Plan

In this order, the most important behaviour first:

1. Done: `ShmTransfer` with `BlockChannel` and `SemGoodInit`, both with proofs,
   `MsgFile`, `ChatServer`.
2. Done: `SemSet` and `Threads` (`synchronisation`); `MsgQueue`, `FileOnce`,
   `EchoServer` and `Datagram` (`communication`, `datagram_address`).
3. Done: a theorem for every safety invariant and every action property the runs
   check, and for the type of each part.
4. Done: abstract specifications with their refinements proved: `BlockChannel`,
   `InitOnce`, `FileService` (twice), `Broadcast`, `Tally`.
5. Left: the echo servers as a channel from a client to itself (`EchoExact` states
   what such a specification would, without the steps), and progress of
   `lab5/02_rw` in any start order, with the sessions that finding 1 breaks excepted.

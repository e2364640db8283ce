# Formal model of the P2P file sharing system

TLA+ modules, TLC configurations and TLAPS proofs for the system of this
repository: a C server that keeps a directory of users and of the files they
publish (`Part_1`, `Part_2`, `Part_3`: the same program, grown in three
steps), Python clients that exchange files with each other, an RPC log
service and a web service that tells the time.

Line numbers are those of `src/Part_3` unless a part is named.

## 1. The system

| Component | State | Operations | Talks to |
|---|---|---|---|
| User table (`server.c` 17-309) | `users[0..num_users-1]`: name, connected flag, ip and port, file list; `max_users`, `max_files` | `find_user`, `add_user`, `remove_user`, `connect_user`, `disconnect_user`, `add_file`, `remove_file` | called by the handlers |
| Main server (`server.c` 54-156, 335-724) | `users_mutex`; per connection the locals of `handle_client` | REGISTER, UNREGISTER, CONNECT, DISCONNECT, PUBLISH, DELETE, LIST_USERS, LIST_CONTENT | clients over TCP, the log service by RPC |
| Shutdown (`server.c` 159-178) | none of its own | `handle_sigint` frees the table and exits | interrupts any thread |
| Wire format (`server.c` 312-332, `client.py` 57-70) | a byte stream per connection | NUL-terminated strings, one response byte, decimal counts | |
| Client session (`client.py` 134-565, 685-760) | `_registered_user`, `_connected_user`, listener socket and thread, `_running` | one command at a time from the shell | main server, time service |
| Peer-to-peer transfer (`client.py` 82-130, 569-679) | local files | `getfile` on one side, `handle_file_transfer` on the other | two clients directly |
| Log service (`log_client.c`, `log_service_impl.c`, `log_service.x`) | none: it prints a line | `log_operation` | called by each handler |
| Time web service (`web_service.py`) | none | GET /fecha | called by clients |
| Part 1 server (`Part_1/server.c`) | as the main server | as the main server, but REGISTER and UNREGISTER change the table without the mutex | clients over TCP |

`Part_2/server.c` is `Part_3/server.c` without `send_log`; `Part_2/client.py`
and `Part_3/client.py` are the same file.

What is hard: one detached thread per connection over one array from which
elements are deleted by moving the last one into the hole, so that an index is
worth something only as long as nobody else removes; allocations that fail
half-way through an operation that cannot report it; listings that write a
count and then the entries; a log call that happens before the operation and
may fail; a client whose two notions of "user" drift apart; a listener thread
that outlives its socket, or is outlived by it; a disk that fails after the
server has agreed. `PROJECT.json` lists each hazard with its line.

What makes each part correct:

- *table*: one slot per name, no holes, an operation on one user leaves every
  other user as it was;
- *server*: mutual exclusion; an index is used only while it is valid; every
  request takes effect at one instant and is answered accordingly; a listing
  writes what it announced; the mutex is always given back;
- *log*: a request is answered whether or not the log took it;
- *client*: what it believes about the server follows from the answers it got;
  while it is connected it listens, and what is listed for it is on its disk;
- *transfer*: a file is kept only when it is complete.

## 2. Modules

| Module | What it is | Lines modelled |
|---|---|---|
| `UserTable` | the table as a sequence of records, and the seven functions on it as operators | `server.c` 17-38, 181-309 |
| `Server` | `main`'s accept loop and `handle_client`, one action per handler and step, for any set of threads | `server.c` 54-156, 335-724; `log_client.c` |
| `Directory` | the abstract specification: a linearizable directory without slots, indexes, threads or lock | the handlers' decisions |
| `ServerProperties` | the properties, the refinement mapping from `Server` to `Directory`, fairness | |
| `ServerProofs` | lemmas on the table operations, the proofs about `Server`, and the proof that it implements `Directory` | |
| `RacyServer` | the server of part 1, cut at the statements of `add_user` and `remove_user` that run unlocked, with the array that `realloc` moves under them | `Part_1/server.c` 126-151, 178-236, 333-477 |
| `TableMemory` | the memory under the table: capacities, the array of files of each slot, `realloc` and `calloc` that fail, and `handle_sigint`, which frees it all without the lock | `server.c` 159-178, 192-309 |
| `ListingStream` | the listings string by string through a bounded socket buffer, the handler that writes them under the mutex, and the three clients that read them: `listusers`, `listcontent`, the first half of `getfile` | `server.c` 604-724; `Part_2/client.py` 62-72, 456-621 |
| `Wire` | one request as bytes: the strings each command sends, the date of the web service, `read_string` and its buffer, in the three parts | `server.c` 311-372; `client.py` 32-59, `web_service.py`; `Part_2/client.py` 134-565 |
| `Peers`, `PeersProperties` | the client program: every command, what it remembers, its listening port, its files, its end and restart; several clients against `Directory` | `client.py` 20-798 |
| `Listener` | the listening socket of one client and the threads that accept on it, statement by statement | `Part_2/client.py` 74-130, 218-231, 305-312 |
| `FileTransfer` | one download, block by block: `handle_file_transfer` against the second half of `getfile`, while the owner writes or deletes the file and the connection breaks | `Part_1/client.py` 66-114, 336-341, 563-619 |
| `PeersProofs`, `ListenerProofs`, `FileTransferProofs`, `TableMemoryProofs`, `ListingStreamProofs`, `WireProofs` | the proofs about `Peers`, `Listener`, `FileTransfer`, `TableMemory`, `ListingStream` and `Wire` | |
| `MC*` | instances for TLC | |

`Part_2/client.py` and `Part_3/client.py` are the same file, and the transfer
of `Part_1/client.py` is theirs; a module that needs one of them names the
lines of the one it was read from, so that the three clients are each read
once.

How the modules compose. `Server` extends `UserTable`. `ServerProperties`
extends `Server` and instantiates `Directory` under the refinement mapping, so
that every run that checks `ImplementsDirectory` shows the server to implement
it. `Peers` instantiates the same `Directory` as its server, with the same
`MayLose` that the server's failed allocations need (`MayLose <- AllocFails`
in the refinement; `TRUE` in every run of `Peers`, any value in its proofs), so
what the clients are shown to do rests on what the server is shown to promise. `Listener` is
the detail of `listener_socket` and `old_threads` of `Peers`, `FileTransfer`
that of its action `Download`, `ListingStream` that of the writes of
`Server`'s listings, `Wire` that of its action `Receive`, and `TableMemory`
that of `UserTable`'s arrays; these five are related to what they detail by
their text, not by a checked refinement. Each module of proofs extends what it
proves about.

Definitions whose name begins with `Faulty` are plausible mistakes in the
definition that follows them. No specification uses them: each stands in for
the right definition when one of the properties is tested for being able to
fail (`mutants` in `PROJECT.json`).

### How `Server` corresponds to the code

A thread of the model is a slot for connections: when a connection closes, it
stands for a later one. `pc` says where it is in `handle_client`:

| `pc` | In the code | Left by |
|---|---|---|
| `idle` | no connection | `Accept` (accept, pthread_create) |
| `read` | in the calls of `read_string` | `Receive`; `ReadError` (close, no answer); `PublishReadError` (answer 4) |
| `log` | before `send_log` | `send_log`, which may fail when `LogFails` |
| `logged` | before `pthread_mutex_lock` | `Lock`; `RejectAnonymous` (`__NONE__` is answered 1); `PeerLost` (`getpeername` fails) |
| `find` | holds the mutex, before `find_user` | `Find` |
| `apply` | the decision on the index found | one of `Register` ... `ListContent` |
| `list` | the loop of a listing | `ListNextUser`, `ListNextFile` (one iteration), `ListEnd` |
| `unlock` | before `pthread_mutex_unlock` | `Unlock` |
| `reply` | before the write of the response and `close` | `Reply` |

An unknown operation reads its two strings and closes: `ReadError`.

Abstractions. The table is its live part, 1-based; -1 is 0 (`NotFound`). ip and
port are one endpoint. A file's description is never read back and is left
out. `add_user` leaves the ip and port of the slot's previous owner: the model
picks any endpoint. `AllocFails` lets each `calloc` and `realloc` fail, with
the answer the code gives; what a failed `realloc` does to the capacity is not
in this model. Strings arrive whole or not at all. The response byte and the
count of a listing fit in an empty socket buffer; the entries after it may have
to wait for the client to read, so the iterations of a listing (`WriteEntry`)
are steps that may never come.

### How `RacyServer` corresponds to the code

The table is the array itself, because two threads may write one slot.
REGISTER goes `lock`, `find`, `unlock`, `decide`, then `add_user`: `grow` (is
the array full?), `realloc`, `assign` when the array has moved (the old one is
freed, `users` still points to it: `dangling`), `name` (the strncpy), `fields`
(the other assignments and the `calloc`), then `load` and `store` for
`num_users++`; UNREGISTER goes `decide`, `search` (the second `find_user`),
`free`, `move`, `load`, `store`. `GiveUp` is the early return after a failed
allocation, which REGISTER answers with 0. Steps of one thread take effect in
program order, which is what `gcc` without options (README.md:94) gives on x86;
a compiler that reorders the plain accesses of this data race could do worse.
A thread about to touch a slot outside the array, or an array that was freed,
stops, since what follows is undefined. The file arrays, and so double frees,
are left out.

### How the client modules correspond to the code

`Peers`. `shell[p]` is where the main thread of client `p` is: `prompt` (in
`input()`), the name of a command (at the start of its method), `recv`
(waiting for the response byte), `disconnect` and `recv disconnect` (in the
call of `disconnect` that `unregister` and QUIT make), `unregister` and `break`
(after that call), `dial` (about to connect to the other client), `receive`
(the file is being served to it) and `exited`. Each
method is an action with the same name and two halves: what it does up to its
sends, and what it does with the answer, the end of the stream or an
exception. `Ask` opens a connection at the directory; one that the client has
given up (`Interrupted`, `Kill`) stays open there and its request may still be
executed (`HangUp` ends it). `Refused` is `connect_to_server` returning
`None`. `CloseListener` leaves the port with a thread that is still blocked in
`accept`, or free. `unregister` opens its connection before the nested
`disconnect`, and fails at once when it cannot; its request leaves afterwards,
which is when the model gives it a connection (`Ask`).

When the start of the listener thread fails (`ListenFails`), the socket stays
and so does a thread object that was never started (`unstarted`): the next
CONNECT uses that socket again, and `disconnect` raises where it joins the
thread, twice (`JoinRaises`). After the answer 0, PUBLISH may fail to make the
file and DELETE to remove it. `Serve` needs a client that holds the port, with
its listener or one of its old threads, and `Download` comes later, so the two
clients of a transfer go on with their own affairs in between; a dial that
nobody serves may wait for ever. `doubtful` is a history variable: the files
for which a PUBLISH did not end in "PUBLISH OK", or which a failed download has
removed. `Faults` says what may happen in an instance: connections `refused`,
closed `unanswered`, `broken`; a client `killed`; a `disk` that fails; listener
`threads` that do not start.

`Listener`. `shell` is where the main thread is between the statements of
`connect` (create the socket, `_running = True`, start the thread) and of
`disconnect` (`_running = False`, close, forget, join with a timeout); `pc` is
where each listener thread is in its loop: `test` (`while self._running`),
`load` (read `self._listener_socket`), `call` (about to call `accept` on what
it read), `accept` (blocked). On Linux closing a socket wakes nobody who is
blocked in it, and the port stays open until the last of them is gone; this
and the queue of connections are the external definitions of the module. `Join`
may return with the thread still there. With `MayFail` the start of the thread
may fail (`StartThread`; `Unstarted` is the thread object left behind), and so
may `accept` or the start of the thread for a connection (`AcceptFails`), which
ends the loop; `failed` is a history variable: that has happened to the thread
of the current socket.

`FileTransfer`. A unit of the file is the number of the version that wrote
it, so that a mixed file can be told from a whole one. `handle_file_transfer`
tests the file (`CheckFile`), sends the code and the size it measures then
(`SendSize`), opens the file (`OpenFile`), and reads and sends it block by block,
each a step between which the owner may act; `send`
may take a part of the block. `getfile` reads the code and the size, opens the
local file, receives up to the announced size, and keeps or removes it. The
owner publishes (truncates and writes in place, unit by unit) or deletes at
any moment. `original` and `touched` are history variables: the file as it was
measured, and whether it was written since.

`ListingStream`. A connection buffers `Capacity` strings; a write waits while
it is full. `link` says what the handler's next write meets when the client
has closed: the first write is answered by a reset, and one after the reset
raises SIGPIPE, which ends the server since nothing handles or ignores it.
The other requests are one, CHANGE, that connects, disconnects, publishes or
deletes. `snapshot` is a history variable: the rows at the moment the handler
took the mutex.

`Wire`. A byte is the name of what it belongs to with its place there.
`read_string` stops at the NUL or when `MaxString - 1` bytes are there, and an
empty string is an error, which PUBLISH answers with 4 and the other operations
with a close (`NoString`). `Sends` is written from the client's methods and
`Reads` from the server's branches. The connection may be lost at any moment
(`Lost`), after the server has performed the request included, and PUBLISH and
DELETE may print FAIL after an answer 0, when the disk fails; `trouble` is a
history variable that remembers either.

`TableMemory`. One handler at a time is at work, the holder of the mutex;
`handle_sigint` runs between any two of its steps. An access outside of what
is allocated sets `wild` and ends the model, as what C does next is undefined.

## 3. What the runs check

| Run | Instance | Properties |
|---|---|---|
| `server` | 2 threads, 2 names, 2 endpoints, one file listed at most twice; every operation; allocations may fail | `UniqueNames`: one slot per name. `IndexFresh`: an index is used only while it is the slot of the user that was looked up. `OnlyOwnRecord`: a step changes a user's record only when it executes a request in that user's name. `ListingTruthful`: as many entries as announced, for LIST_USERS exactly the users connected, where they are connected (the files of LIST_CONTENT are compared in `ImplementsDirectory`). `ImplementsDirectory`: every request takes effect at one step, and every answer and listing is one the directory gives. `TypeOK` |
| `server_liveness` | 2 threads, one name and `__NONE__`, 1 file; the log may fail | While the clients of listings read on: `MutexAlwaysFreed`, no path leaves the mutex locked; `EveryoneServed`, once connections stop arriving all requests read are answered, logged or not |
| `table_memory` | arrays that start with 1 user and 1 file; up to 3 users and 2 files each; 3 blocks; `calloc`, `realloc` may fail, SIGINT may come | `BlocksOwned`: the live slots own what is allocated, each its own array. `WildHasCause`: an access leaves the arrays only after SIGINT or with a bound that a failed `realloc` has left too large. `TypeOK` |
| `listing_stream` | 2 clients, 2 slots, 1 endpoint, 1 file, buffers of 2 strings; a client may be suspended or killed | `OneInstant`: what a client has read is the beginning of the listing of the moment its request was granted, the whole of it when it prints OK; blanks follow only when the server has died. `EndedByDeserter`: the server is ended only by a client that was killed or a `getfile` that found its user. `EveryoneAnswered`: unless somebody is suspended, all requests are answered. `TypeOK` |
| `wire` | the three parts, every operation, arguments of 0, 1, 2, 3, 4, 5 and 7 bytes with buffers of 4; the client may be killed and the connection lost within a string, the disk may fail | `PerformedIsTyped`: with arguments that fit, the server performs what was typed. `FailChangesNothing`: of a command that printed FAIL, though its connection held and the disk obeyed, nothing was performed. `CommandReturns`: whatever the lengths, the server never waits for a string that is not sent. `TypeOK` |
| `session` | 2 clients with a name each, 2 connections, 3 ports; REGISTER, UNREGISTER, CONNECT, DISCONNECT, QUIT; connections refused or closed unanswered, REGISTERs lost | `BelievedOnline`: at its prompt a client that takes itself for connected is listed where it listens |
| `session_faults` | 1 client, 2 connections, 2 ports, 1 file published twice at most, also the name a download is given; every command but the listings, every fault, kill and restart included | `ConnectedListens`: a client that takes itself for connected listens, unless its thread never started. `ListedIsOnDisk`: what is listed for a user is on the disk of its client, but for files whose PUBLISH or GET_FILE was reported as failed. `NothingOfNobody`: nothing is kept of a name that is not registered. `TypeOK` |
| `session_reachable` | 2 clients, 3 ports; REGISTER, CONNECT, DISCONNECT, the listings, GET_FILE, QUIT; listener threads may not start | `OnlineReachable`: a listed user is listening where the server says, and nobody else holds that port |
| `listener` | 3 sockets, 3 threads, 2 connections; `accept` and the start of a thread may fail | `KeepsAccepting`: at the prompt the last thread is alive and accepts on the current socket, whatever earlier ones do, unless it has itself failed. `PortsAreHeld`: no port is kept by nobody. `DialEnds`: whoever dials is accepted or reset, unless that thread has failed. `TypeOK` |
| `download` | versions of 5, 4 and 3 units, an old local copy, blocks of 2, a send buffer of 3; every fault | `KeptIsWhole`: OK means the file that was measured, unless that was written in place. `FailLeavesNothing`: a failed download leaves no part of the file. `Returns`: unless the host is gone. `TypeOK` |
| `part1_memory` | 2 threads, 2 names, an array of one slot, REGISTER, UNREGISTER, CONNECT, DISCONNECT; ends in a counterexample | `NoWildAccess`: "Synchronization using mutexes to protect shared structures" (`README.md`:220), but of two REGISTERs one tests the size of the array, the other counts its user, and the first writes past the end |
| `duplicate_publish` | ends in a counterexample | `PublishedOnce`: "File already published" (`server.c`:544), but `add_file` appends the duplicate it has just found |

### Where the properties stop

Several properties carry a hypothesis, or a run leaves a fault out, because
without it the code does not keep them. These are limits of the code, not of the
models:

- `WildHasCause`: `max_users` and `max_files` are doubled before `realloc`
  (198, 269) and stay doubled when it fails; the next insertion is written
  past the array. `handle_sigint` frees the table that handlers are using.
- `EndedByDeserter`: `getfile` closes at the user it looks for (`client.py`
  611) while the server may still be writing; the write after the reset
  raises SIGPIPE.
- `MutexAlwaysFreed`, `EveryoneServed`, `EveryoneAnswered`: a client that stops
  reading its listing holds up everybody, because the mutex is held during the
  writes (651-658, 709-713).
- `PerformedIsTyped`: an argument of 256 bytes or more is cut, and its rest is
  taken for the next one.
- `KeptIsWhole`: a file that its owner rewrites in place during the download
  is kept as OK with units of two versions. `Returns`: no socket of the client
  has a timeout.
- `BelievedOnline`: a request whose answer was lost may be executed later than
  the client's next ones, so its run has no broken connections; nor is a client
  killed there, since the server keeps its user connected for ever; and its
  threads start, for after one that did not, DISCONNECT raises where it joins
  it (310, 336) and the client still takes itself for connected. The same
  exempts such a client (`unstarted`) from `ConnectedListens`.
- `ListedIsOnDisk` leaves out `doubtful` files: `open` may fail after the answer
  0 (378-380), a duplicate PUBLISH is listed and answered 3, a lost answer leaves
  the file listed and not made, and a failed GET_FILE removes a file of that
  name. `FailChangesNothing` leaves out the commands whose connection was lost
  and those whose disk failed, for the same reasons.
- `OnlineReachable` is claimed while every request is answered: `disconnect`
  closes the port whatever the server said. It speaks of what is listed now, not
  of an endpoint that a `getfile` read some time ago.
- What `_registered_user` remembers says nothing of the server: `unregister`
  forgets it on every outcome (174), a REGISTER that is answered 0 may have been
  lost (383), and other clients may unregister the name.
- A download waits for ever for a port that is open and not served: `Returns`,
  `DialEnds` and the model of GET_FILE in `Peers` all leave that out.
- One name per client: with two, QUIT disconnects the last one connected only.
- `KeepsAccepting` and `DialEnds` end where the thread of the current socket
  fails: any exception of `accept` or of `transfer_thread.start` breaks its loop
  (127-130) and `connect` starts no other one as long as the socket is set
  (221). They say nothing of old threads: after DISCONNECT one of them may still
  accept and serve one connection on the closed socket.
- Part 1 has no invariant of its own here. Two REGISTERs of one name both find
  it free and both add it (365-373), the second of two UNREGISTERs reaches
  `users[-1]` (227), one connection that registers is enough to free the
  array under the others (196), and with two one of them writes past its end
  (194-206), which is the shortest of the ways to memory outside of the array
  and the one that `part1_memory` finds.
- `ImplementsDirectory` lets a REGISTER be answered 0 and lost (`MayLose`),
  which is what a failed allocation does (383).

### Bounds

Two threads are enough for every interleaving of the critical sections: a
third thread can only wait at the lock or be between two requests, which the
slots already allow. Two names make a removal move another user's slot; two
endpoints tell a fresh endpoint from a stale one; two entries per user make a
duplicate. `MaxFiles` bounds the files through the guard of `Accept` (no
PUBLISH is sent that could exceed it) and of `ListingStream` (in `Change`; its
run lists one file at a time, its proofs any number), `Capacity` the registrations of
`RacyServer` and `MaxCopies` those of `Peers` in the same way; `UserBound` and
`FileBound` stop the insertions of `TableMemory` after the second doubling.
In `Peers`, two connections let one abandoned request meet the next one, and a
third port lets a client go on while an old thread keeps one; two copies of a
file are a duplicate PUBLISH; `CloseListener`
leaves no old thread when that would take the last free port. In `Wire` a
buffer of four bytes has arguments that are empty, that fit, that fit exactly,
that are one too long, and that fill more than one buffer. In `FileTransfer`
the files are of more than one block, of a whole number of blocks and not, and
two sends do not fit in the buffer. Three listening sockets and threads let
two sessions' leftovers meet a third. The proofs of section 4 have none of
these bounds. Symmetry is used in runs that check safety only.

### Deadlock

It is checked, except where a model describes one request, one download or one
process that ends: `listing_stream` (each client sends one request),
`download`, `wire`, `table_memory` (a wild access or `exit`), and
`part1_memory`, where a thread stops at its wild access.

### Fairness

`Server`: weak fairness of what a thread does by itself once its request has
arrived (`Work`): the operating system runs it, the RPC ends, by its timeout if
need be, and a free mutex is taken by somebody. Nothing is asked of the clients
that send requests: `Accept`, `Receive` and `ReadError` may never happen, so a
thread may stay in `read` for ever, which the code allows (no timeout on
sockets). The entries of a listing are not in this fairness, because a `write`
waits for its reader; that the readers go on (`ReadersGoOn`) is a hypothesis
written in `MutexAlwaysFreed` and `EveryoneServed`, and `ListingStream` has the
buffer and the readers in detail. A pthread mutex promises no waiter its turn
while others keep arriving, so `EveryoneServed` is stated for the behaviours in
which connections eventually stop arriving.

`ListingStream`: weak fairness of each handler, of each client's reading, and
of the reset that answers a segment on a live connection. Each client sends
one request, so that nobody can be overtaken for ever at the mutex. A client
that is suspended is not forced to go on, as its actions are disabled.

`Peers` has no fairness: its properties are safety only.

`Listener`: weak fairness of the main thread between two prompts and of each
listener thread; no fault has to happen. `FileTransfer`: weak fairness of the two processes; the owner
and the network do as they like, and a host that is gone takes no step.
`Wire`: weak fairness of the client once it has its date and of the handler;
nothing of the web service, which may never answer.

## 4. What is proved

`ServerProofs` proves, for any finite set of threads and any names, files and
endpoints, any bound and any choice of `AllocFails` and `LogFails`
(`ServerAssumption`):

- `TypeCorrect`: `Spec => []TypeOK`
- `MutualExclusion`: `Spec => []MutexHeld`
- `NamesStayUnique`: `Spec => []UniqueNames`
- `IndexStaysFresh`: `Spec => []IndexFresh`
- `RecordsStayOwn`: `Spec => OnlyOwnRecord`

None of them but `MutualExclusion` is inductive alone. `TypeOK` needs an index
to be a slot when a listing reads through it (`IndexFresh`); an index is a slot
that holds the name because `find_user` finds it, which without induction over
the array rests on names being unique (`UniqueNames`, lemma `FindUser`); names
stay unique because REGISTER appends only a name its search did not find, and
that search is still true (`IndexFresh` again); and indexes stay fresh because
no other thread is in its critical section (`MutexHeld`). So the inductive
invariant `IInv` is all of them together, with `Active` (a thread that is not
idle has a request) and `ListingLoop` (only listings loop, LIST_CONTENT with a
slot). There is one lemma per action; those that end the execution of a
request go through `StepApply`, those outside the section through
`StepOutside`. The module starts with what each table operation preserves.
`RecordsStayOwn` is a step of that invariant: the index is the requester's slot
(`IndexFresh`), and each operation leaves the records of the other names alone,
`remove_user` because the last slot is moved and not copied.

The second half of `ServerProofs` proves, under the same assumption and without
another hypothesis:

- `ListingsStayTruthful`: `Spec => []ListingTruthful`
- `Linearizable`: `Spec => ImplementsDirectory`, the refinement of `Directory`

Its first part is about the table alone: which directory a table
stands for, and that each operation on it is the directory's operation of that
name. It rests on `Unique`, since a directory entry is the record of the slot
that holds the name. The second part is the invariant of the listing loops
(`LoopInvariant`): while a handler is in its loop nobody else changes the
table, the entries written are those of the slots behind the cursor, and the
ones still to be written are as many as announced less those written. That
count is by the cardinality of the slots left. The third part has one lemma per
step: the handler's decision at `apply`, or the end of its loop, is the step
of the directory; everything else is a stutter.

`TableMemoryProofs` proves, for arrays that start with any sizes, any supply of
blocks and any of the events:

- `MemoryTyped`: `Spec => []TypeOK`
- `NeitherLeakedNorShared`: `Spec => []BlocksOwned`
- `WildOnlyByCause`: `Spec => []WildHasCause`

`BlocksOwned` says nothing of the three statements of `remove_user`; `Owned`
does, by leaving out the slot that is being emptied. It holds until the signal;
from then on the invariant keeps only the types, that `index` is a live slot,
and that the live slots are inside the array until it is freed (`Inside`).

`ListenerProofs` proves, for any sets of sockets, threads and connections:

- `ListenerTyped`: `Spec => []TypeOK`
- `AlwaysAccepting`: `Spec => []KeepsAccepting`
- `NoPortLeaks`: `Spec => []PortsAreHeld`

`KeepsAccepting` is not inductive: while `connect` and `disconnect` are half
way, one needs to know which of the flag, the socket and the thread are set.
Its hypothesis `~failed` names one thread, that of the current socket: an older
one may have failed in any way.
`Progress` says it for each place of the main thread, and `TypeOK` that a
thread holds a socket exactly while it calls `accept`.

`FileTransferProofs` proves, for files of any lengths, any size of block and of
buffer, and any faults:

- `TransferTyped`: `Spec => []TypeOK`
- `WholeFile`: `Spec => []KeptIsWhole`
- `NoRemains`: `Spec => []FailLeavesNothing`

The inductive invariant adds to the types where each side is (`code`, `size`
and the local file at each place) and `StreamInv`: unless the file was written
in place, what has been sent is the beginning of the file that was measured,
and the block in hand is what follows it, or a part was lost and the stream
can only be too short. The local file is the beginning of the stream, so a
download of the announced size is the file.

`PeersProofs` proves, for any number of clients, names, files and ports, with
every fault of `Peers`:

- `AlwaysListening`: `Spec => []ConnectedListens`. `connected_user` is set only
  by the answer to CONNECT, several steps after the socket was made, so the
  invariant adds that a client that awaits that answer has a socket
  (`ConnectingListens`).
- `NothingKept`: `Spec => []NothingOfNobody`. The requests are executed in any
  order and long after they were sent; the invariant is the property and the
  domains of the two tables of `Directory` (`Entries`), and a lemma shows that
  a client changes those only through `Perform`.

- `TypeCorrect`: `Spec => []TypeOK`.

and, under the hypotheses named,

- `ConnectedIsListed`: `Reliable /\ Spec => []BelievedOnline`
- `FilesAreThere`: `OneName /\ Spec => []ListedIsOnDisk`
- `ListedCanBeReached`: `Answering /\ OneName /\ Spec => []OnlineReachable`

The invariant under them all is `GInv`, which holds with every fault: the
request a client waits for is the one its command makes it send (`Sent`), on a
connection that no other client has (`OwnLines`). A step of a client then is
one of two kinds, whatever the command: it asks (`Asks`: a request leaves and
nothing is learnt or forgotten) or it goes on (`GoesOn`: its exchange is over,
and it may have learnt what it was granted). A step of the server answers one
connection (`Serves`) and says what it has done to the caller's entry
(`Tells`). Each method is shown once to be of its kind; the
invariants `BInv`, `FInv` and `HInv` are carried through the three kinds only.
Each states what is true while an answer is under way: a grant that has not
been read yet already holds at the server, and what is refused or unanswered
has changed nothing there.

The hypotheses are the limits of the code, not of the proof. `Reliable`, no
connection breaks, no client is killed and listener threads start: otherwise a
request that its client has given up is executed later, after that client's
next ones, or DISCONNECT does not forget the user. `OneName`, one user per
client: otherwise a DISCONNECT of one user closes the port that the other one
is listed at, and a DELETE in the name of one removes the file that the other
one shares. `Answering`, every request is answered (disks and the start of
threads may fail): `disconnect` closes the port even if its request was refused
or unanswered, and the user stays listed there. That nobody else holds the port
is an invariant of its own (`PortsApart`). `FilesAreThere` holds under every
fault: of a file that is not in doubt one copy at most is listed, and no
abandoned PUBLISH of it is about (`InPlace`), so the DELETE that takes it from
the disk has taken the last copy from the list, and nothing adds one later.

`ListingStreamProofs` proves, for any number of clients, slots, endpoints and
files, and buffers of any size:

- `StreamTyped`: `Spec => []TypeOK`
- `ListingsOfOneInstant`: `Spec => []OneInstant`
- `OnlyDesertersEnd`: `Spec => []EndedByDeserter`

The code has no copy of the table: a handler walks the array while its writes
block, so what it will write next is in the array and what it has written is
in the buffer or read. The invariant joins the two through `snapshot`. While
the mutex is held the array is that of the snapshot (`Section`), so the row at
the cursor is the next string of the snapshot, which is shown by counting the
slots in front of the cursor; how far the handler is says how much it has
written (`InStep`); what is in the buffer continues what was read (`Stream`).
A reader that counts what was announced then has everything that will be
written, and closes a connection on which nothing is left to write (`Parted`).

`WireProofs` proves, for the three parts, buffers of any size above 3 bytes
(the date has to fit) and arguments of any length:

- `RequestTyped`: `Spec => []TypeOK`
- `TypedIsPerformed`: `Spec => []PerformedIsTyped`
- `FailedChangesNothing`: `Spec => []FailChangesNothing`

Nothing on the wire delimits a request, so the invariant (`Stream`) compares
the bytes with what was typed: what is on the wire, followed by a rest that is
still to be sent, is what is still to be read. `Tails` names, from each string
of the request on, the bytes that are left of it. The string that
`read_string` finds is then the next one (`FoundLength`, `NextString`), except
after a string that filled the buffer: its NUL is left behind, and the next
read finds an empty string and closes. Of a client that was killed the rest
never comes, so what was read is still a beginning of the request. The request
is performed when all its strings were read; all of them have then been sent,
so the command that awaits the answer can fail only without one, or because its
connection was lost or the disk failed, which `trouble` records.

Only model-checked: liveness (`MutexAlwaysFreed`, `EveryoneServed`,
`EveryoneAnswered`, `DialEnds`, `Returns`, `CommandReturns`),
since what fairness brings about is out of the prover's reach. `PublishedOnce`
and `NoWildAccess`, which the code violates, are refuted by TLC. Every other safety property of the runs is proved. No proof is by induction over data: where the length of a sequence
matters the least counterexample is taken (`LeastNat`), or the sequence is cut
at an index that the invariant names.

## 5. Not modelled

- The order and the loss of the lines of the log service: it prints and keeps
  nothing, and nobody reads it back. Its call is `send_log` of `Server`.
- `pthread_create` that fails (`server.c`:144).
- PUBLISH, DELETE and the listings of part 1, which hold the lock and are the
  later parts' line by line.
- The encoding of names: a name that the server cuts inside a character is no
  longer UTF-8 for the clients that list it.
- The shell at the end of standard input, where `input()` raises for ever.
- Parsing of the command line and of commands, printed messages, the Makefile.
- Refinements between the detailed modules and what they detail (section 2).

# The company user directory (CSE303, project 1): a TLA+ verification

The program under `src/p1` is a client and a multi-threaded server for a
"company user directory": users register with a password, store one piece of
content each, read each other's, and list all names; an administrator saves the
directory or stops the server. Everything but the server's public key travels
under RSA and AES. The repository is a course assignment. `client/requests.cc`,
`server/parsing.cc`, `server/responses.cc`, `server/my_storage.cc`,
`server/sequentialmap.h` and `common/my_crypto.cc` are stubs, and
`solutions/*.o` hold compiled implementations of the same functions. The
makefiles choose, per build, which of the two are linked.

So two kinds of code are modelled. The infrastructure is complete in source and
shared by every build: the accept loop and its shut-down, the byte streams, the
RSA key files, both `main` functions, and the Python scripts that drive them. The
requests, the storage and the AES helper exist twice, as a stub in the repository
and as an object under `solutions/`; each is modelled in both forms, and the build
that links them is a variable of the model. What is modelled from an object file
(the thread pool too, which exists only as `solutions/my_pool.o`) is marked
external in `PROJECT.json`.

## 1. Inventory

| Component | State | Operations | What must hold |
|---|---|---|---|
| Thread pool (`common/pool.h`, `solutions/my_pool.o`) | queue of descriptors, one mutex, one condition variable, `halted` flag, threads | `service_connection`, `check_active`, `await_shutdown`, the workers' loop, shutdown handler | no wakeup lost; each descriptor handled once; every worker ends after a halt |
| Accept loop and tear-down (`common/net.cc:204-231`, `server/server.cc:143-162`) | listening socket, `connSd`, `safe_shutdown`, kernel backlog | `accept`, dispatch, the shutdown handler, join, `Storage::shutdown` and deletes | no descriptor leaked or closed twice; -1 never handled; tear-down after the last user |
| Byte streams (`common/net.cc:21-125`) | position in the message, buffer and its size, `errno` | `reliable_send`, `reliable_get_to_eof`, `reliable_get_to_eof_or_n` | every byte once and in order; the end of a message is recognised, and only then |
| Socket set-up (`common/net.cc:134-194`) | the socket, and the `ContextManager` that guards it | `connect_to_server`, `create_server_socket` | the socket is closed once, on every path; client and server truncate a port alike |
| RSA key files (`common/crypto.cc:20-93, 224-237`) | `<base>.pub`, `<base>.pri` | `init_RSA`, `generate_rsa_key_files`, `load_pri`, `load_pub` | the two halves belong together; a saved pair survives kills and restarts |
| File helpers (`common/file.cc`) | the file system | `file_exists`, `load_entire_file`, `write_file` | a reader sees all or nothing |
| AES contexts (`common/crypto.cc:95-215`, `common/my_crypto.cc`) | an OpenSSL context and its mode | create, crypt, reset, reclaim | a context is reset before its next use and reclaimed once |
| Server start-up (`server/server.cc:20-142`) | arguments, keys, Storage, three heap objects | `arg_t`, `init_RSA`, `storage_factory`, `load_file` | nothing is served before keys and data are there; each early return releases what it must; a started server can be ended |
| Client (`client/client.cc`) | its options, its key file, one or two connections | `arg_t`, `usage`, get the key if there is none, then one command | the command typed is the one that runs, with the arguments it reads; it is encrypted for the server it reaches |
| Requests and responses (`client/requests.cc`, `server/parsing.cc`, `server/responses.cc`) | a worker's place, its AES context, the decrypted request | `req_*`, `parse_request`, `handle_*`; stubs here | each answer fits its request; every client comes back |
| Storage and hash table (`server/my_storage.cc`, `server/sequentialmap.h`) | the directory, its file; stubs here | `add_user`, `set_user_data`, ..., `save_file`, `load_file` | linearizable; a save is atomic |
| Test scripts (`scripts/*.py`) | a server process, the pipe of its output | run a client, compare lines, wait, clean up | a correct server passes; no server or file is left behind |

How they interact. The server's main thread owns the listening socket. It passes
each descriptor to the pool through a locked queue; a worker takes it, runs
`parse_request` on it and closes it. When `parse_request` returns TRUE (a BYE
request), that worker sets `halted`, notifies all sleepers and calls the shutdown
handler. `accept_client` installed that handler as a lambda that holds two of its
*local variables* by reference: it sets `safe_shutdown` and shuts the listening
socket, so that the blocked `accept()` fails with EINVAL and the main thread gets
to `await_shutdown`, `storage->shutdown()` and the deletes. Clients know a server
only by its port and by the public key they keep in a file. The scripts know how
far a server is only from the lines it has flushed into their pipe.

What is hard here: the order of a halt, a dispatch and a worker's decision to
sleep; the life time of `accept_client`'s locals; errors that callers ignore
(`accept_client`, `create_server_socket`, `generate_rsa_key_files`,
`connect_to_server`, `write_file`); kills between two writes of a key file; short,
interrupted and failing system calls; and stdio buffers that are written out
after a function has computed its result. `PROJECT.json` lists each of these
under "hazards", at its line, with the properties that watch it.

What may fail in a dialogue: any call of OpenSSL, at either end; the client, between
its two blocks or before the answer; the server, at any point, and in the middle of a
save in particular. A server that stops, for a BYE or a kill, forgets what no SAV
has written.

## 2. The modules

| Module | Models | Composes |
|---|---|---|
| `ThreadPool` | the pool: state, calls, one action per observable step of a worker | |
| `AcceptLoop` | `accept_client`, the shutdown handler, main from the listening socket on | `ThreadPool` |
| `ConnService` | abstract: what the server promises a connection | |
| `AcceptLoopProps` | properties and inductive invariant of `AcceptLoop`, mapping to `ConnService` | |
| `AcceptLoopProofs` | proofs about `AcceptLoop` | |
| `NetIO`, `NetIOProofs` | the three byte-stream functions and one connection; proofs | |
| `KeyFiles`, `KeyFilesProofs` | how servers get their RSA keys; proofs | |
| `Client`, `ClientProofs` | the clients' key file and their use of it; proofs | `KeyFiles` |
| `Harness`, `HarnessProofs` | the scripts' dialogue with a server; proofs | `AcceptLoop` |
| `ServerMain` | the server's `main`, `arg_t`, `create_server_socket`, `ContextManager` | |
| `ClientMain` | the client's `arg_t`, `usage`, choice of the request function | |
| `Launch`, `LaunchProofs` | both, composed where the client connects; proofs | `ServerMain`, `ClientMain` |
| `AesContext` | an AES context's life: operators | |
| `Storage` | the table and the requests on it, stub and solution: operators | |
| `Dialogue` | requests and answers between clients and a server, with the data file | `AesContext`, `Storage` |
| `Directory` | abstract: what the directory promises a client | |
| `DialogueProps`, `DialogueProofs` | properties of `Dialogue`, mapping to `Directory`; proofs of the invariants | |
| `DirectoryProofs` | proof that `Dialogue` implements `Directory` | |
| `MC...` | small instances for TLC | |

Some operators come with a second one just before them whose comment starts with
"Fault:". These are plausible mistakes in the code that the operator models (a
dropped notification, a late growth of a buffer). No specification uses them:
each is there to show that a property notices it.

### ThreadPool and AcceptLoop

State and code. `main` is the main thread's place in `accept_client` and `main()`,
`connSd` and `safe_shutdown` are `accept_client`'s locals, `listener` and
`backlog` are the kernel's side of `sd`. `conn[c]` is what became of a connection:
"open" is a descriptor the server has, "closed" one it has served, "reset" one it
dropped. `queue`, `lock`, `halted` and each worker's place are the pool's.

- A step of a worker reaches from one point another thread can observe to the
  next: a lock, an unlock, a read or a write of the atomic flag. The decision to
  wait and the wait are two steps (`DecideToWait`, `Sleep`), as the flag is not
  guarded by the mutex and a halt may come between them. What prevents a lost
  wakeup is that the mutex is held from one to the other.
- `AcceptShutDown` keeps the oddity of `net.cc:217-229`: after a graceful shutdown
  the code goes on with `connSd` = -1, prints a connection and queues it.
- `ShutDown` and `AnnounceShutdown` after `accept_client` has returned are
  undefined behaviour: the lambda's references point into a dead frame. The model
  allows the outcomes that leave the process running: `sd` is still there, or is
  something else and the call has no effect; the store to `safe_shutdown` hits
  nothing that is read again. A crash of the process at that point, which the
  language also allows, is not modelled.
- `ByeConns` are the connections whose handler returns TRUE, as `parsing.h` and
  `solutions/parsing.o` have it. With the stub in `parsing.cc`, which returns
  false, `ByeConns` is empty; the theorems cover that case.
- `SilentConns` are the connections whose client may send nothing and never closes.
  Reads have no timeout, so fairness does not make their handler return; it may.
  With the stub of `parsing.cc`, or with clients that talk, the set is empty.

`ConnService` has no threads, queue or locks. It says: a connection is served at
most once, one that is being served is never dropped, those that wait are dropped
only after a request to stop was served, and when the server is down nobody is
being served. `AcceptLoop` implements it: a connection "waits" while it is in the
backlog, in main's hand or in the queue, and is "being served" while a worker has
it (`statusBar`).

### NetIO

One sender and one reader. `wire` is what the kernel holds, at most `SockBuf`
bytes; a call moves any number of bytes from 1 up. The message is the sequence
1, 2, 3, ..., so that a lost, repeated or reordered byte shows. The int variables
of the code wrap at `IntMax` (`AsInt`). `errno` is state, because the code reads
it after calls that do not set it. Either side may close or die at any time.

### KeyFiles and Client

A file's content is a key pair's half, or `NoFile`, `Empty` or `Torn`. One action
is one system call. stdio buffers are explicit: `OpenPub` and `OpenPri` leave empty
files behind, and the keys reach them in `FlushPri` and `FlushPub`, when the
`ContextManager`s run in reverse order after `return true`. A process may be killed
between any two actions and loses what was in its buffers. `Overlap` allows two
servers to start at the same time, `FlushMayFail` a disk that is full. The scripts
remove key files one at a time; they are assumed not to do so while a server has
one of them open for writing (`Quiet`).

`Client` adds clients that share one key file. It follows the client's `main`
including every error that is ignored: a failed `connect_to_server`, a short
answer, a `write_file` that fails all lead to `load_pub`, and a null key to the
asserts of `requests.cc` (and, in the solution, to a null dereference), so the
outcome is "crashed". A command that reaches a server whose private key does not
fit ends as "unread". `rekeyed` and `disturbed` are history variables; no guard
reads them.

### Harness

`AcceptLoop`, with the lines it prints: `Buffered` for `"\n"`, `Flushed` for
`endl` and for the end of the process. `Script` is one server's life in `p1.py`:
the first client opens two connections (the key, then the command), its answer is
read before the server's lines of *either* connection, and the lines of the first
one are read by an extra `after()`.

### ServerMain, ClientMain and Launch

`place` is the next statement of the server's `main`. Every call on the way to the
pool succeeds or fails in an action of its own, and the early returns go through
one operator, `Return`, which runs the destructors of `csd` and `r` as C++ does.
`mgr` is the state of each `ContextManager`: "disabled" is what
`create_server_socket` does to its own on success. `socket` is what the kernel has,
and `sd` whether main knows it: the two differ on the error paths. `args.port` starts
as `Garbage`, because `arg_t` does not initialise it. `atoi` is a constant function, 0
for text that is no number, and `htons` keeps 16 bits.

The pool is reduced here to what `main` sees of it: a worker can halt it if there is a
worker and a socket through which the request came, and `await_shutdown` has nobody
to wait for when `-t` was 0 or less. `accept_client` has its two returns:
`AcceptReturns` after a halt, and `AcceptFails`, always open, for an `accept()` that
fails, on a descriptor of -1 or on a socket that listens; `main` goes the same way after
both. `AcceptLoop` is the model of what happens inside, and implements this end of
`main` (section 4).

`ClientMain` has the three lists of commands that `client.cc` keeps (the table of
`usage`, the arrays of `arg_t`, `cmd` and `func`) as it writes them, and the asserts of
the request functions. `UsagePrints` is the range of `usage`'s loops, which is longer
than the table: reading on is undefined, and junk on the screen or a signal are the
outcomes allowed. `Launch` adds the meeting of the two ports (`Meets`) and the connection
through which the command goes: `link` is "waiting" in the kernel's backlog, "accepted"
in the pool, "served" once its handler has returned, "dropped" by the shutdown of the
listening socket or the end of the process. Neither end has a timeout; a client's stubs
return at once, so that a client may leave a connection that is still pending.

### AesContext, Storage, Dialogue, Directory

`AesContext` and `Storage` have no variables. The operators of the first are the sets
of outcomes of one call: a context is "ready" for one text in one direction, "spent"
after it until it is reset, "cleaned" by a reset that failed. What is decrypted with a
context that is not ready for it is `Garbled`. The operators of `Storage` take a table
to a result and a table.

`Dialogue` follows a request through the client (`send_cmd` in
`solutions/requests.o`), the worker (`parse_request`), the handler, the Storage,
`save_file` and back. `cl[c]` is a client process with its connection: "open" while it
runs, "gone" when it has closed its end and the server has not noticed, "idle"
otherwise; an idle client keeps what it heard last. `job` is the worker. `stubs` says
which of six modules are stubs, and has each of the combinations that some makefile
links (`Builds`). The contents of a request are a record; that it is encrypted matters
only in what becomes of it when a context is not ready.

- One worker: `-t 1` is the default. What several threads do to a `SequentialMap`
  cannot be read off a stub.
- Neither `parse_request` nor `handle_*` looks at what `reset_aes_context` returned.
  A failed reset leaves a cleaned context, the answer cannot be encrypted, and the
  client hears nothing.
- The stubs of `responses.cc` assert that there is a request. One that could not be
  decrypted ends the server (`HandleStub`, `GoDown`).
- `save_file` is three actions: the file it opens is torn, then closed with the whole
  content, then renamed over the data file. A kill may come between them.
- A stop, in whatever way, loses the table; `StartServer` loads the data file. The
  stub of `load_file` refuses a file that exists, and then the server does not start.

`Directory` has no keys, blocks, contexts, temporary files or stubs. A client asks;
at one moment its call is decided, with an answer and an effect on the directory and
on what is persisted; it hears that answer, or the call is lost. A stop sets the
directory back to what is persisted. Success means that the effect took place; a
refusal (`Refusals`) has none. `intact` says that no stub is linked: only a build with
stubs may answer what fits no state of the directory, such as ERR_USER_EXISTS for a
name that is free. `Dialogue` implements it: a call is "asked" until the worker has an
answer, "decided" until the client has read it; `dir` is the table of a server that
runs and otherwise what its successor would load. Garbled bytes are no answer that
`Directory` can give, so the mapping also says that none is ever taken for one.

## 3. The runs

| Run | Instance | Shows |
|---|---|---|
| `AcceptLoop` | 3 workers, 3 connections, 2 of them BYE and 2 possibly silent; `accept` and `bind` may fail | ownership of every descriptor, -1 never handled, no lost wakeup, order of the shut-down, last tear-down; implements `ConnService`; a halt ends the process unless a silent client detains a worker; an accepted connection is served unless the pool halts |
| `ClientKeys` | 1 server, 2 keys, 2 clients, kills and removals anywhere | a server's halves match, a saved pair is never overwritten; reasons for which a client has the wrong key or none |
| `NetIOStreams` | messages of 0 to 6 bytes, buffer 3, first read buffer 2, 2 interruptions | every byte once and in order, room in the buffer, TRUE only if all was sent, `reliable_get_to_eof` returns |
| `HarnessDialogue` | 2 workers, 4 connections, port free or taken | scripts read what they expect until the stop, always finish, leave no server |
| `Launch` | three texts after `-p` and `-t` of the server (no number, one that fits 16 bits, one that does not), two after `-p` of the client, any option given or not, every call of the start and every `accept()` may fail | the socket is closed once, the handler has its captures, each return releases what it should, reasons for a signal; a server that somebody stops ends, or is in one of three named states, which it leaves only by chance; a client with the server's port is served, and every client that connects comes back, unless the server is in one of these states |
| `Dialogue` | 2 clients with 6 requests, 1 user, every build, failures of OpenSSL, kills and restarts anywhere | no torn data file, no leaked context; implements `Directory`; every client comes back |
| `AcceptLoopByeError` | violation | section 5, 1 |
| `AcceptLoopFrame` | violation | section 5, 2 |
| `KeyFilesFull` | violation, full disk | section 5, 3 |
| `NetIOStaleErrno` | violation | section 5, 4 |
| `NetIOSigpipe` | violation | section 5, 5 |
| `HarnessRace` | violation | section 5, 6 |

### Properties worth a word

- `OpenIffOwned`, `SingleOwner`: a descriptor is open exactly while one of
  `connSd`, a queue slot or a worker in its handler has it. This is what rules out
  both leaks and double closes over hand-overs that race with a halt.
- `NoSleeperWhileWaiting` counts: while the pool is active and someone sleeps,
  there are at least as many workers awake and idle as queued connections. It
  fails as soon as a notification is skipped because the queue was not empty.
- `UnreadOnlyIfRekeyed`, `CrashOnlyIfDisturbed`: kills and restarts alone never
  make a client's key file stale or unusable. It takes the removal of a server's
  key file in the first case; in the second a client that could not get the key,
  was killed while it wrote the file, or overlapped with another client. Removing
  the clients' key file ends both.
- `SurprisedOnlyAtStop`: the lines the scripts read late, out of step with the
  client's answers, are still those they expect, up to the moment the server halts.

- `ImplementsDirectory`: stated once, it covers a save that is cut off, an answer that
  goes to the wrong call or is encrypted in a context of the wrong direction, a SET
  by a client that died after its last byte, and a build that says OK for nothing.
- `ServerEnds` names the three states that a server does not leave by itself: it listens
  and has no thread (`Deaf`); it listens on a port that is 0 in 16 bits, for which the
  kernel chose one that no client knows (`Hidden`); it waits for threads and takes no
  connection any more, as it has no socket or `accept()` has failed (`Unreachable`). All
  come from input or a failure that `main` does not look at. `LeftByChance` says what
  may still bring a server out of the first and the last: an `accept()` that fails, or a
  request to stop on a connection taken before. Nothing does without a socket.
- `ClientReturns`: a connection can be left in the backlog, in the queue, or on a socket
  whose process ends, and the client has no timeout. It waits for ever only before a deaf
  or an unreachable server. `ClientServed` holds for a port of any size, as both ends
  keep the same 16 bits of it.
- `CrashOnlyIfDisturbed` excuses a client whose fetch of the key was disturbed: such a
  client does crash (section 5). What it rules out is any other way there, through a file
  that is not closed before it is read, for instance.
- `HandlerHasCaptures`: the pool's handler holds `pri`, `pub`, `storage` by reference.
  No early return may come after the pool, and no socket manager may fire twice.

### Bounds, and why they are enough

- *3 workers and 3 connections, 2 of which stop the server*: one worker can be in
  its handler, one asleep and one between the two; two workers can halt the pool
  at once; one connection is left to be queued, waiting in the backlog, or in
  main's hand meanwhile. Two connections may be silent, so that one worker is
  left for the third. No symmetry is used, as the run checks liveness too. The
  safety results are also proved for all sizes.
- *Messages of 0 to 6 bytes, first buffer 2*: the buffer doubles at 2 and at 4, so
  messages end just below, at and just above a full buffer, twice. The socket
  buffer of 3 makes short sends and short receives happen on both sides of these
  sizes. `amnt` takes a value below, among and above the lengths. `IntMax` = 31 is
  beyond every sum of these runs: no wrap is exercised.
- *1 server, 2 clients, 2 keys*: a restarted server is the same process with new
  locals; two keys are enough to tell "the same pair" from "another"; two clients
  are enough to overlap. That servers on one disk do not disturb one another is
  proved for any number.
- *Harness, 4 connections*: one script from start to stop.
- *Launch*: one text that is no number, so that `-t` and `-p` get 0; 80; and 65616,
  which is 80 in 16 bits, so that ports can meet that differ as numbers, and a client's
  0 or 65616 can be the very number the server was given. One garbage value, 80. The
  invariants are proved for all of these constants.
- *Dialogue*: two clients of one user, who may be in the data file or not (SET, SAV and
  BYE; REG, GET and ALL). Together they issue each of the
  six commands, the second registers the user the first writes for and reads what it
  wrote, and each command may be asked again and again. There is one password: a
  login that fails does so because the name is not registered, which takes the same
  branch as a password that does not fit.
- `MaxEintr`, 0 to 2 interruptions per behaviour, is the only counter that the
  model itself bounds.

### Fairness

Threads that can go on do (weak fairness per thread). A thread that waits for the
mutex gets it if it is free again and again (strong fairness of `LockStep` and of
`Dispatch`, which needs the mutex too): POSIX mutexes do not promise this, but a
holder here never keeps it for longer than a few instructions and every turn of
its loop ends in a wait or a blocking call. Nothing is promised by others:
clients need not connect, `accept` need not fail (except on a descriptor of -1,
where it always does), spurious wakeups need not occur. In `NetIO` both threads go
on and the sender gets to its close; interruptions and errors are not fair. In
`Harness` the script and its client also go on when they can. The handler of a
connection in `SilentConns` has no fairness. In `Launch` the server's `main` goes on and
its options are typed (`MainFairness`); an `accept()` on -1 fails, no other call need
fail. A client goes on unless it waits for an answer, a connection is accepted while main
accepts, and served while there is a thread (`ClientFairness`): that some other client is
silent and detains the thread is left to `AcceptLoop`. Nobody need stop the server, as
`ClientServed` would say little otherwise; `ServerEnds` states as its premise that a server
which takes connections on a port that can be known, and has a thread, is asked to stop in
the end (`StopFairness`). In `Dialogue` the worker and each client go on, a connection that waits
while the worker is free again and again is taken (strong fairness: the pool's queue
is first in, first out), and nobody need be killed or started.

`CHECK_DEADLOCK FALSE` appears where the system may stop for good: a server that
has exited, a message that has been read, a script that is over.

## 4. What is proved

All proofs hold for every value of the constants, under the named assumptions of
the modules and those given here.

*AcceptLoopProofs.* The invariant is `Inv` = `TypeOK`, `Control`, `Owners`,
`ByeCausesHalt`. Ownership alone is not inductive: that a popped descriptor was
not open elsewhere needs `SingleOwner` of queue, hand and handlers together, and
that an accepted one is new needs the backlog to hold each connection once
(`BacklogHolds`). `QuiescentCleanup` needs that a worker that is done implies
`halted`, and the mutex part that its holder is in its critical section
(`LockHolder`). Each conjunct has a lemma for the initial states and one per group
of actions. From `Inv` follow `TypeCorrect`, `Ownership`, `SingleOwnership`,
`NoInvalidHandled`, `GracefulShutDown` and `CleanupIsQuiescent`. `NoWakeupIsLost` (the pool never has
an active queue that nobody will look at) and `Refinement`
(`Spec => Service!ServiceSpec`) also assume `Workers # {}`: with `-t 0` both are
false, as nobody serves. `EveryConnectionHasAWakeup` is the count behind it, for finitely
many workers: it needs that a worker about to sleep found the queue empty and has the
mutex since (`SleepyFoundNothing`). The refinement maps accept, dispatch and the pool's locks
to stutters, `Pop` to `Begin`, `ServeConnection` to `Finish`, the shutdown handler
to `TurnAway` and `Exit` to `Stop`; `ByeCausesHalt` supplies their guard.

Five more results are about how a server goes on and ends. `StopGoesOn`: from a halt to the
exit some thread can go on, unless a silent client detains a worker. It needs that main
is not left in `accept()` once the worker that halted has shut the socket
(`MainIsWoken`), that nobody sleeps once it has notified (`SleepersAreWoken`), and that
only main closes the socket (`ClosedAtExit`). `StopEnds`: after a halt every step of
the server lowers what one of its threads has left (`WorkerLeft`, `MainLeft`) and raises
none. Together they are `HaltLeadsToExit` but for the fairness that turns "can" into
"does". `AcceptedGoesOn` is the same part of `AcceptedIsServed`, for finite `Workers` and
`SilentConns`: workers that cannot go on sleep, which leaves the queue empty by the count
above, or are each in the handler with a silent client of its own, of which there are
fewer. `EndOfMainImplemented` justifies that `Launch` reduces the pool to what main sees:
`AcceptLoop`, with the socket or without, with threads or without, and whether or not
`accept()` may fail, implements `HaltPool`, `AcceptReturns`, `AcceptFails`,
`AwaitShutdown` and `Finish` of `ServerMain`, step by step. `OnlyAHaltEndsAccepting`
says, for a server that has its port and whose `accept()` does not fail, that main waits
for its workers only after a halt: section 5, 1 takes a failed `accept()`.

*KeyFilesProofs.* `KeyTypeCorrect` holds without assumptions. `KeyInvariance`
assumes `~Overlap`: at most one server is starting, and for each place of that server
it says what the files can hold, in particular that a pair once whole has no writer.
On any disk it gives `PairKept`, `FilesAlwaysMatch` (the files are never halves of two
pairs) and `NoForeignKeyServed` (what is served with a private key is its public half
or a torn one). `ServedPair` and `GenerateSaved` also assume `~FlushMayFail`, which
`KeyFilesFull` shows to be necessary: a full disk can tear a key, but no disk can mix
two. `Overlap` is the hazard at `crypto.cc:228`, two servers that start at once on one
base name: both see no files, both generate, and one can end with halves of two pairs.

*NetIOProofs.* `NetInv` says that reader's buffer and wire are two runs of
consecutive bytes that meet, and that the buffer of `reliable_get_to_eof` is never
full between two calls; it assumes `NoOverflow`: twice the message plus the first
buffer fits in an int. `Intact`, `HasRoom`, `WholeRead` and `SentWhenTrue` follow. When a read
ends is said by three more. `OnlyErrnoHangs`: while a function reads, it or the sender
can go on, or it is the one hang of section 5, 4 (`HangsOnErrno`), which
`reliable_get_to_eof` cannot get into. `HungForGood`: nothing but a broken connection
ends that hang. `StreamsEnd`: every step but an interruption brings the connection
nearer to its end, so that neither loop turns without progress.

*LaunchProofs.* The server's invariant says, for each of main's places, which managers
are armed, what state key and socket are in, and what is on the heap (`KeyHeld`,
`SocketHeld`, `HeapHeld`); the properties speak of the last places and follow only
from what holds at the earlier ones. The client's invariant says what a command line
that was accepted looks like. They share no variable, so that each survives the
other's steps unchanged; a third part ties them (`LinkHeld`): a connection that waits is
on a socket that listens, in a process that has not ended. Only the types of the constants
are assumed. `StuckForAReason` is the safety part of `ServerEnds`: until a server returns,
main can go on, or a client can have its pool halted, unless it is `Deaf`, `Hidden` or
`Unreachable`. It holds whatever fails, a later `accept()` included, and assumes that
`load_file` has a result on the given disk (`LoadResults # {}`). `LeftByChanceHolds` says
what those states are left by; it needs that a halted pool had a thread and a socket
(`HaltHeld`). `ServerStepsAreFew` bounds the steps to the return by 14.
`NoClientIsForgotten` is the safety part of `ClientReturns`: a client whose connection is
pending waits for an `accept()`, a thread or a main with a step to take, or for a server
that is deaf or unreachable.

*DialogueProofs.* `DialogueInv` adds three things to the types. Every request of a
client is one it may have been given (`Legal`), so that what the worker handles is
such a request, or nothing it can use (`Decrypted`); without that no handler keeps the
table a table. `tmp` has its whole content from `CloseTmp` to `RenameTmp`: without that
the data file could be torn. And whoever has no connection has no context. A stop
clears the job, the contexts and the table at once (`GoDownKeeps`). The theorems need
`DialogueAssumption` only.

*DirectoryProofs.* `DirectoryImplemented` is `DialogueSpec => ImplementsDirectory`, in
every build and through any failure of OpenSSL, kill or restart. `DialogueInv` does not
say whose request the worker has; `Linked` does. While the worker has a connection, its
client is there, has not been hung up on and has no answer yet; what the worker handles
is that client's request or nothing of use (`JobLinked`); from the handler to the rename
the login still holds, and at the rename `tmp` is the table (`SavingOK`); an answer that
is sealed comes out of a context that encrypts (`Seals`). For each client, an answer is
there only while the worker hangs up or after it has (`ClientLinked`). `Linked` and the
refinement are proved together, one lemma per group of actions. `StartClient` maps to
`Ask`; `Handle`, the refusals and `RenameTmp` to `Decide`; `EndClient` to `Hear`, or to
`Lose` where there is no answer; a stop, a failed assert of a stub and a killed client
to `Lose`; opening and closing `tmp`, and whatever moves blocks, to stutters.
`AnswerAssumption` is needed besides: no answer is mistaken for silence or for garbled
bytes.

What users can rely on follows from `Linked`, and is said of the data, not of a mapping.
`OwnersWriteAlone`: while a server runs, an entry changes only as a client that has its
password asked in a request that was sent in full, or by the registration of a free name.
`AccountsAreKept`: no account disappears and no password changes. `UsersSaveAlone`: the
data file changes only to the whole table, and for a registered user. `StubsAreFound` and
`StubsAreHarmless` are about the builds: with a stub among the six modules, in any of the
combinations that a makefile links, no client is ever told OK, and nothing is changed in
the table of a running server or in the data file. `CallsGoOn`, the safety part of `EveryCallReturns`: a
client that waits, waits for somebody who can take a step. It needs that a connection that
has not been closed has a server at its other end (`HasServer`).

*ClientProofs.* A step of the whole is a step of the servers or none, so that
`ClientSpec => Spec` brings `KeyInv` along (`ServersOfKeyFiles`). `Undisturbed` says that
clients nobody has disturbed run one after the other, and that whatever the running one
has received, written or loaded is a whole key; `CrashHasACause` follows, for a disk that
takes what is written (`~FlushMayFail`). `Agreement` ties both programs' files together:
a server reads its private key before it serves, and until the servers' key files are
removed, every server that loads or serves, the clients' file, and every key a client
holds belong to the pair on the servers' disk. What makes it inductive is
that no start of a server rewrites a pair that is whole (`FilesStay`, from `KeyInv`);
hence `~Overlap` again, but on any disk: a torn key is nobody else's. `UnreadHasACause`
follows from it.

*HarnessProofs.* `ScriptIs` unfolds the script to its fourteen steps and `StepIs` counts
the lines each of them reads. `HarnessSpec => Spec` brings `AcceptLoop`'s invariant
along. `Counted` bounds what is read, in the pipe and in the buffer by two lines for each
connection that was taken, and main's spare ones: the line printed before `accept()`, and
two once it is being stopped. It is a sum over both processes and holds in every order of
their steps; it needs that `safe_shutdown` implies `halted`. A finished script has read
eleven lines, and four connections allow ten at most until the process ends:
`ScriptLeavesNoServer`. `Calm` says what is in pipe and buffer until a client stops the
server: both lines of each connection in turn, `"waiting"` alone only in the buffer. A
fifth pair of lines would need a fifth connection, by `Counted`. `NoSurpriseBeforeStop`
follows. It assumes `~AcceptMayFail`, as a failure prints another line, and
`Workers # {}`, as a server without threads and without a port ends by itself.
`ScriptGoesOn`, under the same assumptions and for four connections that differ, says
that script and server never wait for one another. It sharpens `Counted` to an equation
up to the stop (`Met`): lines read and in the pipe are two for each connection taken.
Clients come in the script's order (`InTurn`), so that a script that awaits a line in
front of a server that waits for a client would have read fewer lines than were printed;
and a server that has served the BYE has halted or is about to (`ByeHalts`).

*Only model-checked:* the eight liveness properties, `HaltLeadsToExit`,
`AcceptedIsServed`, `StreamReaderReturns`, `ScriptFinishes`, `ServerEnds`,
`ClientReturns`, `ClientServed` and `EveryCallReturns`. For each of them but
`ClientServed` it is proved that nobody is ever stuck (`StopGoesOn`, `AcceptedGoesOn`,
`OnlyErrnoHangs`, `ScriptGoesOn`, `StuckForAReason`, `NoClientIsForgotten`, `CallsGoOn`),
and for the first, third and fifth that every step brings it nearer to its end
(`StopEnds`, `StreamsEnd`, `ServerStepsAreFew`). The rest, from these through fairness
to "eventually", takes ENABLED and an induction over the count, which the prover does
not do. That the runs' counterexamples exist is TLC's finding too.

*Only proved:* `OneFunctionRuns`, that the command typed is the one that is called
(`OneFunctionRunsHolds`). `GenerateTrueMeansSaved` is refuted by `KeyFilesFull` and
proved for a disk that takes what is written (`GenerateSaved`).

## 5. Where code and documentation disagree

1. *A server that cannot be stopped* (`server.cc:153`). One failed `accept()` makes
   `accept_client` return false; main ignores it and waits for workers that only a
   BYE could stop, while the listening socket stays open and nobody accepts.
2. *A handler that outlives its frame* (`net.cc:206`). The shutdown handler uses
   locals of `accept_client` after it has returned. This needs no failure: the
   worker may halt just before main looks at `check_active` again.
3. *Success before the flush* (`crypto.cc:92`). `generate_rsa_key_files` returns
   true before its `fclose` calls write the keys, and nothing looks at their result.
4. *A stale `errno`* (`net.cc:79`). At the end of a stream `recv` returns 0 and
   leaves `errno` alone; if an earlier call was interrupted,
   `reliable_get_to_eof_or_n` calls it again for ever.
5. *SIGPIPE* (`net.cc:27`). A peer that closes early ends the process; the
   documented `false` is never returned.
6. *A race in the test scripts* (`cse303.py:187`, `net.cc:212`). The scripts expect
   two lines when a server stops. It prints them only if main was already in
   `accept()`; the other order is as correct, and fails the test.

Three more were met while modelling and have no run of their own.

- *Two starts at once* (`crypto.cc:228`). Two servers that find no key files both
  generate a pair, into the same two names. One can end up handing out the public key of
  one pair and decrypting with the private key of the other, though `protocol.h:83`
  promises a client the key "to use for subsequent interaction". `KeyFiles` reaches this
  with `Overlap` = TRUE; `KeyInvariance` shows that nothing else mixes two pairs.
- *A command without a key* (`client.cc:179`). `main` looks at none of the results of
  `connect_to_server`, `req_key` and `load_pub`. A client that meets no server, or a key
  file that another client has just truncated or left empty, calls its command with a
  null key, on which `assert(pubkey)` (`requests.cc:40`) ends the process: the outcome
  "crashed" of `Client`.
- *ERR_CRYPTO for an AES block* (`protocol.h:104`). The protocol says the server answers
  ERR_CRYPTO, in plain text, when it could not decrypt @ablock. `solutions/parsing.o`
  drops the result of `aes_crypt_msg`, and its handlers answer ERR_REQ_FMT under the AES
  key (`HandleMalformed`), or nothing if the failure cost the context. As neither has an
  effect, `Directory.Refusals` has both and `ImplementsDirectory` does not tell them apart.

## 6. What is not modelled

- Several workers on one table. Nothing in the repository says how a `SequentialMap`
  that threads share would be locked: the one in source is a stub.
- Bytes, cryptography and the layout of messages: a key or a message is an atom, and a
  salted hash is as good as its password. A request that is malformed on purpose is
  not enumerated; an oversized profile, which the protocol forbids, has a value
  (`Oversize`).
- A context that `create_aes_context` cleans but does not free (`crypto.cc:167`):
  nothing refers to it any more.
- A rename that fails in `save_file` (`solutions/my_storage.o` only prints it), and an
  empty profile, on which the stub's assert ends the server.
- The files in which a client keeps the answers to GET and ALL.
- `load_entire_file` asks `fread` for one byte more than its vector has. A file
  that grows between `stat` and `fread` overruns it; the model has the comparison
  of sizes only.
- Sums past 2^31 in `NetIO`: `AsInt` is there, no run reaches it.
- The options that only a Storage of a later assignment reads (`-b`, `-i`, `-u`, `-d`,
  `-r`, `-o`, `-a`), the texts of `usage` and `err`, how makefiles compile, and
  the comparison of files in the scripts.

## 7. What is left

In this order.

1. The four grading scripts as scripts of `Harness` over `Directory`: every answer
   they expect is the only one the specification allows, across restarts, with and
   without a save.
2. A run of `NetIO` whose `IntMax` is small enough for its sums to wrap.

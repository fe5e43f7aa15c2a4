------------------------------ MODULE ServerMain ------------------------------
(***************************************************************************)
(* main() of server/server.cc from its command line to its return, with    *)
(* arg_t, create_server_socket() of common/net.cc and the ContextManagers  *)
(* of common/contextmanager.h that release what they acquire.  The files   *)
(* of the keys are KeyFiles' concern and the life of the pool AcceptLoop's: *)
(* here a call on either succeeds or fails.                                *)
(***************************************************************************)
EXTENDS Integers

CONSTANTS
  Texts,        \* what the user may type after an option that takes a number
  Atoi,         \* what atoi() makes of each text: 0 of one that is no number
  Garbage,      \* what memory that nobody wrote may hold
  LoadResults,  \* what load_file() may say of a data file that exists
  DefaultThreads  \* the initialiser of arg_t's threads

ASSUME ServerAssumption ==
  /\ Atoi \in [Texts -> Int]
  /\ Garbage \subseteq Int
  /\ LoadResults \subseteq BOOLEAN
  /\ DefaultThreads \in Int

VARIABLES
  place,     \* the next statement of main
  args,      \* the fields of arg_t that are used
  dataFile,  \* whether the file named with -f exists
  heap,      \* which of main's three objects are on the heap
  pri,       \* the RSA object init_RSA returned
  loaded,    \* whether Storage has been populated
  socket,    \* the kernel's socket that create_server_socket made
  sd,        \* whether main's variable sd has its descriptor, or -1
  mgr,       \* the state of each ContextManager
  pool,      \* the thread pool
  status     \* what main returns

serverVars == <<place, args, dataFile, heap, pri, loaded, socket, sd, mgr, pool, status>>

Places == {"options", "usage", "keys", "pub", "storage", "load", "socket", "setsockopt",
           "bind", "listen", "pool", "accept", "join", "deletes", "exited"}

\* "r" frees the private key, "csd" closes main's sd; "cs" is the one inside
\* create_server_socket.
Managers == {"r", "cs", "csd"}

ServerTypeOK ==
  /\ place \in Places
  /\ args \in [port : Int, threads : Int, file : BOOLEAN]
  /\ dataFile \in BOOLEAN
  /\ heap \subseteq {"args", "storage", "pool"}
  /\ pri \in {"null", "live", "freed"}
  /\ loaded \in BOOLEAN
  /\ socket \in {"none", "open", "bound", "listening", "closed", "closed twice"}
  /\ sd \in BOOLEAN
  /\ mgr \in [Managers -> {"none", "armed", "disabled", "ran"}]
  /\ pool \in {"none", "active", "halted", "deleted"}
  /\ status \in {-1, 0, 1}

\* port has no initialiser.
ServerInit ==
  /\ place = "options"
  /\ \E g \in Garbage : args = [port |-> g, threads |-> DefaultThreads, file |-> FALSE]
  /\ dataFile \in BOOLEAN
  /\ heap = {}
  /\ pri = "null"
  /\ loaded = FALSE
  /\ socket = "none"
  /\ sd = FALSE
  /\ mgr = [m \in Managers |-> "none"]
  /\ pool = "none"
  /\ status = 0

-----------------------------------------------------------------------------
(* ContextManager.                                                         *)

Arm(m) == mgr' = [mgr EXCEPT ![m] = "armed"]
Disable(m) == mgr' = [mgr EXCEPT ![m] = "disabled"]

\* The destructors of the managers in ms, each of which acts once if enabled.
Destruct(ms) ==
  mgr' = [m \in Managers |-> IF m \in ms /\ mgr[m] = "armed" THEN "ran" ELSE mgr[m]]

\* close() of the socket's descriptor.
Closed(s) == IF s \in {"closed", "closed twice"} THEN "closed twice" ELSE "closed"

\* main returns code: csd is destructed, then r.  close(-1) does nothing.
Return(code) ==
  /\ place' = "exited"
  /\ status' = code
  /\ Destruct({"r", "csd"})
  /\ pri' = IF mgr["r"] = "armed" THEN "freed" ELSE pri
  /\ socket' = IF mgr["csd"] = "armed" /\ sd THEN Closed(socket) ELSE socket

-----------------------------------------------------------------------------
(* The command line.                                                       *)

\* The loop over getopt(), the fields it assigns and the new of args: every
\* option may be typed any number of times, the last one wins, and a field
\* that no option assigns keeps what it had.  -k names the keys, and the other
\* options go to a Storage that ignores them.
ParseOptions ==
  /\ place = "options"
  /\ place' = "keys"
  /\ args' \in [port : {args.port} \cup {Atoi[t] : t \in Texts},
               threads : {args.threads} \cup {Atoi[t] : t \in Texts},
               file : BOOLEAN]
  /\ heap' = heap \cup {"args"}
  /\ UNCHANGED <<dataFile, pri, loaded, socket, sd, mgr, pool, status>>

\* -h, or an option getopt() does not know: the constructor throws, and the
\* memory for args goes with it.
BadOption ==
  /\ place = "options"
  /\ place' = "usage"
  /\ UNCHANGED <<args, dataFile, heap, pri, loaded, socket, sd, mgr, pool, status>>

\* Fault: usage errors have a status of their own.
UsageStatus ==
  /\ place = "usage"
  /\ Return(2)
  /\ UNCHANGED <<args, dataFile, heap, loaded, sd, pool>>

Usage ==
  /\ place = "usage"
  /\ Return(1)
  /\ UNCHANGED <<args, dataFile, heap, loaded, sd, pool>>

-----------------------------------------------------------------------------
(* Keys and data.                                                          *)

InitRSA ==
  /\ place = "keys"
  /\ place' = "pub"
  /\ pri' = "live"
  /\ Arm("r")
  /\ UNCHANGED <<args, dataFile, heap, loaded, socket, sd, pool, status>>

InitRSAFails ==
  /\ place = "keys"
  /\ Return(-1)
  /\ UNCHANGED <<args, dataFile, heap, loaded, sd, pool>>

LoadPub ==
  /\ place = "pub"
  /\ place' = "storage"
  /\ UNCHANGED <<args, dataFile, heap, pri, loaded, socket, sd, mgr, pool, status>>

LoadPubFails ==
  /\ place = "pub"
  /\ Return(1)
  /\ UNCHANGED <<args, dataFile, heap, loaded, sd, pool>>

MakeStorage ==
  /\ place = "storage"
  /\ place' = "load"
  /\ heap' = heap \cup {"storage"}
  /\ UNCHANGED <<args, dataFile, pri, loaded, socket, sd, mgr, pool, status>>

\* A data file that does not exist is no error.
LoadFileSays == IF args.file /\ dataFile THEN LoadResults ELSE {TRUE}

LoadFile ==
  /\ place = "load"
  /\ TRUE \in LoadFileSays
  /\ place' = "socket"
  /\ loaded' = TRUE
  /\ UNCHANGED <<args, dataFile, heap, pri, socket, sd, mgr, pool, status>>

\* Fault: a data file that cannot be loaded is only reported.
LoadFileUnchecked ==
  /\ place = "load"
  /\ FALSE \in LoadFileSays
  /\ place' = "socket"
  /\ UNCHANGED <<args, dataFile, heap, pri, loaded, socket, sd, mgr, pool, status>>

LoadFileFails ==
  /\ place = "load"
  /\ FALSE \in LoadFileSays
  /\ Return(1)
  /\ UNCHANGED <<args, dataFile, heap, loaded, sd, pool>>

-----------------------------------------------------------------------------
(* create_server_socket().                                                 *)

\* htons() keeps 16 bits.
Htons(port) == port % 65536

OpenSocket ==
  /\ place = "socket"
  /\ place' = "setsockopt"
  /\ socket' = "open"
  /\ Arm("cs")
  /\ UNCHANGED <<args, dataFile, heap, pri, loaded, sd, pool, status>>

OpenSocketFails ==
  /\ place = "socket"
  /\ place' = "pool"
  /\ UNCHANGED <<args, dataFile, heap, pri, loaded, socket, sd, mgr, pool, status>>

SetReuse ==
  /\ place = "setsockopt"
  /\ place' = "bind"
  /\ UNCHANGED <<args, dataFile, heap, pri, loaded, socket, sd, mgr, pool, status>>

Bind ==
  /\ place = "bind"
  /\ place' = "listen"
  /\ socket' = "bound"
  /\ UNCHANGED <<args, dataFile, heap, pri, loaded, sd, mgr, pool, status>>

\* Fault: the manager is not disabled, and closes the socket it returns.
ListenManaged ==
  /\ place = "listen"
  /\ place' = "pool"
  /\ socket' = Closed(socket)
  /\ sd' = TRUE
  /\ Destruct({"cs"})
  /\ UNCHANGED <<args, dataFile, heap, pri, loaded, pool, status>>

\* listen(), cs.disable() and the return of sd.
Listen ==
  /\ place = "listen"
  /\ place' = "pool"
  /\ socket' = "listening"
  /\ sd' = TRUE
  /\ Disable("cs")
  /\ UNCHANGED <<args, dataFile, heap, pri, loaded, pool, status>>

\* A call fails: cs closes the socket, -1 is returned.
SocketCallFails ==
  /\ place \in {"setsockopt", "bind", "listen"}
  /\ place' = "pool"
  /\ Destruct({"cs"})
  /\ socket' = IF mgr["cs"] = "armed" THEN Closed(socket) ELSE socket
  /\ UNCHANGED <<args, dataFile, heap, pri, loaded, sd, pool, status>>

-----------------------------------------------------------------------------
(* The pool, and the end.                                                  *)

\* main does not look at sd before it makes csd and the pool.
StartPool ==
  /\ place = "pool"
  /\ place' = "accept"
  /\ Arm("csd")
  /\ pool' = "active"
  /\ heap' = heap \cup {"pool"}
  /\ UNCHANGED <<args, dataFile, pri, loaded, socket, sd, status>>

\* A worker has served a request to stop.  It needs a worker, and a client that
\* came in through the listening socket: once accept_client has given up, one
\* whose connection it had taken before.
HaltPool ==
  /\ pool = "active"
  /\ args.threads > 0
  /\ place \in {"accept", "join"} /\ socket = "listening"
  /\ pool' = "halted"
  /\ UNCHANGED <<place, args, dataFile, heap, pri, loaded, socket, sd, mgr, status>>

\* accept_client returns TRUE when the pool is halted.
AcceptReturns ==
  /\ place = "accept"
  /\ pool = "halted"
  /\ place' = "join"
  /\ UNCHANGED <<args, dataFile, heap, pri, loaded, socket, sd, mgr, pool, status>>

\* accept_client returns FALSE when accept() fails, as it always does on a sd of
\* -1 and may at any time on a listening socket.  main does not look at it.
AcceptFails ==
  /\ place = "accept"
  /\ place' = "join"
  /\ UNCHANGED <<args, dataFile, heap, pri, loaded, socket, sd, mgr, pool, status>>

\* Fault: the threads are not waited for.
AwaitNothing ==
  /\ place = "join"
  /\ place' = "deletes"
  /\ UNCHANGED <<args, dataFile, heap, pri, loaded, socket, sd, mgr, pool, status>>

\* Fault: a pool without threads is waited for.
AwaitHalt ==
  /\ place = "join"
  /\ pool = "halted"
  /\ place' = "deletes"
  /\ UNCHANGED <<args, dataFile, heap, pri, loaded, socket, sd, mgr, pool, status>>

\* await_shutdown: the threads end when the pool is halted, and a pool
\* without threads has nobody to wait for.
AwaitShutdown ==
  /\ place = "join"
  /\ pool = "halted" \/ args.threads <= 0
  /\ place' = "deletes"
  /\ UNCHANGED <<args, dataFile, heap, pri, loaded, socket, sd, mgr, pool, status>>

\* Fault: nothing is deleted.
FinishUndeleted ==
  /\ place = "deletes"
  /\ pool' = "deleted"
  /\ Return(0)
  /\ UNCHANGED <<args, dataFile, heap, loaded, sd>>

\* storage->shutdown(), the three deletes, and the end of main.
Finish ==
  /\ place = "deletes"
  /\ heap' = {}
  /\ pool' = "deleted"
  /\ Return(0)
  /\ UNCHANGED <<args, dataFile, loaded, sd>>

-----------------------------------------------------------------------------
Acquire ==
  \/ InitRSA \/ InitRSAFails
  \/ LoadPub \/ LoadPubFails
  \/ MakeStorage
  \/ LoadFile \/ LoadFileFails
  \/ OpenSocket \/ OpenSocketFails
  \/ SetReuse \/ Bind \/ Listen \/ SocketCallFails
  \/ StartPool

\* Every statement of main after the options, but for a failure of accept().
MainStep == Usage \/ Acquire \/ AcceptReturns \/ AwaitShutdown \/ Finish

ServerNext == ParseOptions \/ BadOption \/ MainStep \/ AcceptFails \/ HaltPool
=============================================================================

----------------------------- MODULE AcceptLoop -----------------------------
(***************************************************************************)
(* The server's connection path: the second half of main() in             *)
(* server/server.cc, accept_client() in common/net.cc, the listening       *)
(* socket, and the thread pool (ThreadPool) whose workers serve the        *)
(* connections, run the shutdown handler accept_client installed, and are  *)
(* joined before the server tears its Storage down.                        *)
(***************************************************************************)
EXTENDS ThreadPool

CONSTANTS
  AcceptMayFail,  \* whether accept() can fail with an errno other than EINVAL
  BindMayFail,    \* whether create_server_socket() can return -1
  SilentConns     \* connections whose clients may keep them and send nothing

ASSUME AcceptAssumption ==
  AcceptMayFail \in BOOLEAN /\ BindMayFail \in BOOLEAN /\ SilentConns \subseteq Conns

VARIABLES
  main,           \* where the main thread is
  connSd,         \* accept_client's local connSd
  safe_shutdown,  \* accept_client's local, captured by the shutdown handler
  listener,       \* the listening socket: "none" after a failed set-up
  backlog,        \* the kernel's queue of connections not yet accepted
  conn            \* what has become of each connection

acceptVars == <<main, connSd, safe_shutdown, listener, backlog, conn>>
vars == <<poolVars, acceptVars>>

\* "open": the server has a descriptor for it; "closed": the server served
\* and closed it; "reset": the server dropped it without serving it.
ConnStates == {"new", "backlog", "open", "closed", "reset"}

MainPCs == {"check", "accept", "dispatch", "join", "cleanup", "exited"}

TypeOK ==
  /\ PoolTypeOK
  /\ main \in MainPCs
  /\ connSd \in Descriptors
  /\ safe_shutdown \in BOOLEAN
  /\ listener \in {"none", "listening", "shut", "closed"}
  /\ backlog \in Seq(Conns)
  /\ conn \in [Conns -> ConnStates]

\* main has called create_server_socket, whose result it does not check, made
\* the pool, and entered accept_client, which has set the shutdown handler.
Init ==
  /\ PoolInit
  /\ main = "check"
  /\ connSd = InvalidSd
  /\ safe_shutdown = FALSE
  /\ listener \in {"listening"} \cup (IF BindMayFail THEN {"none"} ELSE {})
  /\ backlog = <<>>
  /\ conn = [c \in Conns |-> "new"]

-----------------------------------------------------------------------------
(* Clients.                                                                *)

Connect(c) ==
  /\ conn[c] = "new"
  /\ listener = "listening"
  /\ conn' = [conn EXCEPT ![c] = "backlog"]
  /\ backlog' = Append(backlog, c)
  /\ UNCHANGED <<poolVars, main, connSd, safe_shutdown, listener>>

-----------------------------------------------------------------------------
(* The main thread.                                                        *)

\* The locals safe_shutdown and sd, which the shutdown handler holds by
\* reference, exist while accept_client has not returned.
FrameLive == main \in {"check", "accept", "dispatch"}

CheckActive ==
  /\ main = "check"
  /\ main' = IF check_active THEN "accept" ELSE "join"
  /\ UNCHANGED <<poolVars, connSd, safe_shutdown, listener, backlog, conn>>

AcceptConnection ==
  /\ main = "accept"
  /\ listener = "listening"
  /\ backlog # <<>>
  /\ connSd' = Head(backlog)
  /\ backlog' = Tail(backlog)
  /\ conn' = [conn EXCEPT ![Head(backlog)] = "open"]
  /\ main' = "dispatch"
  /\ UNCHANGED <<poolVars, safe_shutdown, listener>>

\* accept() on a socket that was shut down fails with EINVAL.  If the shutdown
\* handler ran, the code goes on with connSd = -1; if not, it is an error.
AcceptShutDown ==
  /\ main = "accept"
  /\ listener = "shut"
  /\ connSd' = InvalidSd
  /\ main' = IF safe_shutdown THEN "dispatch" ELSE "join"
  /\ UNCHANGED <<poolVars, safe_shutdown, listener, backlog, conn>>

\* Any other failure makes accept_client return FALSE.  main ignores that and
\* goes on to await_shutdown.
AcceptFails ==
  /\ main = "accept"
  /\ listener = "none" \/ AcceptMayFail
  /\ connSd' = InvalidSd
  /\ main' = "join"
  /\ UNCHANGED <<poolVars, safe_shutdown, listener, backlog, conn>>

\* Fault: the listening socket is passed on, not the connection.
DispatchListener ==
  /\ main = "dispatch"
  /\ service_connection(listener)
  /\ connSd' = InvalidSd
  /\ main' = "check"
  /\ UNCHANGED <<safe_shutdown, listener, backlog, conn>>

\* Fault: a connection that arrives after the halt is forgotten, not closed.
DispatchIfActive ==
  /\ main = "dispatch"
  /\ IF check_active THEN service_connection(connSd) ELSE UNCHANGED poolVars
  /\ connSd' = InvalidSd
  /\ main' = "check"
  /\ UNCHANGED <<safe_shutdown, listener, backlog, conn>>

Dispatch ==
  /\ main = "dispatch"
  /\ service_connection(connSd)
  /\ connSd' = InvalidSd
  /\ main' = "check"
  /\ UNCHANGED <<safe_shutdown, listener, backlog, conn>>

\* Fault: wait for the flag instead of for the threads.
AwaitHalted ==
  /\ main = "join"
  /\ halted
  /\ main' = "cleanup"
  /\ UNCHANGED <<poolVars, connSd, safe_shutdown, listener, backlog, conn>>

AwaitShutdown ==
  /\ main = "join"
  /\ AllDone
  /\ main' = "cleanup"
  /\ UNCHANGED <<poolVars, connSd, safe_shutdown, listener, backlog, conn>>

\* storage->shutdown(), the deletes, the close of the listening socket and the
\* return from main: the kernel drops every connection that is still there.
Exit ==
  /\ main = "cleanup"
  /\ main' = "exited"
  /\ listener' = "closed"
  /\ backlog' = <<>>
  /\ conn' = [c \in Conns |->
                IF conn[c] \in {"backlog", "open"} THEN "reset" ELSE conn[c]]
  /\ UNCHANGED <<poolVars, connSd, safe_shutdown>>

-----------------------------------------------------------------------------
(* What the pool's workers do outside the pool.                            *)

\* parse_request has returned and the worker has closed the descriptor.
ServeConnection(w) ==
  /\ Return(w)
  /\ conn' = [conn EXCEPT ![held[w]] = "closed"]
  /\ UNCHANGED <<main, connSd, safe_shutdown, listener, backlog>>

\* Fault: the shutdown handler does not set safe_shutdown.
AnnounceNothing(w) ==
  /\ worker[w] = "announce"
  /\ Goto(w, "shutdown")
  /\ UNCHANGED <<halted, lock, queue, held, acceptVars>>

\* First line of the shutdown handler.  Once accept_client has returned, the
\* store goes to a dead stack slot, which nothing reads any more.
AnnounceShutdown(w) ==
  /\ worker[w] = "announce"
  /\ Goto(w, "shutdown")
  /\ safe_shutdown' = (FrameLive \/ safe_shutdown)
  /\ UNCHANGED <<halted, lock, queue, held>>
  /\ UNCHANGED <<main, connSd, listener, backlog, conn>>

\* Fault: the shutdown handler leaves the listening socket alone.
KeepListening == UNCHANGED <<listener, backlog, conn>>

\* shutdown(sd, SHUT_RDWR) on the listening socket: no further connection is
\* taken and the ones in the backlog are reset.
ShutDownListener ==
  IF listener = "listening"
    THEN /\ listener' = "shut"
         /\ backlog' = <<>>
         /\ conn' = [c \in Conns |->
                       IF conn[c] = "backlog" THEN "reset" ELSE conn[c]]
    ELSE UNCHANGED <<listener, backlog, conn>>

\* Second line of the shutdown handler.  Once accept_client has returned, sd
\* is read from a dead stack slot: it may still be there, or be anything.
ShutDown(w) ==
  /\ worker[w] = "shutdown"
  /\ Goto(w, "top")
  /\ \/ ShutDownListener
     \/ ~FrameLive /\ UNCHANGED <<listener, backlog, conn>>
  /\ UNCHANGED <<halted, lock, queue, held>>
  /\ UNCHANGED <<main, connSd, safe_shutdown>>

-----------------------------------------------------------------------------
MainStep ==
  \/ CheckActive
  \/ AcceptConnection
  \/ AcceptShutDown
  \/ AcceptFails
  \/ Dispatch
  \/ AwaitShutdown
  \/ Exit

WorkerStep(w) ==
  \/ PoolStep(w) /\ UNCHANGED acceptVars
  \/ ServeConnection(w)
  \/ AnnounceShutdown(w)
  \/ ShutDown(w)

Next ==
  \/ \E c \in Conns : Connect(c)
  \/ MainStep
  \/ \E w \in Workers : WorkerStep(w)

Spec == Init /\ [][Next]_vars

\* Every thread that can go on does, and a thread that waits for the mutex
\* gets it if it is free again and again.  Clients owe nothing, so that the
\* handler of a silent one need not return: it reads without a timeout.  accept()
\* need not fail, and no spurious wakeup is promised.
LockStep(w) == (Acquire(w) \/ Resume(w) \/ NotifyAll(w)) /\ UNCHANGED acceptVars

FreeStep(w) ==
  \/ /\ Top(w) \/ Pop(w) \/ SkipWait(w) \/ DecideToWait(w) \/ Sleep(w) \/ Halt(w)
     /\ UNCHANGED acceptVars
  \/ held[w] \notin SilentConns /\ ServeConnection(w)
  \/ AnnounceShutdown(w)
  \/ ShutDown(w)

Fairness ==
  /\ WF_vars(CheckActive \/ AcceptConnection \/ AcceptShutDown
               \/ AwaitShutdown \/ Exit)
  /\ WF_vars(listener = "none" /\ AcceptFails)
  /\ SF_vars(Dispatch)
  /\ \A w \in Workers : WF_vars(FreeStep(w)) /\ SF_vars(LockStep(w))

FairSpec == Spec /\ Fairness
=============================================================================

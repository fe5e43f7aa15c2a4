--------------------------- MODULE AcceptLoopProps ---------------------------
(***************************************************************************)
(* What the connection path of the server should do, and the sense in      *)
(* which it implements ConnService.                                        *)
(***************************************************************************)
EXTENDS AcceptLoop, Integers, FiniteSets

Handling == {w \in Workers : worker[w] = "handle"}

\* The places of a descriptor: main's local, a slot of the queue, the hands
\* of a worker that is in its handler.
Occurs(e, s) == \E i \in DOMAIN s : s[i] = e

InMain(c) == main = "dispatch" /\ connSd = c
InQueue(c) == Occurs(c, queue)
InHandler(c) == \E w \in Handling : held[w] = c

-----------------------------------------------------------------------------
(* Safety.                                                                 *)

\* A descriptor is open exactly while one party owns it: no accepted
\* connection is leaked by a hand-over between accept_client, the queue and
\* the workers, and none is reachable after its close.
OpenIffOwned ==
  main # "exited" =>
    \A c \in Conns : conn[c] = "open" <=> InMain(c) \/ InQueue(c) \/ InHandler(c)

\* No connection has two owners, so no handler runs twice for one connection
\* and no descriptor is closed twice.
OncePerConnection(s) ==
  \A i, j \in DOMAIN s : s[i] = s[j] /\ i # j => s[i] = InvalidSd

SingleOwner ==
  /\ OncePerConnection(queue)
  /\ \A v, w \in Handling : held[v] = held[w] => v = w
  /\ \A c \in Conns : /\ ~(InMain(c) /\ InQueue(c))
                       /\ ~(InMain(c) /\ InHandler(c))
                       /\ ~(InQueue(c) /\ InHandler(c))

\* The descriptor -1, which accept_client hands to the pool when it is shut
\* down, never reaches parse_request.
InvalidNeverHandled == \A w \in Handling : held[w] # InvalidSd

\* The workers that are awake and will look at the queue.
Ready == {w \in Workers : worker[w] \in {"wakeup", "top", "lock", "locked"}}

\* While the pool is active no worker sleeps if there is a waiting connection
\* that no awake idle worker is left for: every connection in the queue has
\* had its own wakeup.
NoSleeperWhileWaiting == ~halted /\ Asleep # {} => Len(queue) <= Cardinality(Ready)

\* As long as the pool is active, and whenever its queue is not empty, some
\* worker is neither asleep nor about to be.
NoLostWakeup ==
  queue # <<>> /\ ~halted =>
    \E w \in Workers : worker[w] \notin {"asleep", "tosleep", "done"}

\* While accept_client runs, the listening socket is shut down only after
\* safe_shutdown was set: a graceful stop is never taken for an error.
ShutDownIsAnnounced == FrameLive /\ listener = "shut" => safe_shutdown

\* Storage is shut down and the pool deleted only when no worker can touch
\* either again: none is in a handler, in the shutdown handler or on its way
\* to one.
QuiescentCleanup ==
  main \in {"cleanup", "exited"} => AllDone /\ lock = NoOne

-----------------------------------------------------------------------------
(* The inductive invariant behind the properties above.                    *)

\* The mutex is held exactly by the worker inside its critical section.
LockHolder == \A w \in Workers : worker[w] \in {"locked", "tosleep"} <=> lock = w

\* A worker that is past its store to halted, or has left its loop.
HaltedFirst ==
  \A w \in Workers :
    worker[w] \in {"notify", "announce", "shutdown", "done"} => halted

\* connSd carries something only between accept() and service_connection().
NothingInHand == main # "dispatch" => connSd = InvalidSd

\* The shutdown handler's first line comes before its second.
AnnouncedFirst ==
  \A w \in Workers : worker[w] = "shutdown" /\ FrameLive => safe_shutdown

Control ==
  /\ LockHolder
  /\ HaltedFirst
  /\ NothingInHand
  /\ AnnouncedFirst
  /\ ShutDownIsAnnounced
  /\ InvalidNeverHandled
  /\ QuiescentCleanup

\* The kernel's backlog holds each connection that is not accepted yet once.
BacklogHolds ==
  /\ OncePerConnection(backlog)
  /\ \A c \in Conns : conn[c] = "backlog" <=> Occurs(c, backlog)

\* The process that has ended has no listening socket and no connection.
NothingLeft ==
  main = "exited" =>
    listener = "closed" /\ \A c \in Conns : conn[c] \notin {"backlog", "open"}

Owners == BacklogHolds /\ OpenIffOwned /\ SingleOwner /\ NothingLeft

\* A halt, and a worker on its way to one, comes from a served BYE request.
ByeCausesHalt ==
  halted \/ (\E w \in Workers : worker[w] = "halt") =>
    \E c \in ByeConns : conn[c] = "closed"

Inv == TypeOK /\ Control /\ Owners /\ ByeCausesHalt

-----------------------------------------------------------------------------
(* Refinement.                                                             *)

\* A connection waits in the kernel's backlog, in main's hand and in the queue;
\* it is served from the moment a worker takes it until it is closed.
statusBar == [c \in Conns |->
  IF conn[c] = "new" THEN "new"
  ELSE IF conn[c] = "closed" THEN "served"
  ELSE IF conn[c] = "reset" THEN "lost"
  ELSE IF InHandler(c) THEN "serving" ELSE "waiting"]

Service == INSTANCE ConnService
             WITH status <- statusBar, up <- (main # "exited")

\* The server keeps the promises of ConnService.
ImplementsService == Service!ServiceSpec

-----------------------------------------------------------------------------
(* Liveness.                                                               *)

Detained == \E w \in Handling : held[w] \in SilentConns

\* Once a worker has halted the pool, the process ends: the workers that
\* sleep are woken, the main thread leaves accept(), and every join returns.
\* Only a client that keeps its connection and says nothing can hold it up.
HaltLeadsToExit == halted ~> main = "exited" \/ Detained

\* A connection that was accepted is served, unless the pool is halted first:
\* clients that say nothing keep no other from being served, as long as there
\* are fewer of them than workers.
AcceptedIsServed ==
  Cardinality(SilentConns) < Cardinality(Workers) =>
    \A c \in Conns \ SilentConns : conn[c] = "open" ~> conn[c] = "closed" \/ halted

\* A client that asks the server to stop, and whose connection the kernel took
\* in, sees it stop.
ByeStopsServer == \A c \in ByeConns : conn[c] = "backlog" ~> main = "exited"

-----------------------------------------------------------------------------
(* What the repository says and the code does not do.                      *)

\* accept_client returns TRUE on a graceful shutdown (net.cc:203); the code
\* the pool runs when it shuts down uses accept_client's locals, so that
\* shutdown must be over when it returns.
ShutdownHandlerInFrame ==
  \A w \in Workers : worker[w] \in {"announce", "shutdown"} => FrameLive
=============================================================================

-------------------------------- MODULE Launch --------------------------------
(***************************************************************************)
(* A server and a client, each started with a command line of its own:     *)
(* ServerMain and ClientMain, composed where the client connects.          *)
(***************************************************************************)
EXTENDS ServerMain, ClientMain

VARIABLE
  link   \* what has become of the connection the client's command goes through

vars == <<serverVars, clientVars, link>>

\* "failed": a call of connect_to_server failed on the client's side; "refused":
\* nobody listens on the port; "waiting": the kernel keeps it for accept();
\* "accepted": the pool has it; "served": its handler has returned; "dropped": the
\* server shut its socket, or ended, before that.
Links == {"none", "failed", "refused", "waiting", "accepted", "served", "dropped"}
Pending == {"waiting", "accepted"}

LaunchTypeOK == ServerTypeOK /\ ClientTypeOK /\ link \in Links

LaunchInit == ServerInit /\ ClientInit /\ link = "none"

-----------------------------------------------------------------------------
(* The client connects.                                                    *)

\* The port the server has been bound to.  Port 0 makes the kernel choose one
\* that no client knows.
BoundPort == Htons(args.port)

\* Fault: connect_to_server does not convert the port.
MeetsUnconverted == socket = "listening" /\ BoundPort # 0 /\ cport = BoundPort

\* connect() of connect_to_server finds the socket of the server.
Meets == socket = "listening" /\ BoundPort # 0 /\ Htons(cport) = BoundPort

\* The kernel takes the connection until the server has shut the socket, which it
\* does at some time after the pool is halted.
Connect ==
  /\ ClientConnect
  /\ \/ Meets /\ link' = "waiting"
     \/ (Meets => pool = "halted") /\ link' = "refused"
  /\ UNCHANGED serverVars

\* The host is unknown, there is no socket to be had, or connect() is cut off.
ConnectFails ==
  /\ ClientConnect
  /\ link' = "failed"
  /\ UNCHANGED serverVars

-----------------------------------------------------------------------------
(* What the server does with the connection.                               *)

\* accept(), and service_connection of what it returned.
TakeConnection ==
  /\ place = "accept" /\ socket = "listening"
  /\ link = "waiting"
  /\ link' = "accepted"
  /\ UNCHANGED <<serverVars, clientVars>>

\* A worker has called parse_request and closed the connection.
Serve ==
  /\ pool \in {"active", "halted"} /\ args.threads > 0
  /\ link = "accepted"
  /\ link' = "served"
  /\ UNCHANGED <<serverVars, clientVars>>

\* shutdown() of the listening socket, by the worker that halted the pool.
ShutDown ==
  /\ pool = "halted"
  /\ link = "waiting"
  /\ link' = "dropped"
  /\ UNCHANGED <<serverVars, clientVars>>

\* The kernel closes what a process that ends has left open.
CloseAtExit == link' = IF place' = "exited" /\ link \in Pending THEN "dropped" ELSE link

-----------------------------------------------------------------------------
\* The steps of one of the two alone.
ServerAlone == ServerNext /\ CloseAtExit /\ UNCHANGED clientVars
ClientAlone == ClientStep /\ cplace # "connect" /\ UNCHANGED <<serverVars, link>>

LaunchNext ==
  \/ ServerAlone
  \/ ClientAlone
  \/ Connect
  \/ ConnectFails
  \/ TakeConnection
  \/ Serve
  \/ ShutDown

LaunchSpec == LaunchInit /\ [][LaunchNext]_vars

\* main goes on, and its user finishes typing.  accept() fails on a descriptor of
\* -1; no other call need fail.
MainFairness ==
  /\ WF_vars((MainStep \/ (socket # "listening" /\ AcceptFails))
               /\ CloseAtExit /\ UNCHANGED clientVars)
  /\ WF_vars((ParseOptions \/ BadOption) /\ CloseAtExit /\ UNCHANGED clientVars)

\* Some client asks a server to stop, in the end, that takes connections on a
\* port a client can know.
StopFairness ==
  WF_vars(place = "accept" /\ BoundPort # 0 /\ HaltPool /\ UNCHANGED <<clientVars, link>>)

\* A client goes on, unless it waits for an answer; a connection is taken and
\* served when that is possible, as AcceptLoop has it for clients that talk.
ClientFairness ==
  /\ WF_vars(Connect)
  /\ WF_vars(RunFunctions /\ link \notin Pending /\ UNCHANGED <<serverVars, link>>)
  /\ WF_vars(TakeConnection)
  /\ WF_vars(Serve)

\* Nobody need ask the server to stop.
FairLaunch == LaunchSpec /\ MainFairness /\ ClientFairness

-----------------------------------------------------------------------------
(* Properties.                                                             *)

\* The listening socket is closed once on every path: by the manager in
\* create_server_socket until that is disabled, by main's from then on, and
\* never by both or by neither.
SocketClosedOnce ==
  /\ socket # "closed twice"
  /\ sd => socket \in {"listening", "closed"}
  /\ place = "exited" => socket \in {"none", "closed"}

\* While the pool's threads may run, what its handler captured by reference
\* exists: the private key, a Storage that has been loaded, and the socket if
\* there is one; however the start went.
HandlerHasCaptures ==
  pool \in {"active", "halted"} =>
    /\ pri = "live"
    /\ loaded /\ "storage" \in heap
    /\ sd => socket = "listening"

\* A server that returns has released everything, except that the early
\* returns leave args and the Storage on the heap.
TidyExit ==
  place = "exited" =>
    /\ pri # "live"
    /\ \A m \in Managers : mgr[m] # "armed"
    /\ status = 0 => heap = {}
    /\ "pool" \notin heap

\* The three states a server does not leave by itself.  It listens and has no
\* thread to serve anyone; it listens on a port that the kernel chose and no
\* client knows; or it has threads that wait for a request and takes no
\* connection any more, because it has no socket or accept() has failed.
Deaf == place = "accept" /\ sd /\ args.threads <= 0
Hidden == place = "accept" /\ sd /\ BoundPort = 0
Unreachable == place = "join" /\ pool = "active" /\ args.threads > 0

Stuck == Deaf \/ Hidden \/ Unreachable

\* Every server that was started returns from main, if somebody asks it to stop
\* who can, or gets into one of these three states.
ServerEnds == StopFairness => (TRUE ~> (place = "exited" \/ Stuck))

\* What brings a server out of these states is no doing of its own: accept()
\* fails for a server without threads, and a connection taken before accept()
\* failed asks an unreachable one to stop.  Without a socket there is none.
LeftByChance ==
  [][/\ Deaf /\ ~Deaf' => AcceptFails
     /\ Unreachable /\ ~Unreachable' => HaltPool /\ sd]_vars

\* A client that was given the same number for a port as the server is served,
\* however many bits the number has, unless one of its own calls fails, the pool
\* is halted or the server is in one of these states.
ClientServed ==
  (cplace = "connect" /\ cport = args.port /\ place = "accept")
    ~> (link \in {"served", "failed"} \/ pool # "active" \/ Stuck)

\* A client that has called connect() returns, with an answer or without: it waits
\* for ever only for a server that is deaf or unreachable.  One that does not
\* listen refuses it, one that ends drops it.
ClientReturns ==
  cplace = "run" ~> (cplace \in {"done", "aborted"} \/ (link \in Pending /\ (Deaf \/ Unreachable)))

\* A command line that is accepted runs the one request function that -C
\* named, with an argument if and only if that one reads it.
OneFunctionRuns ==
  cplace \in {"done", "aborted"} =>
    /\ \E i \in DOMAIN func : ran = {i} /\ func[i] = command
    /\ "1" \in given <=> command \in {"SET", "GET", "ALL"}

\* The client ends by a signal only if its command line was refused, and usage()
\* ran over its table, or if the user's name or password is missing.
SignalForAReason ==
  /\ cplace = "overrun" => ran = {}
  /\ cplace = "aborted" => ~({"u", "w"} \subseteq given)
=============================================================================

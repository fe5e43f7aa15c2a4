----------------------------- MODULE LaunchProofs -----------------------------
(***************************************************************************)
(* Launch's invariants, for every set of texts, every port and every       *)
(* number of threads.                                                      *)
(***************************************************************************)
EXTENDS Launch, TLAPS

-----------------------------------------------------------------------------
(* The inductive invariant: what main holds is a matter of where it is.     *)

BeforeKeys == {"options", "usage", "keys"}
WithKey == {"pub", "storage", "load", "socket", "setsockopt", "bind", "listen", "pool",
            "accept", "join", "deletes"}
BeforeSocket == BeforeKeys \cup {"pub", "storage", "load", "socket"}
InSetup == {"setsockopt", "bind", "listen"}
WithStorage == WithKey \ {"pub", "storage"}
Loaded == WithStorage \ {"load"}
WithPool == {"accept", "join", "deletes"}

\* r and the private key.
KeyHeld ==
  /\ place \in BeforeKeys => mgr["r"] = "none" /\ pri = "null"
  /\ place \in WithKey => mgr["r"] = "armed" /\ pri = "live"
  /\ place = "exited" => mgr["r"] # "armed" /\ pri # "live"

\* cs, csd and the listening socket.
SocketHeld ==
  /\ place \in BeforeSocket => mgr["cs"] = "none" /\ socket = "none" /\ ~sd
  /\ place \in InSetup => mgr["cs"] = "armed" /\ socket \in {"open", "bound"} /\ ~sd
  /\ place \in WithPool \cup {"pool"} =>
       mgr["cs"] # "armed" /\ IF sd THEN socket = "listening" ELSE socket \in {"none", "closed"}
  /\ place \in WithPool <=> mgr["csd"] = "armed"
  /\ place = "exited" => mgr["cs"] # "armed" /\ socket \in {"none", "closed"}
  /\ place = "exited" /\ sd => socket = "closed"

\* The objects on the heap.
HeapHeld ==
  /\ place \in WithStorage => "storage" \in heap
  /\ place \in Loaded => loaded
  /\ place \in WithPool <=> pool \in {"active", "halted"}
  /\ place \notin WithPool => "pool" \notin heap
  /\ place = "exited" /\ status = 0 => heap = {}

\* A pool that was halted had a thread for it and a socket to be asked through.
HaltHeld == pool = "halted" => args.threads > 0 /\ sd

ServerInv == ServerTypeOK /\ KeyHeld /\ SocketHeld /\ HeapHeld /\ HaltHeld

-----------------------------------------------------------------------------
(* Every step of the server preserves it.                                  *)

\* The invariant of the server holds before main's first statement.
LEMMA ServerInvInit == ServerInit => ServerInv
<1>. SUFFICES ASSUME ServerInit PROVE ServerInv
  OBVIOUS
<1>1. args \in [port : Int, threads : Int, file : BOOLEAN]
  BY ServerAssumption DEF ServerInit
<1>2. ServerTypeOK
  BY <1>1 DEF ServerInit, ServerTypeOK, Places, Managers
<1>3. KeyHeld /\ SocketHeld /\ HeapHeld /\ HaltHeld
  BY DEF ServerInit, KeyHeld, SocketHeld, HeapHeld, HaltHeld, Managers, BeforeKeys, WithKey,
    BeforeSocket, InSetup, WithStorage, Loaded, WithPool
<1>. QED
  BY <1>2, <1>3 DEF ServerInv

\* Each statement of the server's main preserves its invariant.
LEMMA ServerInvStep == ServerInv /\ ServerNext => ServerInv'
<1>. SUFFICES ASSUME ServerInv, ServerNext PROVE ServerInv'
  OBVIOUS
<1>. USE ServerAssumption DEF ServerInv, ServerTypeOK, KeyHeld, SocketHeld, HeapHeld,
  HaltHeld, Places, Managers, BeforeKeys, WithKey, BeforeSocket, InSetup, WithStorage, Loaded, WithPool
<1>1. CASE ParseOptions
  BY <1>1 DEF ParseOptions
<1>2. CASE BadOption
  BY <1>2 DEF BadOption
<1>3. CASE Usage
  BY <1>3 DEF Usage, Return, Destruct
<1>4. CASE InitRSA
  BY <1>4 DEF InitRSA, Arm
<1>5. CASE InitRSAFails
  BY <1>5 DEF InitRSAFails, Return, Destruct
<1>6. CASE LoadPub
  BY <1>6 DEF LoadPub
<1>7. CASE LoadPubFails
  BY <1>7 DEF LoadPubFails, Return, Destruct
<1>8. CASE MakeStorage
  BY <1>8 DEF MakeStorage
<1>9. CASE LoadFile
  BY <1>9 DEF LoadFile
<1>10. CASE LoadFileFails
  BY <1>10 DEF LoadFileFails, Return, Destruct
<1>11. CASE OpenSocket
  BY <1>11 DEF OpenSocket, Arm
<1>12. CASE OpenSocketFails
  BY <1>12 DEF OpenSocketFails
<1>13. CASE SetReuse
  BY <1>13 DEF SetReuse
<1>14. CASE Bind
  BY <1>14 DEF Bind
<1>15. CASE Listen
  BY <1>15 DEF Listen, Disable
<1>16. CASE SocketCallFails
  BY <1>16 DEF SocketCallFails, Destruct, Closed
<1>17. CASE StartPool
  BY <1>17 DEF StartPool, Arm
<1>18. CASE HaltPool
  BY <1>18 DEF HaltPool
<1>19. CASE AcceptReturns
  BY <1>19 DEF AcceptReturns
<1>20. CASE AcceptFails
  BY <1>20 DEF AcceptFails
<1>21. CASE AwaitShutdown
  BY <1>21 DEF AwaitShutdown
<1>22. CASE Finish
  BY <1>22 DEF Finish, Return, Destruct, Closed
<1>. QED
  BY <1>1, <1>2, <1>3, <1>4, <1>5, <1>6, <1>7, <1>8, <1>9, <1>10, <1>11, <1>12, <1>13, <1>14, <1>15, <1>16, <1>17, <1>18, <1>19, <1>20, <1>21, <1>22 DEF ServerNext, MainStep, Acquire
-----------------------------------------------------------------------------
(* The client.                                                             *)

\* A command line that was accepted stays so, and what was run is what it named.
ClientInv ==
  /\ ClientTypeOK
  /\ cplace \in {"connect", "run", "done", "aborted"} =>
       command \in Commands /\ Accepts(command, given)
  /\ ran = IF cplace \in {"done", "aborted"} THEN Hits ELSE {}
  /\ cplace = "aborted" => \E i \in Hits : ~AssertsHold(func[i])

\* The six commands, by name.
LEMMA CommandsAre == Commands = {"BYE", "SAV", "REG", "SET", "GET", "ALL"}
BY DEF Commands, commands

\* main's two lists have six entries each.
LEMMA ListsAre == DOMAIN cmd = 1 .. 6 /\ DOMAIN func = 1 .. 6
BY DEF cmd, func

\* The two lists of main fit: the one entry of cmd that is the command is the
\* entry of func with its function.
LEMMA HitsAre ==
  ASSUME command \in Commands
  PROVE  \E i \in DOMAIN func : Hits = {i} /\ func[i] = command
<1>1. DOMAIN cmd = 1 .. 6 /\ DOMAIN func = 1 .. 6
  BY ListsAre
<1>2. /\ cmd[1] = "REG" /\ cmd[2] = "BYE" /\ cmd[3] = "SET"
      /\ cmd[4] = "GET" /\ cmd[5] = "ALL" /\ cmd[6] = "SAV"
  BY DEF cmd
<1>3. \A i \in 1 .. 6 : func[i] = cmd[i]
  BY DEF func, cmd
<1>4. PICK i \in 1 .. 6 : cmd[i] = command
  BY <1>2, CommandsAre
<1>5. \A j \in 1 .. 6 : cmd[j] = cmd[i] => j = i
  BY <1>2
<1>6. Hits = {i}
  BY <1>1, <1>4, <1>5 DEF Hits
<1>. QED
  BY <1>1, <1>3, <1>4, <1>6

\* The invariant of the client holds before main's first statement.
LEMMA ClientInvInit == ClientInit => ClientInv
<1>. SUFFICES ASSUME ClientInit PROVE ClientInv
  OBVIOUS
<1>1. ClientTypeOK
  BY DEF ClientInit, ClientTypeOK, ClientPlaces
<1>. QED
  BY <1>1 DEF ClientInit, ClientInv

\* Each statement of the client's main preserves its invariant.
LEMMA ClientInvStep == ClientInv /\ ClientStep => ClientInv'
<1>. SUFFICES ASSUME ClientInv, ClientStep PROVE ClientInv'
  OBVIOUS
<1>. USE CommandsAre DEF ClientInv, ClientTypeOK, ClientPlaces, NoCommand, ClientGoto
<1>1. CASE ParseClientOptions
  BY <1>1, ClientAssumption DEF ParseClientOptions
<1>2. CASE RefuseClientOptions
  BY <1>2 DEF RefuseClientOptions
<1>3. CASE ClientUsage
  BY <1>3 DEF ClientUsage
<1>4. CASE ClientConnect
  BY <1>4 DEF ClientConnect, Accepts
<1>5. CASE RunFunctions
  <2>1. Hits' = Hits /\ Hits \subseteq 1 .. 6
    BY <1>5, ListsAre DEF RunFunctions, Hits
  <2>2. cplace' = "aborted" => \E i \in Hits : ~AssertsHold(func[i])
    BY <1>5 DEF RunFunctions
  <2>3. given' = given /\ command' = command
    BY <1>5 DEF RunFunctions
  <2>4. (cplace = "aborted" => \E i \in Hits : ~AssertsHold(func[i]))'
    BY <2>1, <2>2, <2>3 DEF AssertsHold
  <2>. QED
    BY <1>5, <2>1, <2>3, <2>4 DEF RunFunctions, Accepts
<1>. QED
  BY <1>1, <1>2, <1>3, <1>4, <1>5 DEF ClientStep

-----------------------------------------------------------------------------
(* Both together.                                                          *)

\* A connection that waits for the server, or for one of its threads, is on a
\* socket that listens, in a process that has not ended.
LinkHeld ==
  /\ link \in Links
  /\ link \in Pending =>
       place \in WithPool \cup {"pool"} /\ socket = "listening" /\ BoundPort # 0
  /\ link = "accepted" => place \in WithPool

LaunchInv == ServerInv /\ ClientInv /\ LinkHeld

\* The invariants hold when neither process has done anything.
LEMMA LaunchInvInit == LaunchInit => LaunchInv
BY ServerInvInit, ClientInvInit DEF LaunchInit, LaunchInv, LinkHeld, Links, Pending

\* What the client does alone does not touch the server's invariant.
LEMMA ServerInvKept == ServerInv /\ UNCHANGED serverVars => ServerInv'
<1>. SUFFICES ASSUME ServerInv, UNCHANGED serverVars PROVE ServerInv'
  OBVIOUS
<1>. USE DEF serverVars
<1>1. ServerTypeOK'
  BY DEF ServerInv, ServerTypeOK
<1>2. KeyHeld' /\ SocketHeld' /\ HeapHeld' /\ HaltHeld'
  BY DEF ServerInv, KeyHeld, SocketHeld, HeapHeld, HaltHeld, BeforeKeys, WithKey, BeforeSocket,
    InSetup, WithStorage, Loaded, WithPool
<1>. QED
  BY <1>1, <1>2 DEF ServerInv

\* What the server does alone does not touch the client's invariant.
LEMMA ClientInvKept == ClientInv /\ UNCHANGED clientVars => ClientInv'
<1>. SUFFICES ASSUME ClientInv, UNCHANGED clientVars PROVE ClientInv'
  OBVIOUS
<1>1. Hits' = Hits
  BY DEF clientVars, Hits
<1>. QED
  BY <1>1 DEF ClientInv, clientVars, ClientTypeOK, Accepts, AssertsHold

\* The port main listens on does not change once it has one.
LEMMA PortIsKept ==
  ASSUME ServerNext, place \in WithPool \cup {"pool"}
  PROVE  args' = args
BY DEF ServerNext, MainStep, Acquire, WithPool, ParseOptions, BadOption, Usage, InitRSA,
       InitRSAFails, LoadPub, LoadPubFails, MakeStorage, LoadFile, LoadFileFails, OpenSocket,
       OpenSocketFails, SetReuse, Bind, Listen, SocketCallFails, StartPool, HaltPool,
       AcceptReturns, AcceptFails, AwaitShutdown, Finish, Return

\* From the pool on, main keeps its socket until the process ends.
LEMMA SocketIsKept ==
  ASSUME ServerNext, place \in WithPool \cup {"pool"}
  PROVE  \/ place' \in WithPool /\ socket' = socket
         \/ place' = "exited"
BY DEF ServerNext, MainStep, Acquire, WithPool, ParseOptions, BadOption, Usage, InitRSA,
       InitRSAFails, LoadPub, LoadPubFails, MakeStorage, LoadFile, LoadFileFails, OpenSocket,
       OpenSocketFails, SetReuse, Bind, Listen, SocketCallFails, StartPool, HaltPool,
       AcceptReturns, AcceptFails, AwaitShutdown, Finish, Return

\* The server keeps a connection's socket, or ends and drops the connection.
LEMMA LinkHeldByServer == LaunchInv /\ ServerAlone => LinkHeld'
<1>. SUFFICES ASSUME LaunchInv, ServerAlone PROVE LinkHeld'
  OBVIOUS
<1>1. link' = IF place' = "exited" /\ link \in Pending THEN "dropped" ELSE link
  BY DEF ServerAlone, CloseAtExit
<1>2. link' \in Links
  BY <1>1 DEF LaunchInv, LinkHeld, Links
<1>3. CASE link' \in Pending
  <2>1. link' = link /\ link \in Pending /\ place' # "exited"
    BY <1>1, <1>3 DEF Pending
  <2>2. place \in WithPool \cup {"pool"} /\ socket = "listening" /\ BoundPort # 0
    BY <2>1 DEF LaunchInv, LinkHeld
  <2>3. args' = args /\ place' \in WithPool /\ socket' = socket
    BY <2>1, <2>2, PortIsKept, SocketIsKept DEF ServerAlone
  <2>. QED
    BY <1>2, <2>2, <2>3 DEF LinkHeld, BoundPort
<1>4. CASE link' \notin Pending
  BY <1>2, <1>4 DEF LinkHeld, Pending
<1>. QED
  BY <1>3, <1>4

\* A client meets a socket only where main has one that listens.
LEMMA LinkHeldByConnect == LaunchInv /\ Connect => LinkHeld'
<1>. SUFFICES ASSUME LaunchInv, Connect PROVE LinkHeld'
  OBVIOUS
<1>1. UNCHANGED serverVars
  BY DEF Connect
<1>2. CASE link' = "waiting"
  <2>1. Meets
    BY <1>2 DEF Connect
  <2>2. place \in WithPool \cup {"pool"}
    BY <2>1 DEF Meets, LaunchInv, ServerInv, ServerTypeOK, SocketHeld, Places, BeforeSocket,
      BeforeKeys, InSetup, WithPool
  <2>. QED
    BY <1>1, <1>2, <2>1, <2>2 DEF LinkHeld, Links, Pending, Meets, BoundPort, serverVars
<1>3. CASE link' = "refused"
  BY <1>3 DEF LinkHeld, Links, Pending
<1>. QED
  BY <1>2, <1>3 DEF Connect

\* Nothing waits after a connect_to_server that failed.
LEMMA LinkHeldByFailure == ConnectFails => LinkHeld'
BY DEF ConnectFails, LinkHeld, Links, Pending

\* What the server does with a connection leaves main where it is.
LEMMA LinkHeldByTheRest ==
  LaunchInv /\ (TakeConnection \/ Serve \/ ShutDown) => LinkHeld'
BY DEF LaunchInv, LinkHeld, Links, Pending, WithPool, BoundPort, TakeConnection, Serve, ShutDown,
       serverVars

\* Nor does the link change with anything the client does but connect.
LEMMA LinkHeldKept == LinkHeld /\ UNCHANGED <<serverVars, link>> => LinkHeld'
BY DEF LinkHeld, BoundPort, serverVars

\* Every step of either process preserves the three invariants.
LEMMA LaunchInvStep == LaunchInv /\ [LaunchNext]_vars => LaunchInv'
<1>. SUFFICES ASSUME LaunchInv, [LaunchNext]_vars PROVE LaunchInv'
  OBVIOUS
<1>1. CASE ServerAlone
  BY <1>1, ServerInvStep, ClientInvKept, LinkHeldByServer DEF LaunchInv, ServerAlone
<1>2. CASE ClientAlone
  BY <1>2, ClientInvStep, ServerInvKept, LinkHeldKept DEF LaunchInv, ClientAlone
<1>3. CASE Connect
  BY <1>3, ClientInvStep, ServerInvKept, LinkHeldByConnect DEF LaunchInv, Connect, ClientStep
<1>4. CASE TakeConnection \/ Serve \/ ShutDown
  BY <1>4, ServerInvKept, ClientInvKept, LinkHeldByTheRest
  DEF LaunchInv, TakeConnection, Serve, ShutDown
<1>5. CASE ConnectFails
  BY <1>5, ClientInvStep, ServerInvKept, LinkHeldByFailure
  DEF LaunchInv, ConnectFails, ClientStep
<1>6. CASE UNCHANGED vars
  BY <1>6, ServerInvKept, ClientInvKept, LinkHeldKept DEF LaunchInv, vars
<1>. QED
  BY <1>1, <1>2, <1>3, <1>4, <1>5, <1>6 DEF LaunchNext

\* The inductive invariant of the two mains always holds.
THEOREM LaunchInvariant == LaunchSpec => []LaunchInv
BY LaunchInvInit, LaunchInvStep, PTL DEF LaunchSpec

\* Every variable of the server's and the client's start has its type, whatever
\* was typed.
THEOREM LaunchTypeCorrect == LaunchSpec => []LaunchTypeOK
<1>1. LaunchInv => LaunchTypeOK
  BY DEF LaunchInv, ServerInv, ClientInv, LinkHeld, LaunchTypeOK
<1>. QED
  BY <1>1, LaunchInvariant, PTL

\* On every path through main the listening socket is closed once.
THEOREM SocketClosedOnceHolds == LaunchSpec => []SocketClosedOnce
<1>1. LaunchInv => SocketClosedOnce
  BY DEF LaunchInv, ServerInv, SocketClosedOnce, ServerTypeOK, Places, SocketHeld,
    BeforeKeys, BeforeSocket, InSetup, WithPool
<1>. QED
  BY <1>1, LaunchInvariant, PTL

\* The threads of the pool never outlive the key, the Storage or the socket.
THEOREM HandlerHasCapturesHolds == LaunchSpec => []HandlerHasCaptures
<1>1. LaunchInv => HandlerHasCaptures
  BY DEF LaunchInv, ServerInv, HandlerHasCaptures, KeyHeld, SocketHeld, HeapHeld,
    WithKey, WithStorage, Loaded, WithPool
<1>. QED
  BY <1>1, LaunchInvariant, PTL

\* Whatever fails, a server that returns has released what it acquired.
THEOREM TidyExitHolds == LaunchSpec => []TidyExit
<1>1. LaunchInv => TidyExit
  BY DEF LaunchInv, ServerInv, TidyExit, ServerTypeOK, Managers, KeyHeld, SocketHeld,
    HeapHeld, WithPool
<1>. QED
  BY <1>1, LaunchInvariant, PTL

\* An accepted command line runs the function that -C named and no other.
THEOREM OneFunctionRunsHolds == LaunchSpec => []OneFunctionRuns
<1>1. LaunchInv => OneFunctionRuns
  BY HitsAre DEF LaunchInv, ClientInv, OneFunctionRuns, Accepts, args0, args1
<1>. QED
  BY <1>1, LaunchInvariant, PTL

\* A signal ends the client only for one of the reasons named.
THEOREM SignalForAReasonHolds == LaunchSpec => []SignalForAReason
<1>1. ASSUME LaunchInv, cplace = "aborted" PROVE ~({"u", "w"} \subseteq given)
  <2>1. PICK i \in DOMAIN func : Hits = {i} /\ func[i] = command
    BY <1>1, HitsAre DEF LaunchInv, ClientInv
  <2>2. ~AssertsHold(command)
    BY <1>1, <2>1 DEF LaunchInv, ClientInv
  <2>3. command \in {"SET", "GET", "ALL"} => "1" \in given
    BY <1>1 DEF LaunchInv, ClientInv, Accepts, args0, args1
  <2>. QED
    BY <2>2, <2>3 DEF AssertsHold
<1>2. LaunchInv => SignalForAReason
  BY <1>1 DEF LaunchInv, ClientInv, SignalForAReason
<1>. QED
  BY <1>2, LaunchInvariant, PTL

-----------------------------------------------------------------------------
(* How a server ends: the part of ServerEnds that is not liveness.         *)

\* main has a step to take, or a client can have its pool halted.
ServerMayGoOn ==
  \/ place \in Places \ {"load", "accept", "join", "exited"}
  \/ place = "load" /\ LoadFileSays # {}
  \/ place = "accept" /\ (pool = "halted" \/ ~sd)
  \/ place = "accept" /\ pool = "active" /\ args.threads > 0
       /\ socket = "listening" /\ BoundPort # 0
  \/ place = "join" /\ (pool = "halted" \/ args.threads <= 0)

\* Of all the ways a start can go, whatever fails and whenever accept() does, only
\* three leave a server that neither ends nor can be made to.
OnlyStuckIfNamed == place # "exited" => ServerMayGoOn \/ Stuck

\* A data file that exists can be loaded or not; then only the three states that
\* Stuck names keep a server from going on.
THEOREM StuckForAReason ==
  ASSUME LoadResults # {}
  PROVE  LaunchSpec => []OnlyStuckIfNamed
<1>1. LaunchInv => OnlyStuckIfNamed
  <2>. SUFFICES ASSUME LaunchInv, place # "exited", ~ServerMayGoOn
                PROVE  Deaf \/ Hidden \/ Unreachable
    BY DEF OnlyStuckIfNamed, Stuck
  <2>1. place \in {"accept", "join"}
    BY DEF ServerMayGoOn, LoadFileSays, LaunchInv, ServerInv, ServerTypeOK
  <2>2. args.threads \in Int /\ pool \in {"active", "halted"}
    BY <2>1 DEF LaunchInv, ServerInv, ServerTypeOK, HeapHeld, WithPool
  <2>3. CASE place = "accept"
    <3>1. sd /\ pool = "active" /\ socket = "listening"
      BY <2>2, <2>3 DEF ServerMayGoOn, LaunchInv, ServerInv, SocketHeld, WithPool
    <3>. QED
      BY <2>2, <2>3, <3>1 DEF ServerMayGoOn, Deaf, Hidden
  <2>4. CASE place = "join"
    BY <2>2, <2>4 DEF ServerMayGoOn, Unreachable
  <2>. QED
    BY <2>1, <2>3, <2>4
<1>. QED
  BY <1>1, LaunchInvariant, PTL

\* Which steps the server can take from accept() and from the join.
LEMMA StepsFromTheEnd ==
  ASSUME ServerNext, place \in {"accept", "join"}
  PROVE  \/ AcceptReturns \/ AcceptFails
         \/ HaltPool
         \/ AwaitShutdown
BY DEF ServerNext, MainStep, Acquire, ParseOptions, BadOption, Usage, InitRSA, InitRSAFails,
       LoadPub, LoadPubFails, MakeStorage, LoadFile, LoadFileFails, OpenSocket,
       OpenSocketFails, SetReuse, Bind, Listen, SocketCallFails, StartPool, Finish

\* A server without threads leaves accept() only by its failure, and one that waits
\* for workers is stopped only through a socket: that is, by a client whose
\* connection it had taken.  One that never had a socket stays as it is for good.
THEOREM LeftByChanceHolds == LaunchSpec => LeftByChance
<1>1. ASSUME LaunchInv, ServerNext, Deaf, ~Deaf'
      PROVE  AcceptFails
  <2>1. args.threads \in Int
    BY <1>1 DEF LaunchInv, ServerInv, ServerTypeOK
  <2>2. pool # "halted"
    BY <1>1, <2>1 DEF Deaf, LaunchInv, ServerInv, HaltHeld
  <2>. QED
    BY <1>1, <2>1, <2>2, StepsFromTheEnd DEF Deaf, AcceptReturns, HaltPool, AwaitShutdown
<1>2. ASSUME LaunchInv, ServerNext, Unreachable, ~Unreachable'
      PROVE  HaltPool /\ sd
  <2>1. args.threads \in Int
    BY <1>2 DEF LaunchInv, ServerInv, ServerTypeOK
  <2>2. HaltPool
    BY <1>2, <2>1, StepsFromTheEnd DEF Unreachable, AcceptReturns, AcceptFails, AwaitShutdown
  <2>. QED
    BY <1>2, <2>2 DEF HaltPool, Unreachable, LaunchInv, ServerInv, SocketHeld, WithPool
<1>3. ASSUME UNCHANGED serverVars
      PROVE  Deaf' = Deaf /\ Unreachable' = Unreachable
  BY <1>3 DEF serverVars, Deaf, Unreachable
<1>4. LaunchInv /\ [LaunchNext]_vars =>
        [/\ Deaf /\ ~Deaf' => AcceptFails
         /\ Unreachable /\ ~Unreachable' => HaltPool /\ sd]_vars
  BY <1>1, <1>2, <1>3
  DEF LaunchNext, ServerAlone, ClientAlone, Connect, ConnectFails, TakeConnection, Serve,
      ShutDown
<1>. QED
  BY <1>4, LaunchInvariant, PTL DEF LaunchSpec, LeftByChance

\* A client that waits for an answer waits for somebody who has a step to take:
\* accept() for its connection, a thread for its request, or a main that goes on to
\* its end; or else for a server that is deaf or unreachable.
ClientWaitsForSomebody ==
  link \in Pending =>
    \/ link = "waiting" /\ place = "accept" /\ socket = "listening"
    \/ link = "accepted" /\ args.threads > 0
    \/ place \in {"pool", "deletes"}
    \/ place \in {"accept", "join"} /\ pool = "halted"
    \/ place = "join" /\ args.threads <= 0
    \/ Deaf \/ Unreachable

\* No client is forgotten: neither a port that the kernel chose nor a socket that
\* was closed or never made can keep one waiting.
THEOREM NoClientIsForgotten == LaunchSpec => []ClientWaitsForSomebody
<1>1. LaunchInv => ClientWaitsForSomebody
  <2>. SUFFICES ASSUME LaunchInv, link \in Pending PROVE ClientWaitsForSomebody
    BY DEF ClientWaitsForSomebody
  <2>1. place \in {"pool", "accept", "join", "deletes"} /\ socket = "listening"
    BY DEF LaunchInv, LinkHeld, WithPool
  <2>2. sd /\ args.threads \in Int /\ (place \in {"accept", "join"} => pool \in {"active", "halted"})
    BY <2>1 DEF LaunchInv, ServerInv, ServerTypeOK, SocketHeld, HeapHeld, WithPool
  <2>3. link \in {"waiting", "accepted"}
    BY DEF Pending
  <2>. QED
    BY <2>1, <2>2, <2>3 DEF ClientWaitsForSomebody, Deaf, Unreachable
<1>. QED
  BY <1>1, LaunchInvariant, PTL

\* What is left of main from each place on.
PlacesLeft ==
  [options |-> 14, keys |-> 13, pub |-> 12, storage |-> 11, load |-> 10, socket |-> 9,
   setsockopt |-> 8, bind |-> 7, listen |-> 6, pool |-> 5, accept |-> 3, join |-> 2,
   deletes |-> 1, usage |-> 1, exited |-> 0]

ServerLeft == PlacesLeft[place] + (IF pool = "active" THEN 1 ELSE 0)

\* Every step of the server brings it nearer to its return: main has no way back,
\* and a pool is halted once.
ServerComesNearer == [][serverVars' # serverVars => ServerLeft' < ServerLeft]_vars

\* Where each statement of main leads to.
LEMMA ServerStepComesNearer ==
  ASSUME ServerTypeOK, ServerNext
  PROVE  ServerLeft' < ServerLeft
<1>. DEFINE Ways == {<<"options", "keys">>, <<"options", "usage">>, <<"usage", "exited">>,
                     <<"keys", "pub">>, <<"keys", "exited">>, <<"pub", "storage">>,
                     <<"pub", "exited">>, <<"storage", "load">>, <<"load", "socket">>,
                     <<"load", "exited">>, <<"socket", "setsockopt">>, <<"socket", "pool">>,
                     <<"setsockopt", "bind">>, <<"setsockopt", "pool">>, <<"bind", "listen">>,
                     <<"bind", "pool">>, <<"listen", "pool">>, <<"accept", "join">>,
                     <<"join", "deletes">>, <<"deletes", "exited">>}
            Extra(p) == IF p = "active" THEN 1 ELSE 0
<1>1. CASE StartPool
  BY <1>1 DEF StartPool, ServerLeft, PlacesLeft
<1>2. CASE HaltPool
  BY <1>2 DEF HaltPool, ServerLeft, PlacesLeft
<1>3. CASE ~StartPool /\ ~HaltPool
  <2>1. <<place, place'>> \in Ways /\ pool' \in {pool, "deleted"}
    BY <1>3
    DEF ServerNext, MainStep, Acquire, ParseOptions, BadOption, Usage, InitRSA, InitRSAFails,
        LoadPub, LoadPubFails, MakeStorage, LoadFile, LoadFileFails, OpenSocket,
        OpenSocketFails, SetReuse, Bind, Listen, SocketCallFails, AcceptReturns,
        AcceptFails, AwaitShutdown, Finish, Return
  <2>2. \A t \in Ways : /\ PlacesLeft[t[2]] \in Nat /\ PlacesLeft[t[1]] \in Nat
                        /\ PlacesLeft[t[2]] < PlacesLeft[t[1]]
    BY DEF PlacesLeft
  <2>3. /\ PlacesLeft[place'] \in Nat /\ PlacesLeft[place] \in Nat
        /\ PlacesLeft[place'] < PlacesLeft[place]
    BY <2>1, <2>2
  <2>4. Extra(pool') <= Extra(pool) /\ Extra(pool') \in Nat /\ Extra(pool) \in Nat
    BY <2>1
  <2>. QED BY <2>3, <2>4 DEF ServerLeft
<1>. QED BY <1>1, <1>2, <1>3

\* main and its pool take at most fourteen steps: with StuckForAReason, a server
\* ends unless it gets into one of the three states.
THEOREM ServerStepsAreFew == LaunchSpec => ServerComesNearer
<1>1. LaunchInv /\ [LaunchNext]_vars => [serverVars' # serverVars => ServerLeft' < ServerLeft]_vars
  BY ServerStepComesNearer
  DEF LaunchInv, ServerInv, LaunchNext, ServerAlone, ClientAlone, Connect, ConnectFails,
      TakeConnection, Serve, ShutDown
<1>. QED
  BY <1>1, LaunchInvariant, PTL DEF LaunchSpec, ServerComesNearer
=============================================================================

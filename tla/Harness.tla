------------------------------- MODULE Harness -------------------------------
(***************************************************************************)
(* The dialogue of the test scripts with a server: do_cmd(), after() and   *)
(* await_server() of scripts/cse303.py, the connections a client opens for *)
(* one command, and what the server writes to its standard output, which   *)
(* is a pipe that the scripts read line by line.  Composed with AcceptLoop. *)
(*                                                                         *)
(* The scripts tell how far the server is by what it has printed.  "\n"    *)
(* leaves a line in the server's buffer; endl and the end of the process   *)
(* send what is buffered down the pipe.                                    *)
(***************************************************************************)
EXTENDS AcceptLoop, Naturals

CONSTANTS
  KeyConn, RegConn,  \* the first client asks for the key, then registers
  GetConn,           \* a client that has the key already
  ByeConn            \* the client that stops the server

ASSUME HarnessAssumption ==
  /\ Conns = {KeyConn, RegConn, GetConn, ByeConn}
  /\ ByeConns = {ByeConn}

VARIABLES
  buf,        \* what the server has printed and not flushed
  pipe,       \* what it has flushed and the script has not read
  step,       \* how far the script is
  opened,     \* how many connections the present client has opened
  surprised   \* whether a line was not what the script expected

scriptVars == <<step, opened, surprised>>
printVars == <<buf, pipe>>
allVars == <<vars, printVars, scriptVars>>

Lines == {"waiting", "connected", "error", "terminated"}

-----------------------------------------------------------------------------
(* The script.                                                             *)

Client(cs) == [do |-> "client", conns |-> cs]
Read(l) == [do |-> "read", line |-> l]

\* The two lines of every connection.
After == <<Read("waiting"), Read("connected")>>

\* Run a client until it prints its first line, then read the server's.
DoCmd(cs) == <<Client(cs)>> \o After

\* Fault: do not wait for the line that says the server has stopped.
AwaitTwoLines == After

AwaitServer == After \o <<Read("terminated")>>

\* One server's life in the scripts.  The extra lines of the first client's
\* request for the key are read after its command.
Script ==
  DoCmd(<<KeyConn, RegConn>>) \o After \o DoCmd(<<GetConn>>)
    \o DoCmd(<<ByeConn>>) \o AwaitServer

Finished == step > Len(Script)

HarnessTypeOK ==
  /\ buf \in Seq(Lines) /\ Len(buf) <= 1
  /\ pipe \in Seq(Lines)
  /\ step \in 1 .. Len(Script) + 1
  /\ opened \in 0 .. 2
  /\ surprised \in BOOLEAN

HarnessInit ==
  /\ Init
  /\ buf = <<>> /\ pipe = <<>>
  /\ step = 1 /\ opened = 0 /\ surprised = FALSE

Answered(c) == conn[c] \in {"closed", "reset"}

\* The client opens its next connection when the one before was answered.
ClientConnects ==
  /\ ~Finished /\ Script[step].do = "client"
  /\ opened < Len(Script[step].conns)
  /\ opened > 0 => Answered(Script[step].conns[opened])
  /\ Connect(Script[step].conns[opened + 1])
  /\ opened' = opened + 1
  /\ UNCHANGED <<printVars, step, surprised>>

\* The client reads its answer up to the end of the stream and prints a line.
ClientPrints ==
  /\ ~Finished /\ Script[step].do = "client"
  /\ opened = Len(Script[step].conns)
  /\ Answered(Script[step].conns[opened])
  /\ step' = step + 1 /\ opened' = 0
  /\ UNCHANGED <<vars, printVars, surprised>>

\* Nobody listens: the client prints an error instead.
ClientRefused ==
  /\ ~Finished /\ Script[step].do = "client"
  /\ opened < Len(Script[step].conns)
  /\ opened > 0 => Answered(Script[step].conns[opened])
  /\ listener # "listening"
  /\ step' = step + 1 /\ opened' = 0
  /\ surprised' = TRUE
  /\ UNCHANGED <<vars, printVars>>

ReadLine ==
  /\ ~Finished /\ Script[step].do = "read"
  /\ pipe # <<>>
  /\ surprised' = (surprised \/ Head(pipe) # Script[step].line)
  /\ pipe' = Tail(pipe)
  /\ step' = step + 1
  /\ UNCHANGED <<vars, buf, opened>>

\* readline returns the empty string when the server is gone.
ReadEnd ==
  /\ ~Finished /\ Script[step].do = "read"
  /\ pipe = <<>> /\ main = "exited"
  /\ surprised' = TRUE
  /\ step' = step + 1
  /\ UNCHANGED <<vars, printVars, opened>>

ScriptStep ==
  ClientConnects \/ ClientPrints \/ ClientRefused \/ ReadLine \/ ReadEnd

-----------------------------------------------------------------------------
(* The server, and what it prints.                                         *)

Buffered(l) == buf' = Append(buf, l) /\ UNCHANGED pipe
Flushed(l) == pipe' = Append(pipe \o buf, l) /\ buf' = <<>>

\* Fault: the first line of a connection is not printed.
WaitSilently == CheckActive /\ UNCHANGED printVars

PrintWaiting ==
  /\ CheckActive
  /\ IF check_active THEN Buffered("waiting") ELSE UNCHANGED printVars

\* Fault: "\n" instead of endl.
ConnectedUnflushed == (AcceptConnection \/ AcceptShutDown) /\ Buffered("connected")

\* The line is also printed for the connSd = -1 of a shutdown.
PrintConnected ==
  \/ AcceptConnection /\ Flushed("connected")
  \/ AcceptShutDown /\ Flushed(IF safe_shutdown THEN "connected" ELSE "error")

ServerStep ==
  \/ PrintWaiting
  \/ PrintConnected
  \/ AcceptFails /\ Flushed("error")
  \/ (Dispatch \/ AwaitShutdown) /\ UNCHANGED printVars
  \/ Exit /\ Flushed("terminated")
  \/ (\E w \in Workers : WorkerStep(w)) /\ UNCHANGED printVars

HarnessNext ==
  \/ ScriptStep
  \/ ServerStep /\ UNCHANGED scriptVars

\* The server's threads as in AcceptLoop; the script and its client go on
\* when they can.
HarnessSpec ==
  HarnessInit /\ [][HarnessNext]_allVars /\ Fairness /\ WF_allVars(ScriptStep)

-----------------------------------------------------------------------------
(* Properties.                                                             *)

\* Until a client has stopped the server, every line the script reads is the
\* one it expects, although it reads them long after they were printed and the
\* lines of the request for the key come first.
SurprisedOnlyAtStop == surprised => halted \/ listener = "none"

\* A script that has finished leaves no server behind: the next test can use
\* its port and its files.
NoServerLeft == Finished => main = "exited"

\* If the server got its port, the script finishes: it never waits for a line
\* that is not printed, or that stays in the server's buffer.
ScriptFinishes == listener = "listening" ~> Finished

\* Two lines are expected after every connection (cse303.py:369), and two when
\* the server stops (cse303.py:187).
NoSurprise == ~surprised
=============================================================================

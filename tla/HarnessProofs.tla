---------------------------- MODULE HarnessProofs ----------------------------
(***************************************************************************)
(* Proofs about Harness: the script and a server with any number of        *)
(* workers agree on the lines that were printed.                           *)
(***************************************************************************)
EXTENDS Harness, AcceptLoopProofs

-----------------------------------------------------------------------------
(* The script, step by step.                                               *)

\* How many lines were to be read before each step.
ReadsBefore == <<0, 0, 1, 2, 3, 4, 4, 5, 6, 6, 7, 8, 9, 10, 11>>
LinesRead == ReadsBefore[step]

\* The lines of the connections alternate.
Odd == {1, 3, 5, 7, 9, 11}
LineAt(n) == IF n \in Odd THEN "waiting" ELSE "connected"

\* u is s with t behind it.
Joined(u, s, t) ==
  /\ Len(u) = Len(s) + Len(t)
  /\ \A k \in 1 .. Len(s) + Len(t) : u[k] = IF k <= Len(s) THEN s[k] ELSE t[k - Len(s)]

LEMMA Joins ==
  ASSUME NEW S, NEW s \in Seq(S), NEW t \in Seq(S)
  PROVE  s \o t \in Seq(S) /\ Joined(s \o t, s, t)
BY ConcatProperties DEF Joined

\* Both of the lines that follow a command.
LEMMA AfterIs ==
  ASSUME NEW S, Read("waiting") \in S, Read("connected") \in S
  PROVE  /\ After \in Seq(S) /\ Len(After) = 2
         /\ After[1] = Read("waiting") /\ After[2] = Read("connected")
<1>. DEFINE a == Read("waiting")
            b == Read("connected")
<1>1. a \in S /\ b \in S
  OBVIOUS
<1>2. After = <<a, b>>
  BY DEF After
<1>. HIDE DEF a, b
<1>3. /\ After \in Seq(S) /\ Len(After) = 2
      /\ After[1] = a /\ After[2] = b
  BY <1>1, <1>2
<1>. QED BY <1>3 DEF a, b

\* A command and its lines.
LEMMA DoCmdIs ==
  ASSUME NEW S, Read("waiting") \in S, Read("connected") \in S,
         NEW cs, Client(cs) \in S
  PROVE  /\ DoCmd(cs) \in Seq(S) /\ Len(DoCmd(cs)) = 3
         /\ DoCmd(cs)[1] = Client(cs)
         /\ DoCmd(cs)[2] = Read("waiting") /\ DoCmd(cs)[3] = Read("connected")
<1>. DEFINE c == Client(cs)
            s == <<c>>
            u == DoCmd(cs)
<1>1. u = s \o After
  BY DEF DoCmd
<1>. HIDE DEF c, u
<1>2. s \in Seq(S) /\ Len(s) = 1 /\ s[1] = c
  BY DEF c
<1>. HIDE DEF s
<1>3. u \in Seq(S) /\ Joined(u, s, After)
  BY <1>1, <1>2, AfterIs, Joins
<1>. QED BY <1>2, <1>3, AfterIs DEF Joined, c, u

\* The lines of the stop.
LEMMA AwaitServerIs ==
  ASSUME NEW S, Read("waiting") \in S, Read("connected") \in S, Read("terminated") \in S
  PROVE  /\ AwaitServer \in Seq(S) /\ Len(AwaitServer) = 3
         /\ AwaitServer[1] = Read("waiting") /\ AwaitServer[2] = Read("connected")
         /\ AwaitServer[3] = Read("terminated")
<1>. DEFINE c == Read("terminated")
            s == <<c>>
            u == AwaitServer
<1>1. u = After \o s
  BY DEF AwaitServer
<1>. HIDE DEF c, u
<1>2. s \in Seq(S) /\ Len(s) = 1 /\ s[1] = c
  BY DEF c
<1>. HIDE DEF s
<1>3. u \in Seq(S) /\ Joined(u, After, s)
  BY <1>1, <1>2, AfterIs, Joins
<1>. QED BY <1>2, <1>3, AfterIs DEF Joined, c, u

\* The fourteen steps.
LEMMA ScriptIs ==
  /\ Len(Script) = 14
  /\ Script[1] = Client(<<KeyConn, RegConn>>)
  /\ Script[6] = Client(<<GetConn>>) /\ Script[9] = Client(<<ByeConn>>)
  /\ \A n \in {2, 4, 7, 10, 12} : Script[n] = Read("waiting")
  /\ \A n \in {3, 5, 8, 11, 13} : Script[n] = Read("connected")
  /\ Script[14] = Read("terminated")
<1>. DEFINE S == {Read(l) : l \in Lines} \cup
                 {Client(<<KeyConn, RegConn>>), Client(<<GetConn>>), Client(<<ByeConn>>)}
            d1 == DoCmd(<<KeyConn, RegConn>>)
            d2 == DoCmd(<<GetConn>>)
            d3 == DoCmd(<<ByeConn>>)
            s1 == d1 \o After
            s2 == s1 \o d2
            s3 == s2 \o d3
            s4 == s3 \o AwaitServer
<1>1. /\ Read("waiting") \in S /\ Read("connected") \in S /\ Read("terminated") \in S
      /\ Client(<<KeyConn, RegConn>>) \in S /\ Client(<<GetConn>>) \in S
      /\ Client(<<ByeConn>>) \in S
  BY DEF Lines
<1>. HIDE DEF S
<1>2. /\ d1 \in Seq(S) /\ Len(d1) = 3 /\ d1[1] = Client(<<KeyConn, RegConn>>)
      /\ d1[2] = Read("waiting") /\ d1[3] = Read("connected")
  BY <1>1, DoCmdIs
<1>3. /\ d2 \in Seq(S) /\ Len(d2) = 3 /\ d2[1] = Client(<<GetConn>>)
      /\ d2[2] = Read("waiting") /\ d2[3] = Read("connected")
  BY <1>1, DoCmdIs
<1>4. /\ d3 \in Seq(S) /\ Len(d3) = 3 /\ d3[1] = Client(<<ByeConn>>)
      /\ d3[2] = Read("waiting") /\ d3[3] = Read("connected")
  BY <1>1, DoCmdIs
<1>5. /\ After \in Seq(S) /\ Len(After) = 2
      /\ After[1] = Read("waiting") /\ After[2] = Read("connected")
  BY <1>1, AfterIs
<1>6. /\ AwaitServer \in Seq(S) /\ Len(AwaitServer) = 3
      /\ AwaitServer[1] = Read("waiting") /\ AwaitServer[2] = Read("connected")
      /\ AwaitServer[3] = Read("terminated")
  BY <1>1, AwaitServerIs
<1>7. Script = s4
  BY DEF Script
<1>. HIDE DEF d1, d2, d3
<1>8. s1 \in Seq(S) /\ Joined(s1, d1, After)
  BY <1>2, <1>5, Joins
<1>. HIDE DEF s1
<1>9. Len(s1) = 5 /\ \A k \in 1 .. 5 : s1[k] = IF k <= 3 THEN d1[k] ELSE After[k - 3]
  BY <1>2, <1>5, <1>8 DEF Joined
<1>10. s2 \in Seq(S) /\ Joined(s2, s1, d2)
  BY <1>3, <1>8, Joins
<1>. HIDE DEF s2
<1>11. Len(s2) = 8 /\ \A k \in 1 .. 8 : s2[k] = IF k <= 5 THEN s1[k] ELSE d2[k - 5]
  BY <1>3, <1>9, <1>10 DEF Joined
<1>12. s3 \in Seq(S) /\ Joined(s3, s2, d3)
  BY <1>4, <1>10, Joins
<1>. HIDE DEF s3
<1>13. Len(s3) = 11 /\ \A k \in 1 .. 11 : s3[k] = IF k <= 8 THEN s2[k] ELSE d3[k - 8]
  BY <1>4, <1>11, <1>12 DEF Joined
<1>14. s4 \in Seq(S) /\ Joined(s4, s3, AwaitServer)
  BY <1>6, <1>12, Joins
<1>. HIDE DEF s4
<1>15. Len(s4) = 14 /\ \A k \in 1 .. 14 : s4[k] = IF k <= 11 THEN s3[k] ELSE AwaitServer[k - 11]
  BY <1>6, <1>13, <1>14 DEF Joined
<1>. QED
  BY <1>2, <1>3, <1>4, <1>5, <1>6, <1>7, <1>9, <1>11, <1>13, <1>15

\* What each step does to the count of lines.
LEMMA StepIs ==
  ASSUME NEW n \in 1 .. 14
  PROVE  /\ ReadsBefore[n] \in 0 .. 10 /\ ReadsBefore[n + 1] \in 0 .. 11
         /\ Script[n].do = "client" =>
              /\ ReadsBefore[n + 1] = ReadsBefore[n]
              /\ Len(Script[n].conns) \in {1, 2}
              /\ \A i \in 1 .. Len(Script[n].conns) : Script[n].conns[i] \in Conns
         /\ Script[n].do = "read" =>
              /\ ReadsBefore[n + 1] = ReadsBefore[n] + 1
              /\ n # 14 => Script[n].line = LineAt(ReadsBefore[n] + 1)
              /\ n = 14 => ReadsBefore[n] = 10
<1>. USE ScriptIs DEF ReadsBefore, Client, Read
<1>1. CASE n \in {1, 6, 9}
  <2>1. /\ Script[n].do = "client" /\ ReadsBefore[n + 1] = ReadsBefore[n]
        /\ ReadsBefore[n] \in 0 .. 10 /\ ReadsBefore[n + 1] \in 0 .. 11
    BY <1>1
  <2>2. /\ Script[n].conns = <<KeyConn, RegConn>> \/ Script[n].conns = <<GetConn>>
           \/ Script[n].conns = <<ByeConn>>
    BY <1>1
  <2>. DEFINE cs == Script[n].conns
  <2>. HIDE ScriptIs DEF ReadsBefore, cs
  <2>3. {KeyConn, RegConn, GetConn, ByeConn} \subseteq Conns
    BY HarnessAssumption
  <2>4. cs = <<KeyConn, RegConn>> \/ cs = <<GetConn>> \/ cs = <<ByeConn>>
    BY <2>2 DEF cs
  <2>5. Len(cs) \in {1, 2} /\ \A i \in 1 .. Len(cs) : cs[i] \in Conns
    BY <2>3, <2>4
  <2>. QED BY <1>1, <2>1, <2>5 DEF cs
<1>2. CASE n \in {2, 4, 7, 10, 12}
  <2>1. Script[n].do = "read" /\ Script[n].line = "waiting"
    BY <1>2
  <2>2. /\ ReadsBefore[n + 1] = ReadsBefore[n] + 1 /\ ReadsBefore[n] + 1 \in Odd
        /\ ReadsBefore[n] \in 0 .. 10 /\ ReadsBefore[n + 1] \in 0 .. 11
    BY <1>2 DEF Odd
  <2>. QED BY <1>2, <2>1, <2>2 DEF LineAt
<1>3. CASE n \in {3, 5, 8, 11, 13}
  <2>1. Script[n].do = "read" /\ Script[n].line = "connected"
    BY <1>3
  <2>2. /\ ReadsBefore[n + 1] = ReadsBefore[n] + 1 /\ ReadsBefore[n] + 1 \notin Odd
        /\ ReadsBefore[n] \in 0 .. 10 /\ ReadsBefore[n + 1] \in 0 .. 11
    BY <1>3 DEF Odd
  <2>. QED BY <1>3, <2>1, <2>2 DEF LineAt
<1>4. CASE n = 14
  BY <1>4
<1>. QED BY <1>1, <1>2, <1>3, <1>4

-----------------------------------------------------------------------------
(* Types.                                                                  *)

\* Something is buffered only while main waits in accept().
BufferedInAccept == buf # <<>> => main = "accept"

\* Every step of the whole is a step of the server and its clients, or none.
LEMMA StepOfServer ==
  ASSUME HarnessTypeOK, [HarnessNext]_allVars
  PROVE  [Next]_vars
<1>1. CASE ClientConnects
  <2>1. step \in 1 .. 14
    BY <1>1, ScriptIs DEF ClientConnects, Finished, HarnessTypeOK
  <2>2. opened + 1 \in 1 .. Len(Script[step].conns) /\ Script[step].do = "client"
    <3>1. Script[step].do = "client" /\ opened < Len(Script[step].conns) /\ opened \in 0 .. 2
      BY <1>1 DEF ClientConnects, HarnessTypeOK
    <3>2. Len(Script[step].conns) \in {1, 2}
      BY <2>1, <3>1, StepIs
    <3>. QED BY <3>1, <3>2
  <2>3. Script[step].conns[opened + 1] \in Conns
    BY <2>1, <2>2, StepIs
  <2>. QED BY <1>1, <2>3 DEF ClientConnects, Next
<1>2. CASE ClientPrints \/ ClientRefused \/ ReadLine \/ ReadEnd
  BY <1>2 DEF ClientPrints, ClientRefused, ReadLine, ReadEnd
<1>3. CASE ServerStep
  BY <1>3 DEF ServerStep, PrintWaiting, PrintConnected, Next, MainStep
<1>. QED BY <1>1, <1>2, <1>3 DEF HarnessNext, ScriptStep, allVars

\* A step of neither printing nor accepting.
LEMMA KeepsTypes ==
  ASSUME HarnessTypeOK, BufferedInAccept, UNCHANGED <<main, buf, pipe>>,
         step' \in 1 .. 15, opened' \in 0 .. 2, surprised' \in BOOLEAN
  PROVE  HarnessTypeOK' /\ BufferedInAccept'
BY ScriptIs DEF HarnessTypeOK, BufferedInAccept

\* A step of the script keeps the types.
LEMMA ScriptTypes ==
  ASSUME HarnessTypeOK, BufferedInAccept, ScriptStep
  PROVE  HarnessTypeOK' /\ BufferedInAccept'
<1>. USE ScriptIs DEF HarnessTypeOK, BufferedInAccept, Finished
<1>1. step \in 1 .. 14
  BY DEF ScriptStep, ClientConnects, ClientPrints, ClientRefused, ReadLine, ReadEnd
<1>2. CASE ClientConnects
  <2>1. Len(Script[step].conns) \in {1, 2}
    BY <1>1, <1>2, StepIs DEF ClientConnects
  <2>2. UNCHANGED <<main, buf, pipe, step, surprised>> /\ opened' = opened + 1
    BY <1>2 DEF ClientConnects, Connect, printVars
  <2>3. opened < Len(Script[step].conns) /\ opened \in 0 .. 2
    BY <1>2 DEF ClientConnects
  <2>. DEFINE l == Len(Script[step].conns)
  <2>4. opened' \in 0 .. 2
    <3>1. l \in {1, 2} /\ opened < l /\ opened \in 0 .. 2 /\ opened' = opened + 1
      BY <2>1, <2>2, <2>3
    <3>. HIDE DEF l, HarnessTypeOK, BufferedInAccept, Finished
    <3>. QED BY <3>1
  <2>5. step' \in 1 .. 15 /\ surprised' \in BOOLEAN
    BY <2>2
  <2>. QED BY <2>2, <2>4, <2>5, KeepsTypes
<1>3. CASE ClientPrints \/ ClientRefused
  <2>1. UNCHANGED <<main, buf, pipe>> /\ step' = step + 1 /\ opened' = 0
    BY <1>3 DEF ClientPrints, ClientRefused, printVars, vars, acceptVars
  <2>2. surprised' = surprised \/ surprised' = TRUE
    BY <1>3 DEF ClientPrints, ClientRefused
  <2>3. step' \in 1 .. 15 /\ opened' \in 0 .. 2
    BY <1>1, <2>1
  <2>4. surprised' \in BOOLEAN
    BY <2>2
  <2>. QED BY <2>1, <2>3, <2>4, KeepsTypes
<1>4. CASE ReadLine
  <2>1. Tail(pipe) \in Seq(Lines)
    BY <1>4 DEF ReadLine
  <2>2. surprised' \in BOOLEAN
    BY <1>4 DEF ReadLine
  <2>3. UNCHANGED <<main, buf, opened>> /\ step' = step + 1 /\ pipe' = Tail(pipe)
    BY <1>4 DEF ReadLine, vars, acceptVars
  <2>. QED BY <1>1, <2>1, <2>2, <2>3
<1>5. CASE ReadEnd
  BY <1>1, <1>5 DEF ReadEnd, printVars, vars, acceptVars
<1>. QED BY <1>2, <1>3, <1>4, <1>5 DEF ScriptStep

\* Printing keeps the types, whatever is flushed.
LEMMA FlushTypes ==
  ASSUME HarnessTypeOK, NEW l \in Lines, Flushed(l)
  PROVE  /\ pipe' \in Seq(Lines) /\ buf' = <<>>
         /\ Len(pipe') = Len(pipe) + Len(buf) + 1
<1>1. pipe \in Seq(Lines) /\ buf \in Seq(Lines)
  BY DEF HarnessTypeOK
<1>2. pipe \o buf \in Seq(Lines) /\ Len(pipe \o buf) = Len(pipe) + Len(buf)
  BY <1>1, ConcatProperties
<1>. DEFINE s == pipe \o buf
<1>3. pipe' = Append(s, l) /\ buf' = <<>>
  BY DEF Flushed
<1>. HIDE DEF s
<1>4. s \in Seq(Lines) /\ Len(s) = Len(pipe) + Len(buf)
  BY <1>2 DEF s
<1>. QED BY <1>3, <1>4

\* A step of the server keeps the types.
LEMMA ServerTypes ==
  ASSUME HarnessTypeOK, BufferedInAccept, ServerStep, UNCHANGED scriptVars
  PROVE  HarnessTypeOK' /\ BufferedInAccept'
<1>. USE DEF HarnessTypeOK, BufferedInAccept, scriptVars, printVars
<1>0. /\ {"waiting", "connected", "error", "terminated"} \subseteq Lines
      /\ <<>> \in Seq(Lines) /\ Len(<<>>) = 0
  BY DEF Lines
<1>1. CASE PrintWaiting
  <2>1. buf = <<>> \/ main = "accept"
    OBVIOUS
  <2>2. main = "check"
    BY <1>1 DEF PrintWaiting, CheckActive
  <2>3. CASE check_active
    <3>1. buf' = Append(<<>>, "waiting") /\ pipe' = pipe /\ main' = "accept"
      BY <1>1, <2>1, <2>2, <2>3 DEF PrintWaiting, CheckActive, Buffered
    <3>2. Append(<<>>, "waiting") \in Seq(Lines) /\ Len(Append(<<>>, "waiting")) = 1
      BY <1>0
    <3>. QED BY <3>1, <3>2
  <2>4. CASE ~check_active
    BY <1>1, <2>1, <2>2, <2>4 DEF PrintWaiting
  <2>. QED BY <2>3, <2>4
<1>2. CASE \E l \in Lines : Flushed(l)
  <2>1. pipe' \in Seq(Lines) /\ buf' = <<>>
    BY <1>2, FlushTypes
  <2>2. UNCHANGED <<step, opened, surprised>>
    OBVIOUS
  <2>. QED BY <1>0, <2>1, <2>2
<1>3. CASE UNCHANGED <<main, buf, pipe>>
  BY <1>3, KeepsTypes, ScriptIs
<1>4. CASE (Dispatch \/ AwaitShutdown) /\ UNCHANGED printVars
  <2>1. buf = <<>>
    BY <1>4 DEF Dispatch, AwaitShutdown
  <2>. QED BY <1>4, <2>1
<1>5. CASE (\E w \in Workers : WorkerStep(w)) /\ UNCHANGED printVars
  <2>1. UNCHANGED main
    BY <1>5 DEF WorkerStep, acceptVars, ServeConnection, AnnounceShutdown, ShutDown
  <2>. QED BY <1>3, <1>5, <2>1
<1>. QED BY <1>0, <1>1, <1>2, <1>4, <1>5 DEF ServerStep, PrintConnected

\* The variables of script and server always have their types; the server's
\* buffer never holds more than one line.
THEOREM HarnessTypeCorrect == HarnessSpec => [](HarnessTypeOK /\ BufferedInAccept)
<1>1. HarnessInit => HarnessTypeOK /\ BufferedInAccept
  <2>1. <<>> \in Seq(Lines) /\ Len(<<>>) = 0
    OBVIOUS
  <2>2. 1 \in 1 .. Len(Script) + 1 /\ 0 \in 0 .. 2
    BY ScriptIs
  <2>3. HarnessInit =>
          buf = <<>> /\ pipe = <<>> /\ step = 1 /\ opened = 0 /\ surprised = FALSE
    BY DEF HarnessInit
  <2>. SUFFICES ASSUME HarnessInit PROVE HarnessTypeOK /\ BufferedInAccept
    OBVIOUS
  <2>4. buf \in Seq(Lines) /\ pipe \in Seq(Lines) /\ Len(buf) <= 1 /\ buf = <<>>
    BY <2>1, <2>3
  <2>5. surprised \in BOOLEAN /\ step \in 1 .. Len(Script) + 1 /\ opened \in 0 .. 2
    BY <2>2, <2>3
  <2>. QED BY <2>4, <2>5 DEF HarnessTypeOK, BufferedInAccept
<1>2. HarnessTypeOK /\ BufferedInAccept /\ [HarnessNext]_allVars
        => HarnessTypeOK' /\ BufferedInAccept'
  <2>1. ASSUME HarnessTypeOK, BufferedInAccept, UNCHANGED allVars
        PROVE  HarnessTypeOK' /\ BufferedInAccept'
    BY <2>1 DEF HarnessTypeOK, BufferedInAccept, allVars, vars, acceptVars, printVars,
                scriptVars
  <2>. QED BY <2>1, ScriptTypes, ServerTypes DEF HarnessNext
<1>. QED BY <1>1, <1>2, PTL DEF HarnessSpec

\* The server and its clients are those of AcceptLoop.
LEMMA ServerOfAcceptLoop == HarnessSpec => Spec
<1>1. HarnessInit => Init
  BY DEF HarnessInit
<1>. QED BY <1>1, HarnessTypeCorrect, StepOfServer, PTL DEF HarnessSpec, Spec

-----------------------------------------------------------------------------
(* How many lines there can be.                                            *)

\* The connections the server has taken, each of which prints two lines.
Taken(c) == IF conn[c] \in {"open", "closed"} THEN 1 ELSE 0
Accepted == Taken(KeyConn) + Taken(RegConn) + Taken(GetConn) + Taken(ByeConn)

\* The lines that main has printed without a connection: that it waits for one,
\* and what it says when it is shut down.
SpareLines ==
  IF main = "accept" THEN 1
  ELSE IF halted \/ main \in {"join", "cleanup"} THEN 2 ELSE 0

Printed == LinesRead + Len(pipe) + Len(buf)
Counted == main # "exited" => Printed <= 2 * Accepted + SpareLines

\* Only a halted pool runs the shutdown handler.
SafeIsHalted == safe_shutdown => halted

LinesInv == Counted /\ SafeIsHalted

\* A connection that the server took stays taken while the process lives.
LEMMA TakenStays ==
  ASSUME Inv, [Next]_vars, ~Exit, NEW c \in Conns, conn[c] \in {"open", "closed"}
  PROVE  conn'[c] \in {"open", "closed"}
<1>. USE DEF Inv, TypeOK
<1>1. ASSUME NEW d \in Conns, Connect(d) PROVE conn'[c] = conn[c]
  BY <1>1 DEF Connect
<1>2. ASSUME AcceptConnection PROVE conn'[c] \in {"open", "closed"}
  BY <1>2 DEF AcceptConnection
<1>3. ASSUME NEW w \in Workers, ServeConnection(w) \/ ShutDown(w)
      PROVE  conn'[c] \in {"open", "closed"}
  BY <1>3 DEF ServeConnection, ShutDown, ShutDownListener
<1>. QED
  BY <1>1, <1>2, <1>3
  DEF Next, MainStep, WorkerStep, CheckActive, AcceptShutDown, AcceptFails, Dispatch,
      AwaitShutdown, AnnounceShutdown, vars, acceptVars

\* accept() takes a connection that was not taken before.
LEMMA AcceptTakes ==
  ASSUME Inv, AcceptConnection
  PROVE  \E h \in Conns : conn[h] = "backlog" /\ conn'[h] = "open"
<1>1. /\ Head(backlog) \in Conns /\ Occurs(Head(backlog), backlog)
  BY TailOnce DEF AcceptConnection, Inv, TypeOK, Owners, BacklogHolds
<1>2. conn[Head(backlog)] = "backlog"
  BY <1>1 DEF Inv, Owners, BacklogHolds
<1>3. conn'[Head(backlog)] = "open"
  BY <1>1 DEF AcceptConnection, Inv, TypeOK
<1>. QED BY <1>1, <1>2, <1>3

\* The number of connections taken grows, with each accept() at least by one.
LEMMA AcceptedGrows ==
  ASSUME Inv, [Next]_vars, ~Exit
  PROVE  /\ Accepted \in 0 .. 4 /\ Accepted' \in 0 .. 4
         /\ Accepted' >= Accepted
         /\ AcceptConnection => Accepted' >= Accepted + 1
<1>. DEFINE T == {KeyConn, RegConn, GetConn, ByeConn}
<1>1. T = Conns
  BY HarnessAssumption
<1>2. ASSUME NEW c \in T
      PROVE  Taken(c) \in {0, 1} /\ Taken(c)' \in {0, 1} /\ Taken(c) <= Taken(c)'
  BY <1>1, <1>2, TakenStays DEF Taken
<1>3. ASSUME AcceptConnection
      PROVE  \E h \in T : Taken(h) = 0 /\ Taken(h)' = 1
  <2>1. PICK h \in Conns : conn[h] = "backlog" /\ conn'[h] = "open"
    BY <1>3, AcceptTakes
  <2>2. Taken(h) = 0 /\ Taken(h)' = 1
    BY <2>1 DEF Taken
  <2>. QED BY <1>1, <2>1, <2>2
<1>. HIDE DEF Taken
<1>4. /\ Accepted \in 0 .. 4 /\ Accepted' \in 0 .. 4 /\ Accepted' >= Accepted
  BY <1>2 DEF Accepted
<1>5. AcceptConnection => Accepted' >= Accepted + 1
  BY <1>2, <1>3 DEF Accepted
<1>. QED BY <1>4, <1>5

\* safe_shutdown is set by a worker that has halted the pool.
LEMMA NextSafeIsHalted ==
  ASSUME Inv, SafeIsHalted, [Next]_vars
  PROVE  SafeIsHalted'
<1>. USE DEF SafeIsHalted
<1>1. ASSUME NEW w \in Workers, AnnounceShutdown(w) PROVE SafeIsHalted'
  BY <1>1 DEF AnnounceShutdown, Inv, Control, HaltedFirst
<1>2. ASSUME NEW w \in Workers, PoolStep(w), UNCHANGED acceptVars PROVE SafeIsHalted'
  BY <1>2
  DEF PoolStep, Top, Acquire, Pop, SkipWait, DecideToWait, Sleep, SpuriousWakeup, Resume,
      Halt, NotifyAll, acceptVars
<1>. QED
  BY <1>1, <1>2
  DEF Next, MainStep, WorkerStep, Connect, CheckActive, AcceptConnection, AcceptShutDown,
      AcceptFails, Dispatch, AwaitShutdown, Exit, ServeConnection, ShutDown, Return,
      service_connection, vars, poolVars, acceptVars

\* A bound on the lines stays one: nothing is printed, or a spare line, or a line
\* of a connection that is taken.
LEMMA Balance ==
  ASSUME NEW p \in Nat, NEW q, NEW a \in 0 .. 4, NEW b \in 0 .. 4,
         NEW s \in 0 .. 2, NEW t \in 0 .. 2,
         p <= 2 * a + s,
         \/ q = p /\ b >= a /\ t >= s
         \/ q = p + 1 /\ b >= a /\ t >= s + 1
         \/ q = p + 1 /\ b >= a + 1 /\ t + 1 >= s
  PROVE  q <= 2 * b + t
OBVIOUS

\* What a step of the script does to the counts.
LEMMA ScriptCounts ==
  ASSUME HarnessTypeOK, ScriptStep, main # "exited"
  PROVE  /\ LinesRead + Len(pipe) + Len(buf) \in Nat
         /\ LinesRead' + Len(pipe') + Len(buf') = LinesRead + Len(pipe) + Len(buf)
         /\ UNCHANGED <<main, halted, buf>> /\ ~Exit
<1>1. step \in 1 .. 14
  BY ScriptIs
  DEF ScriptStep, ClientConnects, ClientPrints, ClientRefused, ReadLine, ReadEnd, Finished,
      HarnessTypeOK
<1>2. LinesRead \in 0 .. 10 /\ Len(pipe) \in Nat /\ Len(buf) \in Nat
  <2>1. LinesRead \in 0 .. 10
    BY <1>1, StepIs DEF LinesRead
  <2>2. Len(pipe) \in Nat /\ Len(buf) \in Nat
    BY DEF HarnessTypeOK
  <2>. QED BY <2>1, <2>2
<1>3. LinesRead' = ReadsBefore[step']
  BY DEF LinesRead, ReadsBefore
<1>4. CASE ClientConnects
  <2>1. UNCHANGED <<main, halted, buf, pipe, step>>
    BY <1>4 DEF ClientConnects, Connect, printVars, poolVars
  <2>2. LinesRead' = LinesRead
    BY <1>3, <2>1 DEF LinesRead
  <2>3. ~Exit
    BY <2>1 DEF Exit
  <2>4. Len(pipe') = Len(pipe) /\ Len(buf') = Len(buf)
    BY <2>1
  <2>. HIDE DEF LinesRead
  <2>. QED BY <1>2, <2>1, <2>2, <2>3, <2>4
<1>5. CASE ClientPrints \/ ClientRefused
  <2>1. UNCHANGED <<main, halted, buf, pipe>> /\ step' = step + 1
    BY <1>5 DEF ClientPrints, ClientRefused, printVars, vars, acceptVars, poolVars
  <2>2. Script[step].do = "client"
    BY <1>5 DEF ClientPrints, ClientRefused
  <2>3. LinesRead' = LinesRead
    BY <1>1, <1>3, <2>1, <2>2, StepIs DEF LinesRead
  <2>4. ~Exit
    BY <2>1 DEF Exit
  <2>5. Len(pipe') = Len(pipe) /\ Len(buf') = Len(buf)
    BY <2>1
  <2>. QED BY <1>2, <2>1, <2>3, <2>4, <2>5
<1>6. CASE ReadLine
  <2>1. UNCHANGED <<main, halted, buf>> /\ step' = step + 1 /\ pipe' = Tail(pipe)
    BY <1>6 DEF ReadLine, vars, acceptVars, poolVars
  <2>2. Script[step].do = "read" /\ pipe # <<>> /\ pipe \in Seq(Lines)
    BY <1>6 DEF ReadLine, HarnessTypeOK
  <2>3. LinesRead' = LinesRead + 1
    BY <1>1, <1>3, <2>1, <2>2, StepIs DEF LinesRead
  <2>4. Len(pipe') = Len(pipe) - 1
    BY <2>1, <2>2
  <2>5. ~Exit
    BY <2>1 DEF Exit
  <2>6. Len(buf') = Len(buf)
    BY <2>1
  <2>7. LinesRead' + Len(pipe') + Len(buf') = LinesRead + Len(pipe) + Len(buf)
    <3>1. ReadsBefore[step'] = LinesRead + 1
      BY <1>3, <2>3
    <3>2. ReadsBefore[step'] + Len(pipe') + Len(buf') = LinesRead + Len(pipe) + Len(buf)
      BY <1>2, <2>4, <2>6, <3>1
    <3>. QED BY <1>3, <3>2, Zenon
  <2>. QED BY <1>2, <2>1, <2>5, <2>7
<1>7. CASE ReadEnd
  BY <1>7 DEF ReadEnd
<1>. QED BY <1>4, <1>5, <1>6, <1>7 DEF ScriptStep

\* The script reads what was printed: it prints nothing.
LEMMA ScriptCounted ==
  ASSUME HarnessTypeOK, Inv, [Next]_vars, Counted, ScriptStep
  PROVE  Counted'
<1>1. CASE main = "exited"
  <2>1. main' = "exited"
    BY <1>1 DEF ScriptStep, ClientConnects, ClientPrints, ClientRefused, ReadLine, ReadEnd,
                Connect, vars, acceptVars
  <2>. QED BY <2>1 DEF Counted
<1>2. CASE main # "exited"
  <2>1. /\ LinesRead + Len(pipe) + Len(buf) \in Nat
        /\ LinesRead' + Len(pipe') + Len(buf') = LinesRead + Len(pipe) + Len(buf)
        /\ UNCHANGED <<main, halted, buf>> /\ ~Exit
    BY <1>2, ScriptCounts
  <2>2. Printed \in Nat /\ Printed' = Printed
    BY <2>1 DEF Printed
  <2>3. SpareLines \in 0 .. 2 /\ SpareLines' \in 0 .. 2 /\ SpareLines' >= SpareLines
    BY <2>1 DEF SpareLines
  <2>4. Accepted \in 0 .. 4 /\ Accepted' \in 0 .. 4 /\ Accepted' >= Accepted
    BY <2>1, AcceptedGrows
  <2>5. Printed <= 2 * Accepted + SpareLines
    BY <1>2 DEF Counted
  <2>6. Printed' <= 2 * Accepted' + SpareLines'
    BY <2>2, <2>3, <2>4, <2>5, Balance, Zenon
  <2>. QED BY <2>6 DEF Counted
<1>. QED BY <1>1, <1>2

\* What is printed when a line is flushed.
LEMMA FlushCounts ==
  ASSUME HarnessTypeOK, NEW l \in Lines, Flushed(l), UNCHANGED scriptVars
  PROVE  Printed \in Nat /\ Printed' = Printed + 1
<1>1. /\ Len(pipe') = Len(pipe) + Len(buf) + 1 /\ Len(buf') = 0
      /\ Len(pipe) \in Nat /\ Len(buf) \in Nat
  BY FlushTypes DEF HarnessTypeOK
<1>2. LinesRead \in Nat /\ LinesRead' = LinesRead
  BY ScriptIs DEF LinesRead, ReadsBefore, HarnessTypeOK, scriptVars
<1>. QED BY <1>1, <1>2 DEF Printed

\* What is printed when nothing is.
LEMMA QuietCounts ==
  ASSUME HarnessTypeOK, UNCHANGED printVars, UNCHANGED scriptVars
  PROVE  Printed \in Nat /\ Printed' = Printed
<1>1. /\ Len(pipe') = Len(pipe) /\ Len(buf') = Len(buf)
      /\ Len(pipe) \in Nat /\ Len(buf) \in Nat
  BY DEF HarnessTypeOK, printVars
<1>2. LinesRead \in Nat /\ LinesRead' = LinesRead
  BY ScriptIs DEF LinesRead, ReadsBefore, HarnessTypeOK, scriptVars
<1>. QED BY <1>1, <1>2 DEF Printed

\* What is printed when main starts to wait.
LEMMA WaitCounts ==
  ASSUME HarnessTypeOK, BufferedInAccept, main # "accept", Buffered("waiting"),
         UNCHANGED scriptVars
  PROVE  Printed \in Nat /\ Printed' = Printed + 1
<1>1. buf = <<>> /\ buf' = Append(<<>>, "waiting") /\ pipe' = pipe
  BY DEF BufferedInAccept, Buffered
<1>2. Len(buf) = 0 /\ Len(buf') = 1 /\ Len(pipe') = Len(pipe) /\ Len(pipe) \in Nat
  BY <1>1 DEF HarnessTypeOK
<1>3. LinesRead \in Nat /\ LinesRead' = LinesRead
  BY ScriptIs DEF LinesRead, ReadsBefore, HarnessTypeOK, scriptVars
<1>. QED BY <1>2, <1>3 DEF Printed

\* main prints no more than two lines for each connection and its spare ones.
LEMMA ServerCounted ==
  ASSUME HarnessTypeOK, BufferedInAccept, Inv, [Next]_vars, LinesInv, ServerStep,
         UNCHANGED scriptVars
  PROVE  Counted'
<1>. SUFFICES ASSUME main' # "exited" PROVE Printed' <= 2 * Accepted' + SpareLines'
  BY DEF Counted
<1>0. {"waiting", "connected", "error", "terminated"} \subseteq Lines
  BY DEF Lines
<1>1. ~Exit
  BY DEF Exit
<1>2. /\ Accepted \in 0 .. 4 /\ Accepted' \in 0 .. 4 /\ Accepted' >= Accepted
      /\ AcceptConnection => Accepted' >= Accepted + 1
  BY <1>1, AcceptedGrows
<1>3. main # "exited" => Printed <= 2 * Accepted + SpareLines
  BY DEF LinesInv, Counted
<1>4. CASE PrintWaiting
  <2>1. main = "check" /\ UNCHANGED halted
    BY <1>4 DEF PrintWaiting, CheckActive, poolVars
  <2>2. CASE check_active
    <3>1. main' = "accept" /\ ~halted
      BY <1>4, <2>2 DEF PrintWaiting, CheckActive, check_active
    <3>2. SpareLines \in 0 .. 2 /\ SpareLines' \in 0 .. 2 /\ SpareLines' >= SpareLines + 1
      BY <2>1, <3>1 DEF SpareLines
    <3>3. Buffered("waiting")
      BY <1>4, <2>2 DEF PrintWaiting
    <3>4. Printed \in Nat /\ Printed' = Printed + 1
      BY <2>1, <3>3, WaitCounts
    <3>5. Printed <= 2 * Accepted + SpareLines
      BY <1>3, <2>1
    <3>. QED BY <1>2, <3>2, <3>4, <3>5, Balance, Zenon
  <2>3. CASE ~check_active
    <3>1. main' = "join" /\ halted
      BY <1>4, <2>3 DEF PrintWaiting, CheckActive, check_active, Inv, TypeOK, PoolTypeOK
    <3>2. SpareLines \in 0 .. 2 /\ SpareLines' \in 0 .. 2 /\ SpareLines' >= SpareLines
      BY <2>1, <3>1 DEF SpareLines
    <3>3. Printed \in Nat /\ Printed' = Printed
      BY <1>4, <2>3, QuietCounts DEF PrintWaiting
    <3>4. Printed <= 2 * Accepted + SpareLines
      BY <1>3, <2>1
    <3>. QED BY <1>2, <3>2, <3>3, <3>4, Balance, Zenon
  <2>. QED BY <2>2, <2>3
<1>5. CASE AcceptConnection /\ Flushed("connected")
  <2>1. main = "accept" /\ main' = "dispatch"
    BY <1>5 DEF AcceptConnection
  <2>2. SpareLines \in 0 .. 2 /\ SpareLines' \in 0 .. 2 /\ SpareLines' + 1 >= SpareLines
    BY <2>1 DEF SpareLines
  <2>3. Printed \in Nat /\ Printed' = Printed + 1
    BY <1>0, <1>5, FlushCounts
  <2>4. Printed <= 2 * Accepted + SpareLines
    BY <1>3, <2>1
  <2>5. Accepted' >= Accepted + 1
    BY <1>2, <1>5
  <2>. QED BY <1>2, <2>2, <2>3, <2>4, <2>5, Balance, Zenon
<1>6. CASE (AcceptShutDown \/ AcceptFails) /\ \E l \in Lines : Flushed(l)
  <2>1. main = "accept" /\ UNCHANGED halted
    BY <1>6 DEF AcceptShutDown, AcceptFails, poolVars
  <2>2. main' = "join" \/ (main' = "dispatch" /\ halted')
    BY <1>6, <2>1 DEF AcceptShutDown, AcceptFails, LinesInv, SafeIsHalted
  <2>3. SpareLines \in 0 .. 2 /\ SpareLines' \in 0 .. 2 /\ SpareLines' >= SpareLines + 1
    BY <2>1, <2>2 DEF SpareLines
  <2>4. Printed \in Nat /\ Printed' = Printed + 1
    BY <1>6, FlushCounts
  <2>5. Printed <= 2 * Accepted + SpareLines
    BY <1>3, <2>1
  <2>. QED BY <1>2, <2>3, <2>4, <2>5, Balance, Zenon
<1>7. CASE Dispatch /\ UNCHANGED printVars
  <2>1. main = "dispatch" /\ main' = "check" /\ UNCHANGED halted
    BY <1>7 DEF Dispatch, service_connection
  <2>2. SpareLines \in 0 .. 2 /\ SpareLines' \in 0 .. 2 /\ SpareLines' >= SpareLines
    BY <2>1 DEF SpareLines
  <2>3. Printed \in Nat /\ Printed' = Printed
    BY <1>7, QuietCounts
  <2>4. Printed <= 2 * Accepted + SpareLines
    BY <1>3, <2>1
  <2>. QED BY <1>2, <2>2, <2>3, <2>4, Balance, Zenon
<1>8. CASE AwaitShutdown /\ UNCHANGED printVars
  <2>1. main = "join" /\ main' = "cleanup"
    BY <1>8 DEF AwaitShutdown
  <2>2. SpareLines \in 0 .. 2 /\ SpareLines' \in 0 .. 2 /\ SpareLines' >= SpareLines
    BY <2>1 DEF SpareLines
  <2>3. Printed \in Nat /\ Printed' = Printed
    BY <1>8, QuietCounts
  <2>4. Printed <= 2 * Accepted + SpareLines
    BY <1>3, <2>1
  <2>. QED BY <1>2, <2>2, <2>3, <2>4, Balance, Zenon
<1>9. CASE (\E w \in Workers : WorkerStep(w)) /\ UNCHANGED printVars
  <2>1. UNCHANGED main
    BY <1>9 DEF WorkerStep, acceptVars, ServeConnection, AnnounceShutdown, ShutDown
  <2>2. halted => halted'
    BY <1>9
    DEF WorkerStep, PoolStep, Top, Acquire, Pop, SkipWait, DecideToWait, Sleep,
        SpuriousWakeup, Resume, Halt, NotifyAll, ServeConnection, Return, AnnounceShutdown,
        ShutDown
  <2>3. SpareLines \in 0 .. 2 /\ SpareLines' \in 0 .. 2 /\ SpareLines' >= SpareLines
    BY <2>1, <2>2 DEF SpareLines
  <2>4. Printed \in Nat /\ Printed' = Printed
    BY <1>9, QuietCounts
  <2>5. main # "exited"
    BY <2>1
  <2>6. Printed <= 2 * Accepted + SpareLines
    BY <1>3, <2>5
  <2>. QED BY <1>2, <2>3, <2>4, <2>6, Balance, Zenon
<1>. QED
  BY <1>0, <1>1, <1>4, <1>5, <1>6, <1>7, <1>8, <1>9 DEF ServerStep, PrintConnected

\* What is printed is always bounded by what was accepted.
LEMMA AlwaysCounted == HarnessSpec => []LinesInv
<1>1. HarnessInit => LinesInv
  <2>. SUFFICES ASSUME HarnessInit PROVE LinesInv
    OBVIOUS
  <2>1. /\ step = 1 /\ Len(pipe) = 0 /\ Len(buf) = 0 /\ main = "check"
        /\ safe_shutdown = FALSE /\ \A c \in Conns : conn[c] = "new"
    BY DEF HarnessInit, Init
  <2>2. LinesRead = 0
    BY <2>1 DEF LinesRead, ReadsBefore
  <2>3. Printed = 0
    BY <2>1, <2>2 DEF Printed
  <2>4. Accepted = 0
    BY <2>1, HarnessAssumption DEF Accepted, Taken
  <2>5. SpareLines \in {0, 2}
    BY <2>1 DEF SpareLines
  <2>. QED BY <2>1, <2>3, <2>4, <2>5 DEF LinesInv, Counted, SafeIsHalted
<1>2. HarnessTypeOK /\ BufferedInAccept /\ Inv /\ LinesInv
        /\ [HarnessNext]_allVars /\ [Next]_vars
        => LinesInv'
  <2>1. ASSUME LinesInv, UNCHANGED allVars PROVE LinesInv'
    BY <2>1
    DEF LinesInv, Counted, SafeIsHalted, Printed, LinesRead, ReadsBefore, Accepted, Taken,
        SpareLines, allVars, vars, poolVars, acceptVars, printVars, scriptVars
  <2>. SUFFICES ASSUME HarnessTypeOK, BufferedInAccept, Inv, LinesInv,
                       [HarnessNext]_allVars, [Next]_vars
                PROVE  LinesInv'
    OBVIOUS
  <2>2. SafeIsHalted'
    BY NextSafeIsHalted DEF LinesInv
  <2>3. Counted'
    BY <2>1, ScriptCounted, ServerCounted DEF HarnessNext, LinesInv
  <2>. QED BY <2>2, <2>3 DEF LinesInv
<1>3. HarnessSpec => []Inv
  BY ServerOfAcceptLoop, Invariance
<1>. QED
  BY <1>1, <1>2, <1>3, HarnessTypeCorrect, StepOfServer, PTL DEF HarnessSpec

\* A script that has finished has read eleven lines; a server that has not
\* ended can have printed ten at most, eight of them for the four connections.
THEOREM ScriptLeavesNoServer == HarnessSpec => []NoServerLeft
<1>1. ASSUME HarnessTypeOK, LinesInv, Inv PROVE NoServerLeft
  <2>. SUFFICES ASSUME Finished, main # "exited" PROVE FALSE
    BY DEF NoServerLeft
  <2>1. step = 15
    BY <1>1, ScriptIs DEF Finished, HarnessTypeOK
  <2>2. LinesRead = 11
    BY <2>1 DEF LinesRead, ReadsBefore
  <2>3. Printed >= 11 /\ Printed \in Nat
    BY <1>1, <2>2 DEF Printed, HarnessTypeOK
  <2>4. SpareLines \in 0 .. 2
    BY DEF SpareLines
  <2>5. Accepted \in 0 .. 4
    BY DEF Accepted, Taken
  <2>6. Printed <= 2 * Accepted + SpareLines
    BY <1>1 DEF LinesInv, Counted
  <2>. HIDE DEF Printed, SpareLines, Accepted
  <2>. QED BY <2>3, <2>4, <2>5, <2>6
<1>2. HarnessSpec => []Inv
  BY ServerOfAcceptLoop, Invariance
<1>. QED BY <1>1, <1>2, AlwaysCounted, HarnessTypeCorrect, PTL

-----------------------------------------------------------------------------
(* The lines come as the script expects them.                              *)

\* After r lines were read, p holds the next ones, both of each connection.
Expected(r, p) ==
  /\ r + Len(p) \in {0, 2, 4, 6, 8}
  /\ \A i \in 1 .. Len(p) : p[i] = LineAt(r + i)

Running == ~halted /\ listener # "none"

\* What holds until a client has stopped the server, if it got its port.
Calm == Running =>
  /\ surprised = FALSE
  /\ listener = "listening" /\ main \in {"check", "accept", "dispatch"}
  /\ buf = IF main = "accept" THEN <<"waiting">> ELSE <<>>
  /\ Expected(LinesRead, pipe)

\* Reading a line that was expected.
LEMMA ExpectedTail ==
  ASSUME NEW r \in 0 .. 11, NEW p \in Seq(Lines), p # <<>>, Expected(r, p)
  PROVE  r # 10 /\ Head(p) = LineAt(r + 1) /\ Expected(r + 1, Tail(p))
<1>1. /\ Tail(p) \in Seq(Lines) /\ Len(Tail(p)) = Len(p) - 1
      /\ \A i \in 1 .. Len(Tail(p)) : Tail(p)[i] = p[i + 1]
  BY HeadTailProperties
<1>2. Len(p) \in Nat /\ Len(p) >= 1 /\ Head(p) = p[1]
  OBVIOUS
<1>3. r # 10 /\ (r + 1) + Len(Tail(p)) \in {0, 2, 4, 6, 8}
  BY <1>1, <1>2 DEF Expected
<1>4. ASSUME NEW i \in 1 .. Len(Tail(p)) PROVE Tail(p)[i] = LineAt((r + 1) + i)
  <2>1. i + 1 \in 1 .. Len(p) /\ r + (i + 1) = (r + 1) + i
    BY <1>1, <1>2
  <2>2. p[i + 1] = LineAt(r + (i + 1))
    BY <2>1 DEF Expected
  <2>. QED BY <1>1, <2>1, <2>2
<1>5. Head(p) = LineAt(r + 1)
  BY <1>2 DEF Expected
<1>. QED BY <1>3, <1>4, <1>5 DEF Expected

\* Printing both lines of a connection.
LEMMA ExpectedFlush ==
  ASSUME NEW r \in 0 .. 11, NEW p \in Seq(Lines), Expected(r, p), r + Len(p) # 8
  PROVE  Expected(r, Append(p \o <<"waiting">>, "connected"))
<1>. DEFINE w == <<"waiting">>
            s == p \o w
            u == Append(s, "connected")
<1>0. "waiting" \in Lines /\ "connected" \in Lines
  BY DEF Lines
<1>1. w \in Seq(Lines) /\ Len(w) = 1 /\ w[1] = "waiting"
  BY <1>0
<1>. HIDE DEF w
<1>2. s \in Seq(Lines) /\ Joined(s, p, w)
  BY <1>1, Joins
<1>. HIDE DEF s
<1>3. /\ Len(u) = Len(s) + 1 /\ u[Len(s) + 1] = "connected"
      /\ \A i \in 1 .. Len(s) : u[i] = s[i]
  BY <1>0, <1>2, AppendProperties
<1>. HIDE DEF u
<1>4. Len(p) \in Nat /\ Len(s) = Len(p) + 1 /\ Len(u) = Len(p) + 2
  BY <1>1, <1>2, <1>3 DEF Joined
<1>5. r + Len(p) \in {0, 2, 4, 6} /\ r + Len(u) \in {0, 2, 4, 6, 8}
  BY <1>4 DEF Expected
<1>6. /\ r + (Len(p) + 1) \in Odd /\ r + (Len(p) + 2) \notin Odd
  BY <1>4, <1>5 DEF Odd
<1>7. ASSUME NEW i \in 1 .. Len(u) PROVE u[i] = LineAt(r + i)
  <2>1. CASE i \in 1 .. Len(p)
    <3>1. u[i] = p[i]
      BY <1>3, <1>4, <1>2, <1>1, <2>1 DEF Joined
    <3>2. p[i] = LineAt(r + i)
      BY <2>1 DEF Expected
    <3>. QED BY <3>1, <3>2
  <2>2. CASE i = Len(p) + 1
    <3>1. u[i] = s[i] /\ s[i] = w[1]
      BY <1>1, <1>2, <1>3, <1>4, <2>2 DEF Joined
    <3>. QED BY <1>1, <1>6, <2>2, <3>1 DEF LineAt
  <2>3. CASE i = Len(p) + 2
    <3>1. u[i] = "connected"
      BY <1>3, <1>4, <2>3
    <3>. QED BY <1>6, <2>3, <3>1 DEF LineAt
  <2>. QED BY <1>4, <2>1, <2>2, <2>3
<1>. QED BY <1>5, <1>7 DEF Expected, u, s, w

\* A server that is running was running before.
LEMMA RunningBefore ==
  ASSUME Inv, [Next]_vars, Workers # {}, Running'
  PROVE  Running
<1>1. halted => halted'
  BY DEF Next, MainStep, WorkerStep, PoolStep, Top, Acquire, Pop, SkipWait, DecideToWait,
         Sleep, SpuriousWakeup, Resume, Halt, NotifyAll, Connect, CheckActive,
         AcceptConnection, AcceptShutDown, AcceptFails, Dispatch, service_connection,
         AwaitShutdown, Exit, ServeConnection, Return, AnnounceShutdown, ShutDown, vars,
         poolVars, acceptVars
<1>2. ASSUME Exit PROVE halted
  <2>1. PICK w \in Workers : TRUE
    OBVIOUS
  <2>2. worker[w] = "done"
    BY <1>2, <2>1 DEF Exit, Inv, Control, QuiescentCleanup, AllDone
  <2>. QED BY <2>1, <2>2 DEF Inv, Control, HaltedFirst
<1>3. listener = "none" /\ ~Exit => listener' = "none"
  BY DEF Next, MainStep, WorkerStep, Connect, CheckActive, AcceptConnection,
         AcceptShutDown, AcceptFails, Dispatch, AwaitShutdown, ServeConnection,
         AnnounceShutdown, ShutDown, ShutDownListener, vars, acceptVars
<1>. QED BY <1>1, <1>2, <1>3 DEF Running

\* While the server runs, the script reads what it expects.
LEMMA ScriptIsCalm ==
  ASSUME HarnessTypeOK, Calm, Running, ScriptStep
  PROVE  Calm'
<1>0. /\ surprised = FALSE /\ listener = "listening"
      /\ main \in {"check", "accept", "dispatch"}
      /\ buf = IF main = "accept" THEN <<"waiting">> ELSE <<>>
      /\ Expected(LinesRead, pipe)
  BY DEF Calm
<1>1. step \in 1 .. 14
  BY ScriptIs
  DEF ScriptStep, ClientConnects, ClientPrints, ClientRefused, ReadLine, ReadEnd, Finished,
      HarnessTypeOK
<1>2. LinesRead' = ReadsBefore[step']
  BY DEF LinesRead, ReadsBefore
<1>3. ASSUME UNCHANGED <<main, listener, buf, surprised>>, Expected(ReadsBefore[step'], pipe')
      PROVE  Calm'
  <2>1. Expected(LinesRead, pipe)'
    BY <1>2, <1>3 DEF Expected
  <2>. QED BY <1>0, <1>3, <2>1 DEF Calm
<1>4. CASE ClientConnects
  <2>1. UNCHANGED <<main, listener, buf, pipe, step, surprised>>
    BY <1>4 DEF ClientConnects, Connect, printVars
  <2>2. Expected(ReadsBefore[step'], pipe')
    BY <1>0, <2>1 DEF LinesRead
  <2>. QED BY <1>3, <2>1, <2>2
<1>5. CASE ClientPrints
  <2>1. /\ UNCHANGED <<main, listener, buf, pipe, surprised>> /\ step' = step + 1
        /\ Script[step].do = "client"
    BY <1>5 DEF ClientPrints, printVars, vars, acceptVars
  <2>2. ReadsBefore[step'] = LinesRead
    BY <1>1, <2>1, StepIs DEF LinesRead
  <2>3. Expected(ReadsBefore[step'], pipe')
    BY <1>0, <2>1, <2>2
  <2>. QED BY <1>3, <2>1, <2>3
<1>6. CASE ReadLine
  <2>1. /\ UNCHANGED <<main, listener, buf>> /\ step' = step + 1 /\ pipe' = Tail(pipe)
        /\ Script[step].do = "read" /\ pipe # <<>>
    BY <1>6 DEF ReadLine, vars, acceptVars
  <2>2. LinesRead \in 0 .. 11 /\ pipe \in Seq(Lines)
    BY <1>1, StepIs DEF LinesRead, HarnessTypeOK
  <2>3. /\ LinesRead # 10 /\ Head(pipe) = LineAt(LinesRead + 1)
        /\ Expected(LinesRead + 1, pipe')
    BY <1>0, <2>1, <2>2, ExpectedTail
  <2>4. /\ ReadsBefore[step'] = LinesRead + 1
        /\ Script[step].line = LineAt(LinesRead + 1)
    BY <1>1, <2>1, <2>3, StepIs DEF LinesRead
  <2>5. surprised' = surprised
    BY <1>0, <1>6, <2>3, <2>4 DEF ReadLine
  <2>6. Expected(ReadsBefore[step'], pipe')
    BY <2>3, <2>4
  <2>. QED BY <1>3, <2>1, <2>5, <2>6
<1>7. CASE ClientRefused \/ ReadEnd
  BY <1>0, <1>7 DEF ClientRefused, ReadEnd
<1>. QED BY <1>4, <1>5, <1>6, <1>7 DEF ScriptStep

\* While the server runs, it prints both lines of each connection.
LEMMA ServerIsCalm ==
  ASSUME ~AcceptMayFail, HarnessTypeOK, Inv, [Next]_vars, Counted, Calm, Running,
         Running', ServerStep, UNCHANGED scriptVars
  PROVE  Calm'
<1>0. /\ surprised = FALSE /\ listener = "listening" /\ ~halted /\ ~halted'
      /\ main \in {"check", "accept", "dispatch"}
      /\ buf = IF main = "accept" THEN <<"waiting">> ELSE <<>>
      /\ Expected(LinesRead, pipe)
  BY DEF Calm, Running
<1>1. LinesRead \in 0 .. 11 /\ pipe \in Seq(Lines)
  BY ScriptIs DEF LinesRead, ReadsBefore, HarnessTypeOK
<1>2. LinesRead' = LinesRead /\ surprised' = surprised
  BY DEF LinesRead, ReadsBefore, scriptVars
<1>3. ASSUME listener' = "listening", main' \in {"check", "accept", "dispatch"},
             buf' = IF main' = "accept" THEN <<"waiting">> ELSE <<>>,
             Expected(LinesRead, pipe')
      PROVE  Calm'
  <2>1. Expected(LinesRead, pipe)'
    BY <1>2, <1>3 DEF Expected
  <2>. QED BY <1>0, <1>2, <1>3, <2>1 DEF Calm
<1>4. CASE PrintWaiting
  <2>1. /\ main = "check" /\ main' = "accept" /\ UNCHANGED <<listener, pipe>>
        /\ buf' = Append(buf, "waiting")
    BY <1>0, <1>4 DEF PrintWaiting, CheckActive, check_active, Buffered
  <2>2. buf' = <<"waiting">>
    BY <1>0, <2>1
  <2>. QED BY <1>0, <1>3, <2>1, <2>2
<1>5. CASE AcceptConnection /\ Flushed("connected")
  <2>1. main = "accept" /\ main' = "dispatch" /\ UNCHANGED listener
    BY <1>5 DEF AcceptConnection
  <2>2. pipe' = Append(pipe \o <<"waiting">>, "connected") /\ buf' = <<>>
    BY <1>0, <1>5, <2>1 DEF Flushed
  <2>3. LinesRead + Len(pipe) # 8
    <3>1. ~Exit
      BY <2>1 DEF Exit
    <3>2. Accepted \in 0 .. 4 /\ Accepted + 1 <= 4
      <4>1. /\ Accepted \in 0 .. 4 /\ Accepted' \in 0 .. 4 /\ Accepted' >= Accepted + 1
        BY <1>5, <3>1, AcceptedGrows
      <4>2. \A a, b \in 0 .. 4 : b >= a + 1 => a + 1 <= 4
        OBVIOUS
      <4>. QED BY <4>1, <4>2, Zenon
    <3>3. LinesRead + Len(pipe) + Len(buf) <= 2 * Accepted + 1
      BY <2>1 DEF Counted, Printed, SpareLines
    <3>4. Len(buf) = 1 /\ Len(pipe) \in Nat
      BY <1>0, <1>1, <2>1
    <3>. HIDE DEF Accepted
    <3>. QED BY <1>1, <3>2, <3>3, <3>4
  <2>4. Expected(LinesRead, pipe')
    BY <1>0, <1>1, <2>2, <2>3, ExpectedFlush
  <2>. QED BY <1>0, <1>3, <2>1, <2>2, <2>4
<1>6. CASE AcceptShutDown \/ AcceptFails
  BY <1>0, <1>6 DEF AcceptShutDown, AcceptFails
<1>7. CASE Dispatch /\ UNCHANGED printVars
  <2>1. /\ main = "dispatch" /\ main' = "check" /\ UNCHANGED <<listener, buf, pipe>>
    BY <1>7 DEF Dispatch, printVars
  <2>. QED BY <1>0, <1>3, <2>1
<1>8. CASE AwaitShutdown \/ Exit
  BY <1>0, <1>8 DEF AwaitShutdown, Exit
<1>9. CASE (\E w \in Workers : WorkerStep(w)) /\ UNCHANGED printVars
  <2>1. UNCHANGED <<main, buf, pipe>>
    BY <1>9
    DEF WorkerStep, acceptVars, ServeConnection, AnnounceShutdown, ShutDown, printVars
  <2>2. ASSUME NEW w \in Workers, WorkerStep(w) PROVE listener' = listener
    <3>1. ~ShutDown(w)
      BY <1>0 DEF ShutDown, Inv, Control, HaltedFirst
    <3>. QED BY <2>2, <3>1 DEF WorkerStep, acceptVars, ServeConnection, AnnounceShutdown
  <2>3. listener' = listener
    BY <1>9, <2>2
  <2>. QED BY <1>0, <1>3, <2>1, <2>3
<1>. QED
  BY <1>4, <1>5, <1>6, <1>7, <1>8, <1>9 DEF ServerStep, PrintConnected

\* Until the stop, pipe and buffer hold what the script expects.
LEMMA AlwaysCalm ==
  ASSUME ~AcceptMayFail, Workers # {}
  PROVE  HarnessSpec => []Calm
<1>1. HarnessInit => Calm
  <2>. SUFFICES ASSUME HarnessInit PROVE Calm
    OBVIOUS
  <2>1. /\ step = 1 /\ pipe = <<>> /\ buf = <<>> /\ main = "check" /\ surprised = FALSE
        /\ listener \in {"listening", "none"}
    BY DEF HarnessInit, Init
  <2>2. LinesRead = 0
    BY <2>1 DEF LinesRead, ReadsBefore
  <2>3. Expected(LinesRead, pipe)
    BY <2>1, <2>2 DEF Expected
  <2>. QED BY <2>1, <2>3 DEF Calm, Running
<1>2. HarnessTypeOK /\ Inv /\ LinesInv /\ Calm /\ [HarnessNext]_allVars /\ [Next]_vars
        => Calm'
  <2>. SUFFICES ASSUME HarnessTypeOK, Inv, LinesInv, Calm, [HarnessNext]_allVars,
                       [Next]_vars, Running'
                PROVE  Calm'
    BY DEF Calm
  <2>1. Running
    BY RunningBefore
  <2>2. CASE UNCHANGED allVars
    BY <2>2
    DEF Calm, Running, Expected, LinesRead, ReadsBefore, allVars, vars, poolVars,
        acceptVars, printVars, scriptVars
  <2>3. Counted
    BY DEF LinesInv
  <2>. QED BY <2>1, <2>2, <2>3, ScriptIsCalm, ServerIsCalm DEF HarnessNext
<1>3. HarnessSpec => []Inv
  BY ServerOfAcceptLoop, Invariance
<1>. QED
  BY <1>1, <1>2, <1>3, AlwaysCounted, HarnessTypeCorrect, StepOfServer, PTL
  DEF HarnessSpec

\* If accept() fails only when the listening socket was shut down, the script
\* reads the lines it expects until a client has stopped the server, however
\* many workers serve and however far the script lags behind.
THEOREM NoSurpriseBeforeStop ==
  ASSUME ~AcceptMayFail, Workers # {}
  PROVE  HarnessSpec => []SurprisedOnlyAtStop
<1>1. Calm => SurprisedOnlyAtStop
  BY DEF Calm, Running, SurprisedOnlyAtStop
<1>. QED BY <1>1, AlwaysCalm, PTL

-----------------------------------------------------------------------------
(* The script is never stuck: the part of ScriptFinishes that is not       *)
(* liveness.                                                               *)

\* The connections of the present client.
Present == Script[step].conns

\* The client opens its next connection, is refused, or prints its line, and
\* readline has a line to return or the end of the pipe.
ScriptMayGoOn ==
  \/ /\ Script[step].do = "client" /\ opened < Len(Present)
     /\ opened > 0 => Answered(Present[opened])
     /\ listener = "listening" => conn[Present[opened + 1]] = "new"
  \/ /\ Script[step].do = "client" /\ opened = Len(Present)
     /\ Answered(Present[opened])
  \/ Script[step].do = "read" /\ (pipe # <<>> \/ main = "exited")

\* Script, clients and server do not all wait for one another, if the server got
\* its port: no line is awaited that the server will not print.
ScriptIsNeverStuck ==
  ~Finished /\ listener # "none" /\ ~Detained =>
    ScriptMayGoOn \/ MainMayGoOn \/ \E w \in Workers : MayGoOn(w)

\* The script's four connections are four.
FourConns ==
  /\ KeyConn # RegConn /\ KeyConn # GetConn /\ KeyConn # ByeConn
  /\ RegConn # GetConn /\ RegConn # ByeConn /\ GetConn # ByeConn

Started(c) == conn[c] # "new"

\* The clients open their connections in the order of the script.
InTurn ==
  /\ step = 1 => /\ opened >= 1 <=> Started(KeyConn)
                 /\ opened = 2 <=> Started(RegConn)
  /\ step = 6 => opened <= 1 /\ (opened = 1 <=> Started(GetConn))
  /\ step = 9 => opened <= 1 /\ (opened = 1 <=> Started(ByeConn))
  /\ step \notin {1, 6, 9} => opened = 0
  /\ step < 6 => ~Started(GetConn)
  /\ step < 9 => ~Started(ByeConn)

\* Until the stop no client was refused, and the script has read, or has in the
\* pipe, both lines of each connection that was taken.
Met == Running =>
  /\ step > 1 => Started(KeyConn) /\ Started(RegConn)
  /\ step > 6 => Started(GetConn)
  /\ step > 9 => Started(ByeConn)
  /\ LinesRead + Len(pipe) = 2 * Accepted

\* A BYE that was served leads to a halt, and nobody is reset before that.
ByeHalts ==
  (\E c \in ByeConns : conn[c] = "closed") => halted \/ \E w \in Workers : worker[w] = "halt"
NoneReset == listener = "listening" => \A c \in Conns : conn[c] # "reset"

\* What the script does at each of its steps.
LEMMA PresentIs ==
  ASSUME HarnessTypeOK, ~Finished
  PROVE  /\ step \in 1 .. 14
         /\ Script[step].do = IF step \in {1, 6, 9} THEN "client" ELSE "read"
         /\ step = 1 => Len(Present) = 2 /\ Present[1] = KeyConn /\ Present[2] = RegConn
         /\ step = 6 => Len(Present) = 1 /\ Present[1] = GetConn
         /\ step = 9 => Len(Present) = 1 /\ Present[1] = ByeConn
<1>1. step \in 1 .. 14
  BY ScriptIs DEF HarnessTypeOK, Finished
<1>2. CASE step = 1
  BY <1>2, ScriptIs DEF Present, Client
<1>3. CASE step = 6
  BY <1>3, ScriptIs DEF Present, Client
<1>4. CASE step = 9
  BY <1>4, ScriptIs DEF Present, Client
<1>5. CASE step \in {2, 4, 7, 10, 12}
  BY <1>5, ScriptIs DEF Read
<1>6. CASE step \in {3, 5, 8, 11, 13}
  BY <1>6, ScriptIs DEF Read
<1>7. CASE step = 14
  BY <1>7, ScriptIs DEF Read
<1>. QED BY <1>1, <1>2, <1>3, <1>4, <1>5, <1>6, <1>7

\* The server starts no connection and forgets none.
LEMMA ServerStartsNone ==
  ASSUME Inv, MainStep \/ (\E w \in Workers : WorkerStep(w)), NEW c \in Conns
  PROVE  Started(c)' <=> Started(c)
<1>. USE DEF Started, Inv, TypeOK
<1>1. CASE AcceptConnection
  <2>1. Head(backlog) \in Conns /\ Occurs(Head(backlog), backlog)
    BY <1>1, TailOnce DEF AcceptConnection, Owners, BacklogHolds
  <2>2. conn[Head(backlog)] = "backlog"
    BY <2>1 DEF Owners, BacklogHolds
  <2>. QED BY <1>1, <2>1, <2>2 DEF AcceptConnection
<1>2. CASE Exit
  BY <1>2 DEF Exit
<1>3. ASSUME NEW w \in Workers, ServeConnection(w) PROVE Started(c)' <=> Started(c)
  <2>1. w \in Handling /\ main # "exited"
    BY <1>3 DEF ServeConnection, Return, Handling, Control, QuiescentCleanup, AllDone
  <2>2. held[w] \in Conns => conn[held[w]] = "open"
    BY <2>1 DEF Owners, OpenIffOwned, InHandler
  <2>. QED BY <1>3, <2>2 DEF ServeConnection
<1>4. ASSUME NEW w \in Workers, ShutDown(w) PROVE Started(c)' <=> Started(c)
  BY <1>4 DEF ShutDown, ShutDownListener
<1>. QED
  BY <1>1, <1>2, <1>3, <1>4
  DEF MainStep, WorkerStep, CheckActive, AcceptShutDown, AcceptFails, Dispatch,
      AwaitShutdown, AnnounceShutdown, acceptVars

\* The clients' part of the order.
LEMMA ScriptInTurn ==
  ASSUME FourConns, HarnessTypeOK, Inv, InTurn, ScriptStep
  PROVE  InTurn'
<1>. USE DEF FourConns
<1>1. ~Finished /\ opened \in 0 .. 2 /\ step \in 1 .. 14
  BY PresentIs
  DEF ScriptStep, ClientConnects, ClientPrints, ClientRefused, ReadLine, ReadEnd,
      HarnessTypeOK
<1>2. conn \in [Conns -> ConnStates] /\ {KeyConn, RegConn, GetConn, ByeConn} = Conns
  BY HarnessAssumption DEF Inv, TypeOK
<1>3. CASE ClientConnects
  <2>1. /\ step \in {1, 6, 9} /\ step' = step /\ opened' = opened + 1
        /\ opened < Len(Present) /\ Connect(Present[opened + 1])
    BY <1>1, <1>3, PresentIs DEF ClientConnects, Present
  <2>2. conn' = [conn EXCEPT ![Present[opened + 1]] = "backlog"]
    BY <2>1 DEF Connect
  <2>3. CASE step = 1 /\ opened = 0
    <3>1. opened + 1 = 1 /\ Present[1] = KeyConn
      BY <1>1, <2>3, PresentIs
    <3>2. conn' = [conn EXCEPT ![KeyConn] = "backlog"]
      BY <2>2, <3>1
    <3>. QED BY <1>2, <2>1, <2>3, <3>2 DEF InTurn, Started
  <2>4. CASE step = 1 /\ opened = 1
    <3>1. opened + 1 = 2 /\ Present[2] = RegConn
      BY <1>1, <2>4, PresentIs
    <3>2. conn' = [conn EXCEPT ![RegConn] = "backlog"]
      BY <2>2, <3>1
    <3>. QED BY <1>2, <2>1, <2>4, <3>2 DEF InTurn, Started
  <2>5. CASE step = 6 /\ opened = 0
    <3>1. opened + 1 = 1 /\ Present[1] = GetConn
      BY <1>1, <2>5, PresentIs
    <3>2. conn' = [conn EXCEPT ![GetConn] = "backlog"]
      BY <2>2, <3>1
    <3>. QED BY <1>2, <2>1, <2>5, <3>2 DEF InTurn, Started
  <2>6. CASE step = 9 /\ opened = 0
    <3>1. opened + 1 = 1 /\ Present[1] = ByeConn
      BY <1>1, <2>6, PresentIs
    <3>2. conn' = [conn EXCEPT ![ByeConn] = "backlog"]
      BY <2>2, <3>1
    <3>. QED BY <1>2, <2>1, <2>6, <3>2 DEF InTurn, Started
  <2>7. (step = 1 => opened < 2) /\ (step \in {6, 9} => opened < 1)
    BY <1>1, <2>1, PresentIs
  <2>. QED BY <1>1, <2>1, <2>3, <2>4, <2>5, <2>6, <2>7
<1>4. CASE ClientPrints \/ ClientRefused
  <2>1. step \in {1, 6, 9} /\ step' = step + 1 /\ opened' = 0 /\ conn' = conn
    BY <1>1, <1>4, PresentIs DEF ClientPrints, ClientRefused, vars, acceptVars
  <2>2. step' \in {2, 7, 10}
    BY <2>1
  <2>. QED BY <2>1, <2>2 DEF InTurn, Started
<1>5. CASE ReadLine \/ ReadEnd
  <2>1. step \notin {1, 6, 9} /\ step' = step + 1 /\ opened' = opened /\ conn' = conn
    BY <1>1, <1>5, PresentIs DEF ReadLine, ReadEnd, vars, acceptVars
  <2>. QED BY <1>1, <2>1 DEF InTurn, Started
<1>. QED BY <1>3, <1>4, <1>5 DEF ScriptStep

\* The connections come in the order of the script.
LEMMA NextInTurn ==
  ASSUME FourConns, HarnessTypeOK, Inv, InTurn, [HarnessNext]_allVars
  PROVE  InTurn'
<1>1. CASE UNCHANGED allVars
  BY <1>1 DEF InTurn, Started, allVars, vars, acceptVars, scriptVars
<1>2. CASE ServerStep /\ UNCHANGED scriptVars
  <2>1. MainStep \/ \E w \in Workers : WorkerStep(w)
    BY <1>2 DEF ServerStep, PrintWaiting, PrintConnected, MainStep
  <2>2. \A c \in Conns : Started(c)' <=> Started(c)
    BY <2>1, ServerStartsNone
  <2>3. step' = step /\ opened' = opened
    BY <1>2 DEF scriptVars
  <2>. QED BY <2>2, <2>3, HarnessAssumption DEF InTurn
<1>. QED BY <1>1, <1>2, ScriptInTurn DEF HarnessNext

\* A connection that was started stays so.
LEMMA StaysStarted ==
  ASSUME Inv, [Next]_vars, NEW c \in Conns, Started(c)
  PROVE  Started(c)'
<1>1. ASSUME NEW d \in Conns, Connect(d) PROVE Started(c)'
  BY <1>1 DEF Connect, Started, Inv, TypeOK
<1>2. CASE UNCHANGED vars
  BY <1>2 DEF vars, acceptVars, Started
<1>. QED BY <1>1, <1>2, ServerStartsNone DEF Next

\* accept() takes one connection, and nothing else does.
LEMMA AcceptedCounts ==
  ASSUME FourConns, Inv, [Next]_vars, ~Exit
  PROVE  /\ Accepted \in 0 .. 4 /\ Accepted' \in 0 .. 4
         /\ Accepted' = IF AcceptConnection THEN Accepted + 1 ELSE Accepted
<1>1. {KeyConn, RegConn, GetConn, ByeConn} = Conns
  BY HarnessAssumption
<1>2. \A c \in Conns : Taken(c) \in {0, 1} /\ Taken(c)' \in {0, 1}
  BY DEF Taken
<1>3. CASE AcceptConnection
  <2>1. PICK h \in Conns : conn[h] = "backlog" /\ conn'[h] = "open"
    BY <1>3, AcceptTakes
  <2>2. h = Head(backlog)
    BY <1>3, <2>1 DEF AcceptConnection, Inv, TypeOK
  <2>3. Taken(h) = 0 /\ Taken(h)' = 1
    BY <2>1 DEF Taken
  <2>4. \A c \in Conns \ {h} : Taken(c)' = Taken(c)
    BY <1>3, <2>2 DEF AcceptConnection, Inv, TypeOK, Taken
  <2>. HIDE DEF Taken
  <2>. QED BY <1>1, <1>2, <1>3, <2>3, <2>4 DEF Accepted, FourConns
<1>4. CASE ~AcceptConnection
  <2>1. ASSUME NEW c \in Conns, conn[c] \notin {"open", "closed"}
        PROVE  conn'[c] \notin {"open", "closed"}
    <3>. USE <2>1 DEF Inv, TypeOK
    <3>1. ASSUME NEW d \in Conns, Connect(d) PROVE conn'[c] \notin {"open", "closed"}
      BY <3>1 DEF Connect
    <3>2. ASSUME NEW w \in Workers, ServeConnection(w)
          PROVE  conn'[c] \notin {"open", "closed"}
      <4>1. w \in Handling /\ main # "exited"
        BY <3>2 DEF ServeConnection, Return, Handling, Control, QuiescentCleanup, AllDone
      <4>2. held[w] # c
        BY <4>1 DEF Owners, OpenIffOwned, InHandler
      <4>. QED BY <3>2, <4>2 DEF ServeConnection
    <3>3. ASSUME NEW w \in Workers, ShutDown(w) PROVE conn'[c] \notin {"open", "closed"}
      BY <3>3 DEF ShutDown, ShutDownListener
    <3>. QED
      BY <1>4, <3>1, <3>2, <3>3
      DEF Next, MainStep, WorkerStep, CheckActive, AcceptShutDown, AcceptFails, Dispatch,
          AwaitShutdown, AnnounceShutdown, vars, acceptVars
  <2>2. \A c \in Conns : Taken(c)' = Taken(c)
    BY <2>1, TakenStays DEF Taken
  <2>. HIDE DEF Taken
  <2>. QED BY <1>1, <1>2, <1>4, <2>2 DEF Accepted
<1>. QED BY <1>3, <1>4

\* No client of a running server is refused, and its lines are those of the
\* connections it took.
LEMMA NextMet ==
  ASSUME FourConns, ~AcceptMayFail, Workers # {}, HarnessTypeOK, Inv, Calm, Calm', InTurn,
         Met, [HarnessNext]_allVars, [Next]_vars
  PROVE  Met'
<1>. SUFFICES ASSUME Running' PROVE Met'
  BY DEF Met
<1>1. Running
  BY RunningBefore
<1>2. /\ listener = "listening" /\ main \in {"check", "accept", "dispatch"}
      /\ buf = IF main = "accept" THEN <<"waiting">> ELSE <<>>
      /\ surprised' = FALSE
  BY <1>1 DEF Calm
<1>3. /\ step > 1 => Started(KeyConn) /\ Started(RegConn)
      /\ step > 6 => Started(GetConn)
      /\ step > 9 => Started(ByeConn)
      /\ LinesRead + Len(pipe) = 2 * Accepted
  BY <1>1 DEF Met
<1>4. \A c \in Conns : Started(c) => Started(c)'
  BY StaysStarted
<1>5. ~Exit /\ step \in 1 .. 15 /\ Len(pipe) \in Nat /\ pipe \in Seq(Lines)
  BY <1>2, ScriptIs DEF Exit, HarnessTypeOK
<1>6. /\ Accepted \in 0 .. 4 /\ Accepted' \in 0 .. 4
      /\ Accepted' = IF AcceptConnection THEN Accepted + 1 ELSE Accepted
  BY <1>5, AcceptedCounts
<1>7. LinesRead \in 0 .. 11 /\ LinesRead' = ReadsBefore[step']
  BY <1>5 DEF LinesRead, ReadsBefore
<1>8. /\ step' > 1 => Started(KeyConn)' /\ Started(RegConn)'
      /\ step' > 6 => Started(GetConn)'
      /\ step' > 9 => Started(ByeConn)'
  <2>1. CASE step' = step
    BY <1>3, <1>4, <2>1, HarnessAssumption
  <2>2. CASE ClientPrints
    <3>1. /\ step \in {1, 6, 9} /\ step' = step + 1 /\ opened = Len(Present)
      BY <2>2, PresentIs DEF ClientPrints, Present
    <3>2. /\ step = 1 => Started(KeyConn) /\ Started(RegConn)
          /\ step = 6 => Started(GetConn)
          /\ step = 9 => Started(ByeConn)
      BY <2>2, <3>1, PresentIs DEF ClientPrints, InTurn
    <3>. QED BY <1>3, <1>4, <3>1, <3>2, HarnessAssumption
  <2>3. CASE ReadLine
    <3>1. step \in 1 .. 14 /\ step \notin {1, 6, 9} /\ step' = step + 1
      BY <2>3, PresentIs DEF ReadLine
    <3>2. (step' > 1 => step > 1) /\ (step' > 6 => step > 6) /\ (step' > 9 => step > 9)
      BY <3>1
    <3>. QED BY <1>3, <1>4, <3>2, HarnessAssumption
  <2>4. ~ClientRefused /\ ~ReadEnd
    BY <1>2 DEF ClientRefused, ReadEnd
  <2>. QED
    BY <2>1, <2>2, <2>3, <2>4
    DEF HarnessNext, ScriptStep, ClientConnects, scriptVars, allVars
<1>9. LinesRead' + Len(pipe') = 2 * Accepted'
  <2>1. CASE ReadLine
    <3>1. step \in 1 .. 14 /\ Script[step].do = "read" /\ step' = step + 1
          /\ pipe' = Tail(pipe) /\ pipe # <<>>
      BY <2>1, PresentIs DEF ReadLine
    <3>2. LinesRead' = LinesRead + 1
      BY <1>7, <3>1, StepIs DEF LinesRead
    <3>3. Len(pipe') = Len(pipe) - 1
      BY <1>5, <3>1, HeadTailProperties
    <3>4. ~AcceptConnection
      BY <1>2, <2>1 DEF ReadLine, vars, acceptVars, AcceptConnection
    <3>. QED BY <1>3, <1>5, <1>6, <1>7, <3>2, <3>3, <3>4
  <2>2. CASE ClientPrints
    <3>1. step \in 1 .. 14 /\ Script[step].do = "client" /\ step' = step + 1 /\ pipe' = pipe
      BY <2>2, PresentIs DEF ClientPrints, printVars
    <3>2. LinesRead' = LinesRead
      BY <1>7, <3>1, StepIs DEF LinesRead
    <3>3. ~AcceptConnection
      BY <1>2, <2>2 DEF ClientPrints, vars, acceptVars, AcceptConnection
    <3>. QED BY <1>3, <1>6, <3>1, <3>2, <3>3
  <2>3. CASE AcceptConnection /\ Flushed("connected") /\ UNCHANGED scriptVars
    <3>1. main = "accept" /\ LinesRead' = LinesRead
      BY <1>7, <2>3 DEF AcceptConnection, scriptVars, LinesRead
    <3>2. Len(buf) = 1 /\ "connected" \in Lines
      BY <1>2, <3>1 DEF Lines
    <3>3. Len(pipe') = Len(pipe) + Len(buf) + 1
      BY <2>3, <3>2, FlushTypes
    <3>. QED BY <1>3, <1>5, <1>6, <1>7, <2>3, <3>1, <3>2, <3>3
  <2>4. CASE UNCHANGED <<step, pipe>> /\ ~AcceptConnection
    <3>1. LinesRead' = LinesRead /\ pipe' = pipe
      BY <1>7, <2>4 DEF LinesRead
    <3>. QED BY <1>3, <1>6, <2>4, <3>1
  <2>5. CASE ClientConnects \/ UNCHANGED allVars
    <3>1. UNCHANGED <<step, pipe, main>>
      BY <2>5 DEF ClientConnects, Connect, printVars, allVars, vars, acceptVars, scriptVars
    <3>. QED BY <1>2, <2>4, <3>1 DEF AcceptConnection
  <2>6. CASE ServerStep /\ UNCHANGED scriptVars
    <3>1. \/ AcceptConnection /\ Flushed("connected")
          \/ UNCHANGED pipe /\ ~AcceptConnection
      <4>1. CASE PrintWaiting
        BY <4>1 DEF PrintWaiting, Buffered, printVars, CheckActive, AcceptConnection
      <4>2. CASE Dispatch \/ AwaitShutdown
        BY <1>2, <2>6, <4>2
        DEF ServerStep, PrintWaiting, CheckActive, PrintConnected, AcceptConnection,
            AcceptShutDown, AcceptFails, Dispatch, AwaitShutdown, Exit, WorkerStep,
            acceptVars, ServeConnection, AnnounceShutdown, ShutDown, printVars
      <4>3. CASE (\E w \in Workers : WorkerStep(w)) /\ UNCHANGED printVars
        <5>1. main' = main
          BY <4>3 DEF WorkerStep, acceptVars, ServeConnection, AnnounceShutdown, ShutDown
        <5>. QED BY <1>2, <4>3, <5>1 DEF AcceptConnection, printVars
      <4>4. ~AcceptShutDown /\ ~AcceptFails
        BY <1>2 DEF AcceptShutDown, AcceptFails
      <4>. QED
        BY <1>5, <2>6, <4>1, <4>2, <4>3, <4>4 DEF ServerStep, PrintConnected
    <3>. QED BY <2>3, <2>4, <2>6, <3>1 DEF scriptVars
  <2>7. ~ClientRefused /\ ~ReadEnd
    BY <1>2 DEF ClientRefused, ReadEnd
  <2>. QED BY <2>1, <2>2, <2>5, <2>6, <2>7 DEF HarnessNext, ScriptStep
<1>. QED BY <1>8, <1>9 DEF Met

\* The worker that served a BYE is on its way to the halt until it has halted.
LEMMA NextByeHalts ==
  ASSUME Inv, ByeHalts, [Next]_vars
  PROVE  ByeHalts'
<1>. USE DEF ByeHalts, Inv, TypeOK, PoolTypeOK
<1>1. ASSUME NEW w \in Workers, PoolStep(w), UNCHANGED acceptVars PROVE ByeHalts'
  <2>1. CASE Halt(w)
    BY <2>1 DEF Halt
  <2>2. CASE ~Halt(w)
    <3>1. \A v \in Workers : worker[v] = "halt" => worker'[v] = "halt"
      BY <1>1, <2>2
      DEF PoolStep, Top, Acquire, Pop, SkipWait, DecideToWait, Sleep, SpuriousWakeup,
          Resume, NotifyAll, Goto, Asleep
    <3>2. halted => halted'
      BY <1>1, <2>2
      DEF PoolStep, Top, Acquire, Pop, SkipWait, DecideToWait, Sleep, SpuriousWakeup,
          Resume, NotifyAll
    <3>. QED BY <1>1, <3>1, <3>2 DEF acceptVars
  <2>. QED BY <2>1, <2>2
<1>2. ASSUME NEW w \in Workers, ServeConnection(w) PROVE ByeHalts'
  <2>1. \A v \in Workers : worker[v] = "halt" => worker'[v] = "halt"
    BY <1>2 DEF ServeConnection, Return, Goto
  <2>2. CASE held[w] \in ByeConns
    BY <1>2, <2>2 DEF ServeConnection, Return, Goto
  <2>3. CASE held[w] \notin ByeConns
    <3>1. \A c \in ByeConns : conn'[c] = "closed" => conn[c] = "closed"
      BY <1>2, <2>3, HarnessAssumption DEF ServeConnection
    <3>. QED BY <1>2, <2>1, <3>1 DEF ServeConnection, Return
  <2>. QED BY <2>2, <2>3
<1>3. ASSUME NEW w \in Workers, AnnounceShutdown(w) \/ ShutDown(w) PROVE ByeHalts'
  BY <1>3 DEF AnnounceShutdown, ShutDown, Control, HaltedFirst
<1>4. ASSUME NEW c \in Conns, Connect(c) PROVE ByeHalts'
  BY <1>4 DEF Connect, poolVars
<1>5. CASE Dispatch
  <2>1. \A v \in Workers : worker[v] = "halt" => worker'[v] = "halt"
    BY <1>5 DEF Dispatch, service_connection, NotifyOne, Asleep
  <2>. QED BY <1>5, <2>1 DEF Dispatch, service_connection
<1>6. CASE AcceptConnection \/ Exit
  <2>1. \A c \in ByeConns : conn'[c] = "closed" => conn[c] = "closed"
    BY <1>6, HarnessAssumption DEF AcceptConnection, Exit
  <2>. QED BY <1>6, <2>1 DEF AcceptConnection, Exit, poolVars
<1>7. CASE CheckActive \/ AcceptShutDown \/ AcceptFails \/ AwaitShutdown \/ UNCHANGED vars
  BY <1>7
  DEF CheckActive, AcceptShutDown, AcceptFails, AwaitShutdown, vars, poolVars, acceptVars
<1>. QED
  BY <1>1, <1>2, <1>3, <1>4, <1>5, <1>6, <1>7 DEF Next, MainStep, WorkerStep

\* Connections are reset when the listening socket is shut down or closed.
LEMMA NextNoneReset ==
  ASSUME TypeOK, NoneReset, [Next]_vars
  PROVE  NoneReset'
BY DEF NoneReset, TypeOK, Next, MainStep, WorkerStep, Connect, CheckActive, AcceptConnection,
       AcceptShutDown, AcceptFails, Dispatch, AwaitShutdown, Exit, ServeConnection,
       AnnounceShutdown, ShutDown, ShutDownListener, vars, acceptVars

\* A server that runs and in which nobody can go on waits for its next client: it
\* has served every connection that was opened, and none of them was the BYE.
LEMMA WaitingServer ==
  ASSUME Workers # {}, HarnessTypeOK, Inv, Calm, ByeHalts, NoneReset, NoLostWakeup, Running,
         ~Detained, ~MainMayGoOn, \A w \in Workers : ~MayGoOn(w)
  PROVE  /\ listener = "listening"
         /\ \A c \in Conns : conn[c] \in {"new", "closed"}
         /\ conn[ByeConn] = "new"
<1>1. /\ listener = "listening" /\ main \in {"check", "accept", "dispatch"} /\ ~halted
  BY DEF Calm, Running
<1>2. \A w \in Workers : worker[w] \in WorkerPCs
  BY DEF Inv, TypeOK, PoolTypeOK
<1>3. lock = NoOne
  <2>1. \A w \in Workers : lock # w
    BY DEF Inv, Control, LockHolder, MayGoOn
  <2>. QED BY <2>1 DEF Inv, TypeOK, PoolTypeOK
<1>4. \A w \in Workers : worker[w] = "asleep"
  BY <1>1, <1>2, <1>3
  DEF MayGoOn, Detained, Handling, WorkerPCs, Inv, Control, HaltedFirst
<1>5. main = "accept" /\ backlog = <<>>
  BY <1>1, <1>3 DEF MainMayGoOn
<1>6. queue = <<>>
  BY <1>1, <1>4 DEF NoLostWakeup
<1>7. \A c \in Conns : conn[c] \in {"new", "closed"}
  <2>. SUFFICES ASSUME NEW c \in Conns PROVE conn[c] \in {"new", "closed"}
    OBVIOUS
  <2>1. conn[c] # "backlog"
    BY <1>5 DEF Inv, Owners, BacklogHolds, Occurs
  <2>2. conn[c] # "open"
    BY <1>4, <1>5, <1>6
    DEF Inv, Owners, OpenIffOwned, InMain, InQueue, InHandler, Handling, Occurs
  <2>3. conn[c] # "reset"
    BY <1>1 DEF NoneReset
  <2>. QED BY <2>1, <2>2, <2>3 DEF Inv, TypeOK, ConnStates
<1>8. ByeConn \in Conns /\ conn[ByeConn] # "closed"
  BY <1>1, <1>4, HarnessAssumption DEF ByeHalts
<1>. QED BY <1>1, <1>7, <1>8

\* A client whose connections were all answered can go on.
LEMMA ClientMayGoOn ==
  ASSUME FourConns, HarnessTypeOK, InTurn, ~Finished, step \in {1, 6, 9},
         \A c \in Conns : conn[c] \in {"new", "closed", "reset"}
  PROVE  ScriptMayGoOn
<1>. USE HarnessAssumption DEF Answered
<1>1. opened \in 0 .. 2
  BY DEF HarnessTypeOK
<1>2. Script[step].do = "client"
  BY PresentIs
<1>3. CASE step = 1
  <2>1. Len(Present) = 2 /\ Present[1] = KeyConn /\ Present[2] = RegConn
    BY <1>3, PresentIs
  <2>2. (opened >= 1 <=> Started(KeyConn)) /\ (opened = 2 <=> Started(RegConn))
    BY <1>3 DEF InTurn
  <2>3. CASE opened = 0
    <3>1. opened + 1 = 1 /\ ~(opened > 0) /\ opened < 2 /\ ~(opened >= 1)
      BY <2>3
    <3>. QED BY <1>2, <2>1, <2>2, <3>1 DEF ScriptMayGoOn, Started
  <2>4. CASE opened = 1
    <3>1. opened + 1 = 2 /\ opened < 2 /\ opened >= 1 /\ opened # 2
      BY <2>4
    <3>. QED BY <1>2, <2>1, <2>2, <2>4, <3>1 DEF ScriptMayGoOn, Started
  <2>5. CASE opened = 2
    BY <1>2, <2>1, <2>2, <2>5 DEF ScriptMayGoOn, Started
  <2>. QED BY <1>1, <2>3, <2>4, <2>5
<1>4. ASSUME NEW c \in Conns, Len(Present) = 1, Present[1] = c, opened <= 1,
             opened = 1 <=> Started(c)
      PROVE  ScriptMayGoOn
  <2>1. CASE opened = 0
    <3>1. opened + 1 = 1 /\ ~(opened > 0) /\ opened < 1 /\ opened # 1
      BY <2>1
    <3>. QED BY <1>2, <1>4, <3>1 DEF ScriptMayGoOn, Started
  <2>2. CASE opened = 1
    BY <1>2, <1>4, <2>2 DEF ScriptMayGoOn, Started
  <2>. QED BY <1>1, <1>4, <2>1, <2>2
<1>5. CASE step = 6
  BY <1>4, <1>5, PresentIs DEF InTurn
<1>6. CASE step = 9
  BY <1>4, <1>6, PresentIs DEF InTurn
<1>. QED BY <1>3, <1>5, <1>6

\* A script that waits for a line has a server that can go on, or the line.
LEMMA SomethingGoesOn ==
  ASSUME FourConns, Workers # {}, HarnessTypeOK, Inv, Calm, InTurn, Met, ByeHalts, NoneReset,
         NoLostWakeup, StopIsNeverStuck
  PROVE  ScriptIsNeverStuck
<1>. SUFFICES ASSUME ~Finished, listener # "none", ~Detained, ~MainMayGoOn,
                     \A w \in Workers : ~MayGoOn(w)
              PROVE  ScriptMayGoOn
  BY DEF ScriptIsNeverStuck
<1>1. /\ step \in 1 .. 14
      /\ Script[step].do = IF step \in {1, 6, 9} THEN "client" ELSE "read"
  BY PresentIs
<1>2. CASE main = "exited"
  <2>1. \A c \in Conns : conn[c] \in {"new", "closed", "reset"}
    BY <1>2 DEF Inv, TypeOK, ConnStates, Owners, NothingLeft
  <2>. QED BY <1>1, <1>2, <2>1, ClientMayGoOn DEF ScriptMayGoOn
<1>3. CASE main # "exited"
  <2>1. Running
    BY <1>3 DEF StopIsNeverStuck, Running
  <2>2. /\ \A c \in Conns : conn[c] \in {"new", "closed"}
        /\ conn[ByeConn] = "new"
    BY <2>1, WaitingServer
  <2>3. CASE step \in {1, 6, 9}
    BY <2>2, <2>3, ClientMayGoOn
  <2>4. CASE step \notin {1, 6, 9}
    <3>. SUFFICES ASSUME pipe = <<>> PROVE FALSE
      BY <1>1, <2>4 DEF ScriptMayGoOn
    <3>1. LinesRead = 2 * Accepted
      <4>1. LinesRead \in 0 .. 11 /\ Accepted \in 0 .. 4
        BY <1>1 DEF LinesRead, ReadsBefore, Accepted, Taken
      <4>. QED BY <2>1, <4>1 DEF Met
    <3>2. step < 9
      BY <1>1, <2>1, <2>2, <2>4 DEF Met, Started
    <3>3. Taken(KeyConn) = 1 /\ Taken(RegConn) = 1 /\ Taken(ByeConn) = 0
      BY <1>1, <2>1, <2>2, <2>4, HarnessAssumption DEF Met, Started, Taken
    <3>4. CASE step \in {2, 3, 4, 5}
      <4>1. Taken(GetConn) = 0
        BY <3>4 DEF InTurn, Started, Taken
      <4>2. LinesRead \in {0, 1, 2, 3}
        BY <3>4 DEF LinesRead, ReadsBefore
      <4>. QED BY <3>1, <3>3, <4>1, <4>2 DEF Accepted
    <3>5. CASE step \in {7, 8}
      <4>1. Taken(GetConn) = 1
        BY <2>1, <2>2, <3>5, HarnessAssumption DEF Met, Started, Taken
      <4>2. LinesRead \in {4, 5}
        BY <3>5 DEF LinesRead, ReadsBefore
      <4>. QED BY <3>1, <3>3, <4>1, <4>2 DEF Accepted
    <3>. QED BY <1>1, <2>4, <3>2, <3>4, <3>5
  <2>. QED BY <2>3, <2>4
<1>. QED BY <1>2, <1>3

\* If accept() fails only when the listening socket was shut down, then however
\* many workers serve, and unless a silent client detains one of them, the script
\* or the server it talks to can always take its next step.
THEOREM ScriptGoesOn ==
  ASSUME FourConns, ~AcceptMayFail, Workers # {}
  PROVE  HarnessSpec => []ScriptIsNeverStuck
<1>. DEFINE OInv == InTurn /\ Met /\ ByeHalts /\ NoneReset
<1>1. HarnessInit => OInv
  <2>. SUFFICES ASSUME HarnessInit PROVE OInv
    OBVIOUS
  <2>1. /\ step = 1 /\ opened = 0 /\ Len(pipe) = 0
        /\ \A c \in Conns : conn[c] = "new"
    BY DEF HarnessInit, Init
  <2>2. LinesRead = 0 /\ Accepted = 0
    BY <2>1, HarnessAssumption DEF LinesRead, ReadsBefore, Accepted, Taken
  <2>3. \A c \in ByeConns : conn[c] # "closed"
    BY <2>1, HarnessAssumption
  <2>. QED
    BY <2>1, <2>2, <2>3, HarnessAssumption DEF InTurn, Met, Started, ByeHalts, NoneReset
<1>2. HarnessTypeOK /\ Inv /\ Calm /\ Calm' /\ OInv /\ [HarnessNext]_allVars /\ [Next]_vars
        => OInv'
  BY NextInTurn, NextMet, NextByeHalts, NextNoneReset DEF Inv
<1>3. HarnessTypeOK /\ Inv /\ Calm /\ OInv /\ NoLostWakeup /\ StopIsNeverStuck
        => ScriptIsNeverStuck
  BY SomethingGoesOn
<1>4. HarnessSpec => []Inv /\ []NoLostWakeup /\ []StopIsNeverStuck
  BY ServerOfAcceptLoop, Invariance, NoWakeupIsLost, StopGoesOn
<1>. QED
  BY <1>1, <1>2, <1>3, <1>4, AlwaysCalm, HarnessTypeCorrect, StepOfServer, PTL
  DEF HarnessSpec
=============================================================================

-------------------------- MODULE AcceptLoopProofs --------------------------
(***************************************************************************)
(* Proofs about AcceptLoop, for every set of workers and connections.      *)
(***************************************************************************)
EXTENDS AcceptLoopProps, SequenceTheorems, FiniteSetTheorems, TLAPS

-----------------------------------------------------------------------------
(* Queues.                                                                 *)

\* Appending to a queue adds exactly the appended element.
LEMMA AppendOccurs ==
  ASSUME NEW S, NEW s \in Seq(S), NEW x \in S
  PROVE  \A e : Occurs(e, Append(s, x)) <=> Occurs(e, s) \/ e = x
<1>. DEFINE t == Append(s, x)
<1>1. /\ DOMAIN s = 1 .. Len(s)
      /\ DOMAIN t = 1 .. Len(s) + 1
      /\ Len(s) \in Nat
      /\ \A i \in 1 .. Len(s) : t[i] = s[i]
      /\ t[Len(s) + 1] = x
  OBVIOUS
<1>2. ASSUME NEW e, Occurs(e, t) PROVE Occurs(e, s) \/ e = x
  BY <1>1, <1>2 DEF Occurs
<1>3. ASSUME NEW e, Occurs(e, s) \/ e = x PROVE Occurs(e, t)
  BY <1>1, <1>3 DEF Occurs
<1>. QED BY <1>2, <1>3

\* A connection appended to a queue that does not hold it is there once.
LEMMA AppendOnce ==
  ASSUME NEW S, NEW s \in Seq(S), NEW x \in S, OncePerConnection(s),
         x = InvalidSd \/ ~Occurs(x, s)
  PROVE  OncePerConnection(Append(s, x))
<1>. DEFINE t == Append(s, x)
<1>1. /\ DOMAIN s = 1 .. Len(s)
      /\ DOMAIN t = 1 .. Len(s) + 1
      /\ Len(s) \in Nat
      /\ \A i \in 1 .. Len(s) : t[i] = s[i]
      /\ t[Len(s) + 1] = x
  OBVIOUS
<1>. QED BY <1>1 DEF OncePerConnection, Occurs

\* Taking the head of a queue leaves the other connections, each still once.
LEMMA TailOnce ==
  ASSUME NEW S, NEW s \in Seq(S), s # <<>>, OncePerConnection(s)
  PROVE  /\ Tail(s) \in Seq(S)
         /\ Head(s) \in S
         /\ Occurs(Head(s), s)
         /\ OncePerConnection(Tail(s))
         /\ \A e : e # InvalidSd =>
              (Occurs(e, Tail(s)) <=> Occurs(e, s) /\ e # Head(s))
<1>. DEFINE t == Tail(s)
<1>1. /\ DOMAIN s = 1 .. Len(s)
      /\ Len(s) \in Nat \ {0}
      /\ t \in Seq(S)
      /\ DOMAIN t = 1 .. Len(s) - 1
      /\ \A i \in 1 .. Len(s) - 1 : t[i] = s[i + 1]
      /\ Head(s) = s[1]
      /\ s[1] \in S
  OBVIOUS
<1>2. OncePerConnection(t)
  <2>1. SUFFICES ASSUME NEW i \in DOMAIN t, NEW j \in DOMAIN t,
                        t[i] = t[j], i # j
                 PROVE  t[i] = InvalidSd
    BY DEF OncePerConnection
  <2>2. /\ i + 1 \in DOMAIN s /\ j + 1 \in DOMAIN s /\ i + 1 # j + 1
        /\ s[i + 1] = t[i] /\ s[j + 1] = t[j]
    BY <1>1, <2>1
  <2>. QED BY <2>1, <2>2 DEF OncePerConnection
<1>3. ASSUME NEW e, e # InvalidSd, Occurs(e, t)
      PROVE  Occurs(e, s) /\ e # Head(s)
  <2>1. PICK i \in DOMAIN t : t[i] = e
    BY <1>3 DEF Occurs
  <2>2. i + 1 \in DOMAIN s /\ s[i + 1] = e /\ 1 \in DOMAIN s /\ i + 1 # 1
    BY <1>1, <2>1
  <2>. QED BY <1>1, <1>3, <2>2 DEF Occurs, OncePerConnection
<1>4. ASSUME NEW e, Occurs(e, s), e # Head(s) PROVE Occurs(e, t)
  <2>1. PICK i \in DOMAIN s : s[i] = e
    BY <1>4 DEF Occurs
  <2>2. i - 1 \in DOMAIN t /\ t[i - 1] = e
    BY <1>1, <1>4, <2>1
  <2>. QED BY <2>2 DEF Occurs
<1>. QED BY <1>1, <1>2, <1>3, <1>4 DEF Occurs

-----------------------------------------------------------------------------
(* Types.                                                                  *)

\* Initially every variable has its type.
LEMMA InitType == Init => TypeOK
<1>1. \A S : <<>> \in Seq(S)
  OBVIOUS
<1>. QED
  BY <1>1 DEF Init, PoolInit, TypeOK, PoolTypeOK, WorkerPCs, MainPCs, ConnStates,
              Descriptors

\* No step of any thread or client takes a variable out of its type.
LEMMA NextType == TypeOK /\ [Next]_vars => TypeOK'
<1>. SUFFICES ASSUME TypeOK, [Next]_vars PROVE TypeOK'
  OBVIOUS
<1>. USE DEF TypeOK, PoolTypeOK, WorkerPCs, MainPCs, ConnStates, Descriptors, acceptVars
<1>0. \A S : <<>> \in Seq(S)
  OBVIOUS
<1>1. ASSUME NEW c \in Conns, Connect(c) PROVE TypeOK'
  BY <1>1 DEF Connect, poolVars
<1>2. CASE CheckActive
  BY <1>2 DEF CheckActive, poolVars
<1>3. CASE AcceptConnection
  BY <1>3 DEF AcceptConnection, poolVars
<1>4. CASE AcceptShutDown
  BY <1>4 DEF AcceptShutDown, poolVars
<1>5. CASE AcceptFails
  BY <1>5 DEF AcceptFails, poolVars
<1>6. CASE Dispatch
  <2>1. queue' \in Seq(Descriptors)
    BY <1>6 DEF Dispatch, service_connection
  <2>2. worker' \in [Workers -> WorkerPCs]
    BY <1>6 DEF Dispatch, service_connection, NotifyOne, Asleep
  <2>. QED BY <1>6, <2>1, <2>2 DEF Dispatch, service_connection
<1>7. CASE AwaitShutdown
  BY <1>7 DEF AwaitShutdown, poolVars
<1>8. CASE Exit
  BY <1>0, <1>8 DEF Exit, poolVars
<1>9. ASSUME NEW w \in Workers, PoolStep(w), UNCHANGED acceptVars PROVE TypeOK'
  <2>. USE <1>9 DEF Goto
  <2>1. CASE Top(w)
    BY <2>1 DEF Top
  <2>2. CASE Acquire(w)
    BY <2>2 DEF Acquire
  <2>3. CASE Pop(w)
    BY <2>3 DEF Pop
  <2>4. CASE SkipWait(w)
    BY <2>4 DEF SkipWait
  <2>5. CASE DecideToWait(w)
    BY <2>5 DEF DecideToWait
  <2>6. CASE Sleep(w)
    BY <2>6 DEF Sleep
  <2>7. CASE SpuriousWakeup(w)
    BY <2>7 DEF SpuriousWakeup
  <2>8. CASE Resume(w)
    BY <2>8 DEF Resume
  <2>9. CASE Halt(w)
    BY <2>9 DEF Halt
  <2>10. CASE NotifyAll(w)
    BY <2>10 DEF NotifyAll
  <2>. QED
    BY <2>1, <2>2, <2>3, <2>4, <2>5, <2>6, <2>7, <2>8, <2>9, <2>10 DEF PoolStep
<1>10. ASSUME NEW w \in Workers, ServeConnection(w) PROVE TypeOK'
  BY <1>10 DEF ServeConnection, Return, Goto
<1>11. ASSUME NEW w \in Workers, AnnounceShutdown(w) PROVE TypeOK'
  BY <1>11 DEF AnnounceShutdown, Goto, FrameLive
<1>12. ASSUME NEW w \in Workers, ShutDown(w) PROVE TypeOK'
  BY <1>0, <1>12 DEF ShutDown, ShutDownListener, Goto
<1>13. CASE UNCHANGED vars
  BY <1>13 DEF vars, poolVars
<1>. QED
  BY <1>1, <1>2, <1>3, <1>4, <1>5, <1>6, <1>7, <1>8, <1>9, <1>10, <1>11, <1>12, <1>13
  DEF Next, MainStep, WorkerStep

\* Every variable of the connection path always has its type.
THEOREM TypeCorrect == Spec => []TypeOK
<1>. QED BY InitType, NextType, PTL DEF Spec

-----------------------------------------------------------------------------
(* Who holds the mutex, who has halted the pool, who has shut the socket.  *)

\* The control part of the invariant holds initially.
LEMMA InitControl == Init => Control
BY PoolAssumption
DEF Init, PoolInit, Control, LockHolder, HaltedFirst, NothingInHand, AnnouncedFirst,
    ShutDownIsAnnounced, InvalidNeverHandled, QuiescentCleanup, Handling, FrameLive

\* What notify_one does to the other workers.
LEMMA NotifyOneEffect ==
  ASSUME worker \in [Workers -> WorkerPCs], NotifyOne, NEW v \in Workers
  PROVE  worker'[v] = worker[v] \/ (worker[v] = "asleep" /\ worker'[v] = "wakeup")
BY DEF NotifyOne, Asleep

\* A step of the main thread or of a client preserves the control part.
LEMMA MainControl ==
  ASSUME TypeOK, Control, MainStep \/ \E c \in Conns : Connect(c)
  PROVE  Control'
<1>. USE DEF Control, LockHolder, HaltedFirst, NothingInHand, AnnouncedFirst,
             ShutDownIsAnnounced, InvalidNeverHandled, QuiescentCleanup,
             Handling, FrameLive, AllDone
<1>1. ASSUME NEW c \in Conns, Connect(c) PROVE Control'
  BY <1>1 DEF Connect, poolVars
<1>2. CASE CheckActive
  BY <1>2 DEF CheckActive, poolVars
<1>3. CASE AcceptConnection
  BY <1>3 DEF AcceptConnection, poolVars
<1>4. CASE AcceptShutDown
  BY <1>4 DEF AcceptShutDown, poolVars
<1>5. CASE AcceptFails
  BY <1>5 DEF AcceptFails, poolVars
<1>6. CASE Dispatch
  <2>. DEFINE Same(v) == \/ worker'[v] = worker[v]
                         \/ worker[v] = "asleep" /\ worker'[v] = "wakeup"
  <2>1. \A v \in Workers : Same(v)
    BY <1>6, NotifyOneEffect DEF Dispatch, service_connection, TypeOK, PoolTypeOK
  <2>. QED BY <1>6, <2>1 DEF Dispatch, service_connection
<1>7. CASE AwaitShutdown
  BY <1>7, PoolAssumption DEF AwaitShutdown, poolVars, TypeOK, PoolTypeOK
<1>8. CASE Exit
  BY <1>8 DEF Exit, poolVars
<1>. QED
  BY <1>1, <1>2, <1>3, <1>4, <1>5, <1>6, <1>7, <1>8 DEF MainStep

\* A step of a worker preserves the control part.
LEMMA WorkerControl ==
  ASSUME TypeOK, Control, NEW w \in Workers, WorkerStep(w)
  PROVE  Control'
<1>. USE PoolAssumption
     DEF Control, LockHolder, HaltedFirst, NothingInHand, AnnouncedFirst,
         ShutDownIsAnnounced, InvalidNeverHandled, QuiescentCleanup,
         Handling, FrameLive, AllDone, TypeOK, PoolTypeOK, Goto
<1>1. ASSUME PoolStep(w), UNCHANGED acceptVars PROVE Control'
  <2>. USE <1>1 DEF acceptVars
  <2>1. CASE Top(w)
    BY <2>1 DEF Top
  <2>2. CASE Acquire(w)
    BY <2>2 DEF Acquire
  <2>3. CASE Pop(w)
    BY <2>3 DEF Pop
  <2>4. CASE SkipWait(w)
    BY <2>4 DEF SkipWait
  <2>5. CASE DecideToWait(w)
    BY <2>5 DEF DecideToWait
  <2>6. CASE Sleep(w)
    BY <2>6 DEF Sleep
  <2>7. CASE SpuriousWakeup(w)
    BY <2>7 DEF SpuriousWakeup
  <2>8. CASE Resume(w)
    BY <2>8 DEF Resume
  <2>9. CASE Halt(w)
    BY <2>9 DEF Halt
  <2>10. CASE NotifyAll(w)
    BY <2>10 DEF NotifyAll, Asleep
  <2>. QED
    BY <2>1, <2>2, <2>3, <2>4, <2>5, <2>6, <2>7, <2>8, <2>9, <2>10 DEF PoolStep
<1>2. CASE ServeConnection(w)
  BY <1>2 DEF ServeConnection, Return
<1>3. CASE AnnounceShutdown(w)
  BY <1>3 DEF AnnounceShutdown
<1>4. CASE ShutDown(w)
  BY <1>4 DEF ShutDown, ShutDownListener
<1>. QED BY <1>1, <1>2, <1>3, <1>4 DEF WorkerStep

\* Every step preserves the control part.
LEMMA NextControl == TypeOK /\ Control /\ [Next]_vars => Control'
<1>1. ASSUME Control, UNCHANGED vars PROVE Control'
  BY <1>1
  DEF Control, LockHolder, HaltedFirst, NothingInHand, AnnouncedFirst,
      ShutDownIsAnnounced, InvalidNeverHandled, QuiescentCleanup,
      Handling, FrameLive, AllDone, vars, poolVars, acceptVars
<1>. QED BY <1>1, MainControl, WorkerControl DEF Next

-----------------------------------------------------------------------------
(* Who owns each connection.                                               *)

\* Initially nobody owns anything.
LEMMA InitOwners == Init => Owners
<1>. SUFFICES ASSUME Init PROVE Owners
  OBVIOUS
<1>1. OncePerConnection(<<>>) /\ \A e : ~Occurs(e, <<>>)
  BY DEF OncePerConnection, Occurs
<1>2. /\ backlog = <<>> /\ queue = <<>> /\ Handling = {}
      /\ main = "check" /\ \A c \in Conns : conn[c] = "new"
  BY DEF Init, PoolInit, Handling
<1>. QED
  BY <1>1, <1>2
  DEF Owners, BacklogHolds, OpenIffOwned, SingleOwner, NothingLeft,
      InMain, InQueue, InHandler

\* A step that moves no descriptor keeps the owners.
LEMMA SameOwners ==
  ASSUME Owners,
         UNCHANGED <<queue, listener, backlog, conn>>,
         main = "exited" <=> main' = "exited",
         \A c \in Conns : InMain(c)' <=> InMain(c),
         \A v \in Workers : /\ worker'[v] = "handle" <=> worker[v] = "handle"
                            /\ worker[v] = "handle" => held'[v] = held[v]
  PROVE  Owners'
<1>1. Handling' = Handling /\ \A c \in Conns : InHandler(c)' <=> InHandler(c)
  BY DEF Handling, InHandler
<1>2. \A c \in Conns : InQueue(c)' <=> InQueue(c)
  BY DEF InQueue
<1>3. BacklogHolds'
  BY DEF Owners, BacklogHolds
<1>4. OpenIffOwned'
  BY <1>1, <1>2 DEF Owners, OpenIffOwned
<1>5. SingleOwner'
  <2>1. \A v, u \in Handling' : held'[v] = held'[u] => v = u
    BY <1>1 DEF Owners, SingleOwner, Handling
  <2>. QED BY <1>1, <1>2, <2>1 DEF Owners, SingleOwner
<1>6. NothingLeft'
  BY DEF Owners, NothingLeft
<1>. QED BY <1>3, <1>4, <1>5, <1>6 DEF Owners

\* A new connection enters the backlog.
LEMMA ConnectOwners ==
  ASSUME TypeOK, Owners, NEW c \in Conns, Connect(c)
  PROVE  Owners'
<1>. USE DEF Connect, poolVars, TypeOK, ConnStates
<1>1. \A e : Occurs(e, backlog') <=> Occurs(e, backlog) \/ e = c
  BY AppendOccurs
<1>2. OncePerConnection(backlog')
  BY AppendOnce DEF Owners, BacklogHolds
<1>3. BacklogHolds'
  BY <1>1, <1>2 DEF Owners, BacklogHolds
<1>4. \A d \in Conns : (conn'[d] = "open" <=> conn[d] = "open")
  OBVIOUS
<1>. QED
  BY <1>3, <1>4
  DEF Owners, OpenIffOwned, SingleOwner, NothingLeft, InMain, InQueue, InHandler, Handling

\* The oldest connection of the backlog becomes main's.
LEMMA AcceptOwners ==
  ASSUME TypeOK, Owners, AcceptConnection
  PROVE  Owners'
<1>. DEFINE h == Head(backlog)
<1>1. /\ h \in Conns
      /\ Occurs(h, backlog)
      /\ OncePerConnection(backlog')
      /\ \A e : e # InvalidSd => (Occurs(e, backlog') <=> Occurs(e, backlog) /\ e # h)
  BY TailOnce DEF AcceptConnection, TypeOK, Owners, BacklogHolds
<1>2. /\ \A c \in Conns : conn'[c] = IF c = h THEN "open" ELSE conn[c]
      /\ conn[h] = "backlog"
  BY <1>1 DEF AcceptConnection, TypeOK, Owners, BacklogHolds
<1>3. /\ \A c \in Conns : InMain(c)' <=> c = h
      /\ \A c \in Conns : ~InMain(c)
      /\ \A c \in Conns : InQueue(c)' <=> InQueue(c)
      /\ \A c \in Conns : InHandler(c)' <=> InHandler(c)
      /\ Handling' = Handling /\ UNCHANGED <<queue, held>>
      /\ main # "exited" /\ main' # "exited"
  BY DEF AcceptConnection, poolVars, InMain, InQueue, InHandler, Handling
<1>4. ~InQueue(h) /\ ~InHandler(h)
  BY <1>1, <1>2, <1>3 DEF Owners, OpenIffOwned
<1>5. BacklogHolds'
  BY <1>1, <1>2, PoolAssumption DEF Owners, BacklogHolds
<1>6. OpenIffOwned'
  BY <1>2, <1>3, <1>4 DEF Owners, OpenIffOwned
<1>7. SingleOwner'
  BY <1>3, <1>4 DEF Owners, SingleOwner
<1>. QED BY <1>3, <1>5, <1>6, <1>7 DEF Owners, NothingLeft

\* What main holds goes to the end of the queue.
LEMMA DispatchOwners ==
  ASSUME TypeOK, Control, Owners, Dispatch
  PROVE  Owners'
<1>. USE DEF Dispatch, service_connection
<1>1. connSd \in Descriptors /\ queue \in Seq(Descriptors)
  BY DEF TypeOK, PoolTypeOK
<1>2. \A e : Occurs(e, queue') <=> Occurs(e, queue) \/ e = connSd
  BY <1>1, AppendOccurs
<1>3. \A c \in Conns : InMain(c) <=> connSd = c
  BY DEF InMain
<1>4. OncePerConnection(queue')
  <2>1. connSd = InvalidSd \/ ~Occurs(connSd, queue)
    BY <1>1, <1>3 DEF Owners, SingleOwner, Descriptors, InQueue
  <2>. QED BY <1>1, <2>1, AppendOnce DEF Owners, SingleOwner
<1>5. \A v \in Workers : worker'[v] = "handle" <=> worker[v] = "handle"
  BY NotifyOneEffect DEF TypeOK, PoolTypeOK
<1>6. /\ Handling' = Handling
      /\ \A c \in Conns : InHandler(c)' <=> InHandler(c)
      /\ \A c \in Conns : InQueue(c)' <=> InQueue(c) \/ InMain(c)
      /\ \A c \in Conns : ~InMain(c)'
  BY <1>2, <1>3, <1>5, PoolAssumption DEF Handling, InHandler, InQueue, InMain
<1>7. BacklogHolds'
  BY DEF Owners, BacklogHolds
<1>8. OpenIffOwned'
  BY <1>6 DEF Owners, OpenIffOwned
<1>9. SingleOwner'
  BY <1>4, <1>6 DEF Owners, SingleOwner
<1>. QED BY <1>7, <1>8, <1>9 DEF Owners, NothingLeft

\* A worker takes the oldest descriptor of the queue into its handler.
LEMMA PopOwners ==
  ASSUME TypeOK, Control, Owners, NEW w \in Workers, Pop(w), UNCHANGED acceptVars
  PROVE  Owners'
<1>. DEFINE h == Head(queue)
<1>. USE DEF Pop, Goto
<1>0. queue \in Seq(Descriptors) /\ worker \in [Workers -> WorkerPCs]
        /\ held \in [Workers -> Descriptors]
  BY DEF TypeOK, PoolTypeOK
<1>1. /\ h \in Descriptors
      /\ Occurs(h, queue)
      /\ OncePerConnection(queue')
      /\ \A e : e # InvalidSd => (Occurs(e, queue') <=> Occurs(e, queue) /\ e # h)
  BY <1>0, TailOnce DEF Owners, SingleOwner
<1>2. /\ UNCHANGED <<main, connSd, listener, backlog, conn>>
      /\ \A c \in Conns : InMain(c)' <=> InMain(c)
      /\ \A c \in Conns : InQueue(c)' <=> InQueue(c) /\ c # h
  BY <1>1, PoolAssumption DEF acceptVars, InMain, InQueue
<1>3. /\ w \notin Handling
      /\ held'[w] = h
      /\ Handling' = IF h = InvalidSd THEN Handling ELSE Handling \cup {w}
      /\ \A v \in Handling : held'[v] = held[v]
  BY <1>0 DEF Handling
<1>4. \A c \in Conns : InHandler(c)' <=> InHandler(c) \/ c = h
  BY <1>3, PoolAssumption DEF InHandler
<1>5. h \in Conns => InQueue(h) /\ ~InHandler(h) /\ ~InMain(h)
  BY <1>1 DEF Owners, SingleOwner, InQueue
<1>6. BacklogHolds'
  BY <1>2 DEF Owners, BacklogHolds
<1>7. OpenIffOwned'
  BY <1>2, <1>4, <1>5 DEF Owners, OpenIffOwned
<1>8. SingleOwner'
  <2>1. ASSUME NEW v \in Handling', NEW u \in Handling', held'[v] = held'[u]
        PROVE  v = u
    <3>1. v \in Handling /\ u \in Handling => v = u
      BY <1>3, <2>1 DEF Owners, SingleOwner
    <3>2. h = InvalidSd => v = u
      BY <1>3, <3>1
    <3>3. h \in Conns => \A x \in Handling : held[x] # h
      BY <1>5 DEF InHandler
    <3>. QED BY <1>1, <1>3, <2>1, <3>1, <3>2, <3>3 DEF Descriptors
  <2>2. \A c \in Conns : /\ ~(InMain(c)' /\ InQueue(c)')
                         /\ ~(InMain(c)' /\ InHandler(c)')
                         /\ ~(InQueue(c)' /\ InHandler(c)')
    BY <1>2, <1>4, <1>5 DEF Owners, SingleOwner
  <2>. QED BY <1>1, <2>1, <2>2 DEF SingleOwner
<1>. QED BY <1>2, <1>6, <1>7, <1>8 DEF Owners, NothingLeft

\* A worker closes the connection its handler is done with.
LEMMA ServeOwners ==
  ASSUME TypeOK, Control, Owners, NEW w \in Workers, ServeConnection(w)
  PROVE  Owners'
<1>. DEFINE h == held[w]
<1>. USE DEF ServeConnection, Return, Goto
<1>0. /\ worker \in [Workers -> WorkerPCs] /\ held \in [Workers -> Descriptors]
      /\ conn \in [Conns -> ConnStates]
  BY DEF TypeOK, PoolTypeOK
<1>1. w \in Handling /\ Handling' = Handling \ {w} /\ UNCHANGED <<held, queue, main, connSd>>
  BY <1>0 DEF Handling
<1>2. h \in Conns
  BY <1>0, <1>1 DEF Control, InvalidNeverHandled, Descriptors
<1>3. InHandler(h) /\ ~InMain(h) /\ ~InQueue(h)
  BY <1>1, <1>2 DEF InHandler, Owners, SingleOwner
<1>4. \A c \in Conns : conn'[c] = IF c = h THEN "closed" ELSE conn[c]
  BY <1>0
<1>5. /\ \A c \in Conns : InMain(c)' <=> InMain(c)
      /\ \A c \in Conns : InQueue(c)' <=> InQueue(c)
      /\ \A c \in Conns : InHandler(c)' <=> InHandler(c) /\ c # h
  BY <1>1 DEF InMain, InQueue, InHandler, Owners, SingleOwner
<1>6. main # "exited"
  BY <1>1 DEF Control, QuiescentCleanup, AllDone
<1>7. BacklogHolds'
  <2>1. conn[h] = "open"
    BY <1>2, <1>3, <1>6 DEF Owners, OpenIffOwned
  <2>. QED BY <1>4, <2>1 DEF Owners, BacklogHolds
<1>8. OpenIffOwned'
  BY <1>1, <1>3, <1>4, <1>5, <1>6 DEF Owners, OpenIffOwned
<1>9. SingleOwner'
  BY <1>1, <1>5 DEF Owners, SingleOwner
<1>. QED BY <1>1, <1>6, <1>7, <1>8, <1>9 DEF Owners, NothingLeft

\* The backlog is reset when the listening socket is shut down.
LEMMA ShutDownOwners ==
  ASSUME TypeOK, Control, Owners, NEW w \in Workers, ShutDown(w)
  PROVE  Owners'
<1>. USE DEF ShutDown, Goto
<1>1. /\ UNCHANGED <<queue, held, main, connSd>>
      /\ main # "exited"
      /\ \A v \in Workers : worker'[v] = "handle" <=> worker[v] = "handle"
  BY DEF TypeOK, PoolTypeOK, Control, QuiescentCleanup, AllDone
<1>2. \A c \in Conns : InMain(c)' <=> InMain(c)
  BY <1>1 DEF InMain
<1>3. CASE UNCHANGED <<listener, backlog, conn>>
  BY <1>1, <1>2, <1>3, SameOwners
<1>4. CASE listener = "listening" /\ ShutDownListener
  <2>1. /\ backlog' = <<>>
        /\ \A c \in Conns : conn'[c] = IF conn[c] = "backlog" THEN "reset" ELSE conn[c]
    BY <1>4 DEF ShutDownListener
  <2>2. OncePerConnection(<<>>) /\ \A e : ~Occurs(e, <<>>)
    BY DEF OncePerConnection, Occurs
  <2>3. BacklogHolds'
    BY <2>1, <2>2 DEF BacklogHolds
  <2>4. /\ Handling' = Handling
        /\ \A c \in Conns : InQueue(c)' <=> InQueue(c)
        /\ \A c \in Conns : InHandler(c)' <=> InHandler(c)
    BY <1>1 DEF Handling, InQueue, InHandler
  <2>5. OpenIffOwned'
    BY <1>1, <1>2, <2>1, <2>4 DEF Owners, OpenIffOwned
  <2>6. SingleOwner'
    BY <1>1, <1>2, <2>4 DEF Owners, SingleOwner
  <2>. QED BY <1>1, <2>3, <2>5, <2>6 DEF Owners, NothingLeft
<1>. QED BY <1>3, <1>4 DEF ShutDownListener

\* The process ends: every connection it still had is gone.
LEMMA ExitOwners ==
  ASSUME TypeOK, Control, Owners, Exit
  PROVE  Owners'
<1>. USE DEF Exit, poolVars
<1>1. OncePerConnection(<<>>) /\ \A e : ~Occurs(e, <<>>)
  BY DEF OncePerConnection, Occurs
<1>2. \A c \in Conns : conn'[c] \notin {"backlog", "open"}
  BY DEF TypeOK
<1>3. BacklogHolds'
  BY <1>1, <1>2 DEF BacklogHolds
<1>4. SingleOwner'
  <2>1. Handling' = Handling /\ \A c \in Conns : InQueue(c)' <=> InQueue(c)
    BY DEF Handling, InQueue
  <2>2. \A c \in Conns : ~InMain(c)' /\ (InHandler(c)' <=> InHandler(c))
    BY <2>1 DEF InMain, InHandler
  <2>. QED BY <2>1, <2>2 DEF Owners, SingleOwner
<1>. QED BY <1>2, <1>3, <1>4 DEF Owners, OpenIffOwned, NothingLeft

\* Every step keeps track of who owns each connection.
LEMMA NextOwners == TypeOK /\ Control /\ Owners /\ [Next]_vars => Owners'
<1>. SUFFICES ASSUME TypeOK, Control, Owners, [Next]_vars PROVE Owners'
  OBVIOUS
<1>1. ASSUME UNCHANGED <<queue, held, worker, listener, backlog, conn>>,
             main = "exited" <=> main' = "exited",
             \A c \in Conns : InMain(c)' <=> InMain(c)
      PROVE  Owners'
  BY <1>1, SameOwners
<1>2. CASE CheckActive \/ AwaitShutdown
  BY <1>1, <1>2 DEF CheckActive, AwaitShutdown, poolVars, InMain
<1>3. CASE AcceptShutDown \/ AcceptFails
  BY <1>1, <1>3, PoolAssumption DEF AcceptShutDown, AcceptFails, poolVars, InMain
<1>4. CASE UNCHANGED vars
  BY <1>1, <1>4 DEF vars, poolVars, acceptVars, InMain
<1>5. ASSUME NEW w \in Workers, PoolStep(w), UNCHANGED acceptVars PROVE Owners'
  <2>1. CASE Pop(w)
    BY <1>5, <2>1, PopOwners
  <2>2. CASE ~Pop(w)
    <3>1. UNCHANGED <<queue, main, connSd, listener, backlog, conn>>
      BY <1>5, <2>2
      DEF PoolStep, Top, Acquire, SkipWait, DecideToWait, Sleep, SpuriousWakeup, Resume,
          Halt, NotifyAll, acceptVars
    <3>2. \A v \in Workers : /\ worker'[v] = "handle" <=> worker[v] = "handle"
                             /\ worker[v] = "handle" => held'[v] = held[v]
      BY <1>5, <2>2
      DEF PoolStep, Top, Acquire, SkipWait, DecideToWait, Sleep, SpuriousWakeup, Resume,
          Halt, NotifyAll, Goto, Asleep, TypeOK, PoolTypeOK
    <3>. QED BY <3>1, <3>2, SameOwners DEF InMain
  <2>. QED BY <2>1, <2>2
<1>6. ASSUME NEW w \in Workers, AnnounceShutdown(w) PROVE Owners'
  <2>1. \A v \in Workers : worker'[v] = "handle" <=> worker[v] = "handle"
    BY <1>6 DEF AnnounceShutdown, Goto, TypeOK, PoolTypeOK
  <2>. QED BY <1>6, <2>1, SameOwners DEF AnnounceShutdown, InMain
<1>. QED
  BY <1>2, <1>3, <1>4, <1>5, <1>6, ConnectOwners, AcceptOwners, DispatchOwners,
     ServeOwners, ShutDownOwners, ExitOwners
  DEF Next, MainStep, WorkerStep

-----------------------------------------------------------------------------
(* A halt has a cause.                                                     *)

\* A connection once closed by the server stays so.
LEMMA ClosedStays ==
  ASSUME TypeOK, Control, Owners, [Next]_vars, NEW c \in Conns, conn[c] = "closed"
  PROVE  conn'[c] = "closed"
<1>1. \A d \in Conns : Connect(d) => conn'[c] = "closed"
  BY DEF Connect, TypeOK
<1>2. AcceptConnection => conn'[c] = "closed"
  <2>1. AcceptConnection => conn[Head(backlog)] = "backlog"
    BY TailOnce DEF AcceptConnection, TypeOK, Owners, BacklogHolds
  <2>. QED BY <2>1 DEF AcceptConnection, TypeOK
<1>3. Exit => conn'[c] = "closed"
  BY DEF Exit
<1>4. \A w \in Workers : ServeConnection(w) \/ ShutDown(w) => conn'[c] = "closed"
  BY DEF ServeConnection, ShutDown, ShutDownListener, TypeOK
<1>. QED
  BY <1>1, <1>2, <1>3, <1>4
  DEF Next, MainStep, WorkerStep, CheckActive, AcceptShutDown, AcceptFails, Dispatch,
      AwaitShutdown, AnnounceShutdown, vars, acceptVars

\* The pool is halted only by a worker that has served a BYE request.
LEMMA NextByeCausesHalt ==
  TypeOK /\ Control /\ Owners /\ ByeCausesHalt /\ [Next]_vars => ByeCausesHalt'
<1>. SUFFICES ASSUME TypeOK, Control, Owners, ByeCausesHalt, [Next]_vars
              PROVE  ByeCausesHalt'
  OBVIOUS
<1>. DEFINE Cause == halted \/ \E w \in Workers : worker[w] = "halt"
<1>1. Cause => \E c \in ByeConns : conn'[c] = "closed"
  BY ClosedStays, PoolAssumption DEF ByeCausesHalt
<1>2. ASSUME NEW w \in Workers, ServeConnection(w), ~Cause
      PROVE  ByeCausesHalt'
  <2>1. CASE held[w] \in ByeConns
    BY <1>2, <2>1, PoolAssumption DEF ServeConnection, Return, TypeOK, ByeCausesHalt
  <2>2. CASE held[w] \notin ByeConns
    BY <1>2, <2>2 DEF ServeConnection, Return, Goto, TypeOK, PoolTypeOK, ByeCausesHalt
  <2>. QED BY <2>1, <2>2
<1>3. ASSUME ~Cause, \A w \in Workers : ~ServeConnection(w) PROVE ~Cause'
  <2>1. ASSUME NEW w \in Workers, WorkerStep(w) PROVE ~Cause'
    BY <1>3, <2>1
    DEF WorkerStep, PoolStep, Top, Acquire, Pop, SkipWait, DecideToWait, Sleep,
        SpuriousWakeup, Resume, Halt, NotifyAll, AnnounceShutdown, ShutDown, Goto,
        Asleep, TypeOK, PoolTypeOK
  <2>2. CASE Dispatch
    <3>1. \A v \in Workers : worker'[v] = "halt" => worker[v] = "halt"
      BY <2>2, NotifyOneEffect DEF Dispatch, service_connection, TypeOK, PoolTypeOK
    <3>. QED BY <1>3, <2>2, <3>1 DEF Dispatch, service_connection
  <2>3. CASE UNCHANGED poolVars
    BY <1>3, <2>3 DEF poolVars
  <2>. QED
    BY <2>1, <2>2, <2>3
    DEF Next, MainStep, Connect, CheckActive, AcceptConnection, AcceptShutDown,
        AcceptFails, AwaitShutdown, Exit, vars
<1>. QED BY <1>1, <1>2, <1>3 DEF ByeCausesHalt

-----------------------------------------------------------------------------
(* Safety.                                                                 *)

\* The inductive invariant always holds.
THEOREM Invariance == Spec => []Inv
<1>1. Init => Inv
  <2>1. Init => ByeCausesHalt
    BY DEF Init, PoolInit, ByeCausesHalt
  <2>. QED BY <2>1, InitType, InitControl, InitOwners DEF Inv
<1>2. Inv /\ [Next]_vars => Inv'
  BY NextType, NextControl, NextOwners, NextByeCausesHalt DEF Inv
<1>. QED BY <1>1, <1>2, PTL DEF Spec

\* Every accepted connection always has exactly one owner: main, one slot of
\* the queue, or the handler of one worker.
THEOREM Ownership == Spec => [](OpenIffOwned /\ SingleOwner)
<1>1. Inv => OpenIffOwned /\ SingleOwner
  BY DEF Inv, Owners
<1>. QED BY <1>1, Invariance, PTL

\* No connection is ever handled twice, or by two workers at once.
THEOREM SingleOwnership == Spec => []SingleOwner
BY Ownership, PTL

\* The descriptor -1 never reaches the handler.
THEOREM NoInvalidHandled == Spec => []InvalidNeverHandled
<1>1. Inv => InvalidNeverHandled
  BY DEF Inv, Control
<1>. QED BY <1>1, Invariance, PTL

\* accept_client never mistakes the pool's own shutdown for an error.
THEOREM GracefulShutDown == Spec => []ShutDownIsAnnounced
<1>1. Inv => ShutDownIsAnnounced
  BY DEF Inv, Control
<1>. QED BY <1>1, Invariance, PTL

\* The Storage is shut down, and the pool deleted, after the last worker.
THEOREM CleanupIsQuiescent == Spec => []QuiescentCleanup
<1>1. Inv => QuiescentCleanup
  BY DEF Inv, Control
<1>. QED BY <1>1, Invariance, PTL

-----------------------------------------------------------------------------
(* Wakeups.                                                                *)

\* No step leaves an active pool with connections and only sleepers.
LEMMA NextNoLostWakeup ==
  ASSUME Workers # {}, TypeOK, Control, NoLostWakeup, [Next]_vars
  PROVE  NoLostWakeup'
<1>. DEFINE Awake == \E w \in Workers : worker[w] \notin {"asleep", "tosleep", "done"}
<1>. SUFFICES ASSUME queue' # <<>>, ~halted' PROVE Awake'
  BY DEF NoLostWakeup
<1>1. ASSUME NEW w \in Workers, WorkerStep(w) PROVE Awake'
  <2>1. CASE worker'[w] \notin {"asleep", "tosleep", "done"}
    BY <2>1
  <2>2. CASE Sleep(w) /\ UNCHANGED acceptVars
    <3>1. queue # <<>> /\ ~halted /\ worker[w] = "tosleep"
      BY <2>2 DEF Sleep
    <3>2. PICK v \in Workers : worker[v] \notin {"asleep", "tosleep", "done"}
      BY <3>1 DEF NoLostWakeup
    <3>3. worker'[v] = worker[v]
      BY <2>2, <3>1, <3>2 DEF Sleep, Goto, TypeOK, PoolTypeOK
    <3>. QED BY <3>2, <3>3
  <2>3. ~(worker[w] = "top" /\ halted)
    BY <1>1
    DEF WorkerStep, PoolStep, Top, Acquire, Pop, SkipWait, DecideToWait, Sleep,
        SpuriousWakeup, Resume, Halt, NotifyAll, ServeConnection, Return,
        AnnounceShutdown, ShutDown
  <2>. QED
    BY <1>1, <2>1, <2>2, <2>3
    DEF WorkerStep, PoolStep, Top, Acquire, Pop, SkipWait, DecideToWait,
        SpuriousWakeup, Resume, Halt, NotifyAll, ServeConnection, Return,
        AnnounceShutdown, ShutDown, Goto, TypeOK, PoolTypeOK
<1>2. CASE Dispatch
  <2>1. CASE \E w \in Asleep : worker' = [worker EXCEPT ![w] = "wakeup"]
    BY <2>1 DEF Asleep, TypeOK, PoolTypeOK
  <2>2. CASE Asleep = {} /\ UNCHANGED worker
    <3>1. \A w \in Workers : worker[w] \notin {"asleep", "tosleep", "done"}
      BY <1>2, <2>2, PoolAssumption
      DEF Dispatch, service_connection, Asleep, Control, LockHolder, HaltedFirst
    <3>. QED BY <2>2, <3>1
  <2>. QED BY <1>2, <2>1, <2>2 DEF Dispatch, service_connection, NotifyOne
<1>3. CASE UNCHANGED poolVars
  BY <1>3 DEF poolVars, NoLostWakeup
<1>. QED
  BY <1>1, <1>2, <1>3
  DEF Next, MainStep, Connect, CheckActive, AcceptConnection, AcceptShutDown,
      AcceptFails, AwaitShutdown, Exit, vars

\* With at least one worker, an active pool whose queue is not empty always has
\* a worker that is awake and will look at the queue.
THEOREM NoWakeupIsLost ==
  ASSUME Workers # {}
  PROVE  Spec => []NoLostWakeup
<1>1. Init => NoLostWakeup
  BY DEF Init, PoolInit, NoLostWakeup
<1>2. Inv /\ NoLostWakeup /\ [Next]_vars => NoLostWakeup'
  BY NextNoLostWakeup DEF Inv
<1>. QED BY <1>1, <1>2, Invariance, PTL DEF Spec

-----------------------------------------------------------------------------
(* One wakeup for every connection.                                        *)

\* A worker that has decided to sleep still has the mutex, so that nothing has
\* been queued since it saw the queue empty.
SleepyFoundNothing == \A w \in Workers : worker[w] = "tosleep" => queue = <<>>

\* No step leaves a worker about to sleep that has seen the queue filled.
LEMMA NextSleepyFoundNothing ==
  ASSUME TypeOK, Control, SleepyFoundNothing, [Next]_vars
  PROVE  SleepyFoundNothing'
<1>1. ASSUME NEW w \in Workers, WorkerStep(w) PROVE SleepyFoundNothing'
  <2>1. CASE Pop(w)
    <3>1. \A v \in Workers : worker'[v] # "tosleep"
      BY <2>1, PoolAssumption DEF Pop, Goto, TypeOK, PoolTypeOK, Control, LockHolder
    <3>. QED BY <3>1 DEF SleepyFoundNothing
  <2>2. CASE ~Pop(w)
    BY <1>1, <2>2
    DEF WorkerStep, PoolStep, Top, Acquire, SkipWait, DecideToWait, Sleep,
        SpuriousWakeup, Resume, Halt, NotifyAll, ServeConnection, Return, Asleep,
        AnnounceShutdown, ShutDown, Goto, TypeOK, PoolTypeOK, SleepyFoundNothing
  <2>. QED BY <2>1, <2>2
<1>2. CASE Dispatch
  <2>1. \A w \in Workers : worker[w] # "tosleep"
    BY <1>2, PoolAssumption DEF Dispatch, service_connection, Control, LockHolder
  <2>. QED BY <1>2, <2>1
    DEF Dispatch, service_connection, NotifyOne, Asleep, TypeOK, PoolTypeOK, SleepyFoundNothing
<1>3. CASE UNCHANGED poolVars
  BY <1>3 DEF poolVars, SleepyFoundNothing
<1>. QED
  BY <1>1, <1>2, <1>3
  DEF Next, MainStep, Connect, CheckActive, AcceptConnection, AcceptShutDown,
      AcceptFails, AwaitShutdown, Exit, vars

\* A step that leaves the queue as it was, and nobody less ready or newly asleep.
LEMMA StillReady ==
  ASSUME IsFiniteSet(Workers), TypeOK, NoSleeperWhileWaiting, ~halted, queue' = queue,
         Asleep' \subseteq Asleep, Ready \subseteq Ready'
  PROVE  NoSleeperWhileWaiting'
<1>1. IsFiniteSet(Ready')
  BY FS_Subset, Ready' \in SUBSET Workers DEF Ready
<1>2. Cardinality(Ready) <= Cardinality(Ready') /\ Cardinality(Ready) \in Nat
      /\ Cardinality(Ready') \in Nat
  <2>1. IsFiniteSet(Ready)
    BY <1>1, FS_Subset
  <2>. QED BY <1>1, <2>1, FS_Subset, FS_CardinalityType
<1>3. Len(queue) \in Nat
  BY DEF TypeOK, PoolTypeOK
<1>. QED BY <1>2, <1>3 DEF NoSleeperWhileWaiting

\* Each step keeps as many workers ready as connections are queued, if
\* anybody sleeps in an active pool.
LEMMA NextNoSleeper ==
  ASSUME IsFiniteSet(Workers), TypeOK, Control, SleepyFoundNothing, NoSleeperWhileWaiting,
         [Next]_vars
  PROVE  NoSleeperWhileWaiting'
<1>. SUFFICES ASSUME ~halted', Asleep' # {} PROVE NoSleeperWhileWaiting'
  BY DEF NoSleeperWhileWaiting
<1>1. IsFiniteSet(Ready) /\ Cardinality(Ready) \in Nat
  BY FS_Subset, FS_CardinalityType, Ready \in SUBSET Workers DEF Ready
<1>2. IsFiniteSet(Ready') /\ Cardinality(Ready') \in Nat
  BY FS_Subset, FS_CardinalityType, Ready' \in SUBSET Workers DEF Ready
<1>3. Len(queue) \in Nat
  BY DEF TypeOK, PoolTypeOK
<1>4. ASSUME NEW w \in Workers, WorkerStep(w) PROVE NoSleeperWhileWaiting'
  <2>1. ~halted
    BY <1>4
    DEF WorkerStep, PoolStep, Top, Acquire, Pop, SkipWait, DecideToWait, Sleep,
        SpuriousWakeup, Resume, Halt, NotifyAll, ServeConnection, Return,
        AnnounceShutdown, ShutDown
  <2>2. CASE Pop(w)
    <3>1. Len(queue') = Len(queue) - 1 /\ Asleep' = Asleep
      BY <2>2 DEF Pop, Goto, Asleep, TypeOK, PoolTypeOK
    <3>2. Len(queue) <= Cardinality(Ready)
      BY <2>1, <3>1 DEF NoSleeperWhileWaiting
    <3>3. w \in Ready /\ Ready \ {w} \subseteq Ready'
      BY <2>2 DEF Pop, Goto, Ready, TypeOK, PoolTypeOK
    <3>4. Cardinality(Ready) - 1 <= Cardinality(Ready')
      <4>1. Cardinality(Ready \ {w}) = Cardinality(Ready) - 1
        BY <1>1, <3>3, FS_RemoveElement
      <4>2. Cardinality(Ready \ {w}) <= Cardinality(Ready')
        BY <1>2, <3>3, FS_Subset
      <4>. QED BY <4>1, <4>2
    <3>. QED BY <1>1, <1>2, <1>3, <3>1, <3>2, <3>4 DEF NoSleeperWhileWaiting
  <2>3. CASE DecideToWait(w) \/ Sleep(w)
    <3>1. queue' = <<>>
      BY <2>3 DEF DecideToWait, Sleep, SleepyFoundNothing
    <3>. QED BY <1>2, <3>1 DEF NoSleeperWhileWaiting
  <2>4. CASE \/ Top(w) \/ Acquire(w) \/ SpuriousWakeup(w) \/ Resume(w) \/ ServeConnection(w)
    <3>1. queue' = queue /\ Asleep' \subseteq Asleep /\ Ready \subseteq Ready'
      BY <2>1, <2>4
      DEF Top, Acquire, SpuriousWakeup, Resume, ServeConnection, Return, Goto, Asleep, Ready,
          TypeOK, PoolTypeOK
    <3>. QED BY <2>1, <3>1, StillReady
  <2>5. worker[w] \notin {"notify", "announce", "shutdown"}
    BY <2>1 DEF Control, HaltedFirst
  <2>. QED
    BY <1>4, <2>1, <2>2, <2>3, <2>4, <2>5
    DEF WorkerStep, PoolStep, SkipWait, Halt, NotifyAll, AnnounceShutdown, ShutDown
<1>5. CASE Dispatch
  <2>1. PICK w \in Asleep : worker' = [worker EXCEPT ![w] = "wakeup"]
    BY <1>5 DEF Dispatch, service_connection, NotifyOne, Asleep
  <2>2. Len(queue') = Len(queue) + 1 /\ ~halted
    BY <1>5 DEF Dispatch, service_connection, TypeOK, PoolTypeOK
  <2>3. Len(queue) <= Cardinality(Ready)
    BY <2>1, <2>2 DEF NoSleeperWhileWaiting
  <2>4. w \notin Ready /\ Ready \cup {w} \subseteq Ready'
    BY <2>1 DEF Asleep, Ready, TypeOK, PoolTypeOK
  <2>5. Cardinality(Ready) + 1 <= Cardinality(Ready')
    BY <1>1, <1>2, <2>4, FS_AddElement, FS_Subset
  <2>. QED BY <1>1, <1>2, <1>3, <2>2, <2>3, <2>5 DEF NoSleeperWhileWaiting
<1>6. CASE UNCHANGED poolVars
  BY <1>6 DEF poolVars, NoSleeperWhileWaiting, Ready, Asleep
<1>. QED
  BY <1>4, <1>5, <1>6
  DEF Next, MainStep, Connect, CheckActive, AcceptConnection, AcceptShutDown,
      AcceptFails, AwaitShutdown, Exit, vars

\* However many workers there are, no worker of an active pool sleeps while more
\* connections wait than workers are up to take them.
THEOREM EveryConnectionHasAWakeup ==
  ASSUME IsFiniteSet(Workers)
  PROVE  Spec => []NoSleeperWhileWaiting
<1>. DEFINE WInv == SleepyFoundNothing /\ NoSleeperWhileWaiting
<1>1. Init => WInv
  <2>. SUFFICES ASSUME Init PROVE WInv
    OBVIOUS
  <2>. QED BY DEF Init, PoolInit, SleepyFoundNothing, NoSleeperWhileWaiting, Asleep
<1>2. Inv /\ WInv /\ [Next]_vars => WInv'
  BY NextSleepyFoundNothing, NextNoSleeper DEF Inv
<1>3. WInv => NoSleeperWhileWaiting
  OBVIOUS
<1>. QED BY <1>1, <1>2, <1>3, Invariance, PTL DEF Spec

-----------------------------------------------------------------------------
(* A stop is never stuck: the part of HaltLeadsToExit that is not liveness. *)

\* While accept_client goes on after a halt, the socket it may block in accept()
\* on has been shut down, or some worker is still on its way to do so.
MainIsWoken ==
  halted /\ FrameLive =>
    \/ listener # "listening"
    \/ \E w \in Workers : worker[w] \in {"notify", "announce", "shutdown"}

\* After a halt nobody sleeps, or is about to, whom no worker is still going to
\* wake.
SleepersAreWoken ==
  halted => \/ \A w \in Workers : worker[w] \notin {"tosleep", "asleep"}
            \/ \E w \in Workers : worker[w] = "notify"

\* The listening socket is closed by the end of the process and by nobody else.
ClosedAtExit == listener = "closed" => main = "exited"

\* Neither the mutex, the condition variable nor a silent client keeps w.
MayGoOn(w) ==
  \/ worker[w] \in {"top", "locked", "tosleep", "halt", "announce", "shutdown"}
  \/ worker[w] = "handle" /\ held[w] \notin SilentConns
  \/ worker[w] \in {"lock", "wakeup", "notify"} /\ lock = NoOne

\* Neither the mutex, accept() nor a join keeps the main thread.
MainMayGoOn ==
  \/ main \in {"check", "cleanup"}
  \/ main = "dispatch" /\ lock = NoOne
  \/ main = "accept" /\ (listener \in {"none", "shut"} \/ backlog # <<>>)
  \/ main = "join" /\ AllDone

\* From a halt to the end of the process there is always a thread that can go on,
\* if no silent client detains a worker: whatever the order of a halt, a dispatch
\* and a worker's decision to sleep, the threads do not all wait for one another.
StopIsNeverStuck ==
  halted /\ main # "exited" /\ ~Detained =>
    MainMayGoOn \/ \E w \in Workers : MayGoOn(w)

\* No step of a worker leaves main waiting for a connection after a halt.
LEMMA WorkerWakesMain ==
  ASSUME TypeOK, MainIsWoken, NEW w \in Workers, WorkerStep(w)
  PROVE  MainIsWoken'
<1>. USE DEF TypeOK, PoolTypeOK, Goto, MainIsWoken, FrameLive
<1>1. CASE Halt(w) /\ UNCHANGED acceptVars
  BY <1>1 DEF Halt
<1>2. CASE NotifyAll(w) /\ UNCHANGED acceptVars
  BY <1>2 DEF NotifyAll
<1>3. CASE AnnounceShutdown(w)
  BY <1>3 DEF AnnounceShutdown
<1>4. CASE ShutDown(w)
  BY <1>4 DEF ShutDown, ShutDownListener
<1>5. CASE ServeConnection(w)
  BY <1>5 DEF ServeConnection, Return
<1>. QED
  BY <1>1, <1>2, <1>3, <1>4, <1>5
  DEF WorkerStep, PoolStep, Top, Acquire, Pop, SkipWait, DecideToWait, Sleep, SpuriousWakeup,
      Resume, acceptVars

\* Main does not go back to accept() once the pool is halted.
LEMMA NextWakesMain ==
  ASSUME TypeOK, MainIsWoken, [Next]_vars
  PROVE  MainIsWoken'
<1>1. CASE Dispatch
  <2>1. \A v \in Workers : worker[v] # "asleep" => worker'[v] = worker[v]
    BY <1>1, NotifyOneEffect DEF Dispatch, service_connection, TypeOK, PoolTypeOK
  <2>. QED
    BY <1>1, <2>1 DEF Dispatch, service_connection, MainIsWoken, FrameLive
<1>2. CASE \/ UNCHANGED vars
           \/ \E c \in Conns : Connect(c)
           \/ MainStep /\ ~Dispatch
  BY <1>2
  DEF MainStep, Connect, CheckActive, check_active, AcceptConnection, AcceptShutDown,
      AcceptFails, AwaitShutdown, Exit, vars, poolVars, acceptVars, MainIsWoken, FrameLive
<1>. QED BY <1>1, <1>2, WorkerWakesMain DEF Next

\* Whoever goes to sleep decided to before the halt, and has the mutex that
\* notify_all needs.
LEMMA NextWakesSleepers ==
  ASSUME TypeOK, Control, SleepersAreWoken, [Next]_vars
  PROVE  SleepersAreWoken'
<1>1. ASSUME NEW w \in Workers, WorkerStep(w) PROVE SleepersAreWoken'
  <2>. USE DEF TypeOK, PoolTypeOK, Goto, SleepersAreWoken
  <2>1. CASE Halt(w)
    BY <2>1 DEF Halt
  <2>2. CASE NotifyAll(w)
    <3>1. \A v \in Workers : worker[v] # "tosleep"
      BY <2>2, PoolAssumption DEF NotifyAll, Control, LockHolder
    <3>. QED BY <2>2, <3>1 DEF NotifyAll, Asleep
  <2>3. CASE DecideToWait(w)
    BY <2>3 DEF DecideToWait
  <2>. QED
    BY <1>1, <2>1, <2>2, <2>3
    DEF WorkerStep, PoolStep, Top, Acquire, Pop, SkipWait, Sleep, SpuriousWakeup, Resume,
        ServeConnection, Return, AnnounceShutdown, ShutDown
<1>2. CASE Dispatch
  <2>1. \A v \in Workers : \/ worker'[v] = worker[v]
                           \/ worker[v] = "asleep" /\ worker'[v] = "wakeup"
    BY <1>2, NotifyOneEffect DEF Dispatch, service_connection, TypeOK, PoolTypeOK
  <2>. QED BY <1>2, <2>1 DEF Dispatch, service_connection, SleepersAreWoken
<1>3. CASE UNCHANGED poolVars
  BY <1>3 DEF poolVars, SleepersAreWoken
<1>. QED
  BY <1>1, <1>2, <1>3
  DEF Next, MainStep, Connect, CheckActive, AcceptConnection, AcceptShutDown, AcceptFails,
      AwaitShutdown, Exit, vars

\* accept_client shuts the socket and leaves its close to main.
LEMMA NextClosedAtExit == ClosedAtExit /\ [Next]_vars => ClosedAtExit'
BY DEF Next, MainStep, WorkerStep, PoolStep, Connect, CheckActive, AcceptConnection,
       AcceptShutDown, AcceptFails, Dispatch, AwaitShutdown, Exit, ServeConnection,
       AnnounceShutdown, ShutDown, ShutDownListener, vars, acceptVars, ClosedAtExit

\* The three waits of a stop, on the condition variable, in accept() and in the
\* joins, all end.
LEMMA SomebodyMayGoOn ==
  Inv /\ MainIsWoken /\ SleepersAreWoken /\ ClosedAtExit => StopIsNeverStuck
<1>. SUFFICES ASSUME Inv, MainIsWoken, SleepersAreWoken, ClosedAtExit, halted, main # "exited", ~Detained,
                     \A w \in Workers : ~MayGoOn(w)
              PROVE  MainMayGoOn
  BY DEF StopIsNeverStuck
<1>1. \A w \in Workers : worker[w] \in WorkerPCs
  BY DEF Inv, TypeOK, PoolTypeOK
<1>2. lock = NoOne
  <2>1. \A w \in Workers : lock # w
    BY DEF Inv, Control, LockHolder, MayGoOn
  <2>. QED BY <2>1 DEF Inv, TypeOK, PoolTypeOK
<1>3. \A w \in Workers : worker[w] \in {"asleep", "done"}
  BY <1>1, <1>2 DEF MayGoOn, Detained, Handling, WorkerPCs
<1>4. AllDone
  BY <1>3 DEF SleepersAreWoken, AllDone
<1>5. main = "accept" => listener \in {"none", "shut"}
  <2>1. main = "accept" => listener # "listening"
    BY <1>3 DEF MainIsWoken, FrameLive
  <2>. QED BY <2>1 DEF Inv, TypeOK, ClosedAtExit
<1>. QED BY <1>2, <1>4, <1>5 DEF MainMayGoOn, Inv, TypeOK, MainPCs

\* From a halt to the end of the process some thread can always go on.
THEOREM StopGoesOn == Spec => []StopIsNeverStuck
<1>. DEFINE SInv == MainIsWoken /\ SleepersAreWoken /\ ClosedAtExit
<1>1. Init => SInv
  BY DEF Init, PoolInit, MainIsWoken, SleepersAreWoken, ClosedAtExit
<1>2. Inv /\ SInv /\ [Next]_vars => SInv'
  BY NextWakesMain, NextWakesSleepers, NextClosedAtExit DEF Inv
<1>3. Inv /\ SInv => StopIsNeverStuck
  BY SomebodyMayGoOn
<1>. QED BY <1>1, <1>2, <1>3, Invariance, PTL DEF Spec

\* A connection of a client that talks, once it was accepted, is in main's hand and
\* the mutex is free, or some worker can go on, until the pool is halted: silent
\* clients, as long as there are fewer of them than workers, do not stop the others.
AcceptedIsNeverStuck ==
  Cardinality(SilentConns) < Cardinality(Workers) =>
    \A c \in Conns \ SilentConns : conn[c] = "open" /\ ~halted =>
      \/ InMain(c) /\ lock = NoOne
      \/ \E w \in Workers : MayGoOn(w)

\* Workers that cannot go on sleep, which leaves the queue empty, or are in the
\* handler, each with a silent client of its own.
LEMMA AcceptedMayGoOn ==
  ASSUME IsFiniteSet(Workers), IsFiniteSet(SilentConns), Inv, NoSleeperWhileWaiting
  PROVE  AcceptedIsNeverStuck
<1>. SUFFICES ASSUME Cardinality(SilentConns) < Cardinality(Workers), ~halted,
                     NEW c \in Conns \ SilentConns, conn[c] = "open",
                     \A w \in Workers : ~MayGoOn(w)
              PROVE  InMain(c) /\ lock = NoOne
  BY DEF AcceptedIsNeverStuck
<1>1. \A w \in Workers : worker[w] \in WorkerPCs
  BY DEF Inv, TypeOK, PoolTypeOK
<1>2. lock = NoOne
  <2>1. \A w \in Workers : lock # w
    BY DEF Inv, Control, LockHolder, MayGoOn
  <2>. QED BY <2>1 DEF Inv, TypeOK, PoolTypeOK
<1>3. \A w \in Workers : worker[w] = "asleep" \/ (w \in Handling /\ held[w] \in SilentConns)
  BY <1>1, <1>2 DEF MayGoOn, Handling, WorkerPCs, Inv, Control, HaltedFirst
<1>4. ~InHandler(c)
  BY <1>3 DEF InHandler, Handling
<1>5. ASSUME InQueue(c) PROVE FALSE
  <2>1. Len(queue) \in Nat /\ Len(queue) > 0
    BY <1>5 DEF InQueue, Occurs, Inv, TypeOK, PoolTypeOK
  <2>2. Ready = {}
    BY <1>3 DEF Ready, Handling
  <2>3. Asleep = {}
    <3>1. Cardinality(Ready) = 0
      BY <2>2, FS_EmptySet
    <3>. QED BY <2>1, <3>1 DEF NoSleeperWhileWaiting
  <2>4. \A w \in Workers : w \in Handling /\ held[w] \in SilentConns
    BY <1>3, <2>3 DEF Asleep
  <2>. DEFINE f == [w \in Workers |-> held[w]]
  <2>5. f \in [Workers -> SilentConns]
    BY <2>4
  <2>. HIDE DEF f
  <2>6. \E v, w \in Workers : v # w /\ f[v] = f[w]
    BY <2>5, FS_PigeonHole
  <2>. QED BY <2>4, <2>6 DEF f, Inv, Owners, SingleOwner
<1>6. main # "exited"
  BY DEF Inv, Owners, NothingLeft
<1>. QED BY <1>2, <1>4, <1>5, <1>6 DEF Inv, Owners, OpenIffOwned

\* An accepted connection is never left to threads that all wait: the part of
\* AcceptedIsServed that is not liveness, for any finite number of workers.
THEOREM AcceptedGoesOn ==
  ASSUME IsFiniteSet(Workers), IsFiniteSet(SilentConns)
  PROVE  Spec => []AcceptedIsNeverStuck
<1>1. Inv /\ NoSleeperWhileWaiting => AcceptedIsNeverStuck
  BY AcceptedMayGoOn
<1>. QED BY <1>1, Invariance, EveryConnectionHasAWakeup, PTL

\* What is left for a worker, and for main, once the pool is halted: no place of
\* their loops leads back to one before it.
WorkerLeft ==
  [lock |-> 8, locked |-> 7, handle |-> 6, halt |-> 5, notify |-> 4, tosleep |-> 4,
   announce |-> 3, asleep |-> 3, shutdown |-> 2, wakeup |-> 2, top |-> 1, done |-> 0]

MainLeft ==
  [accept |-> 5, dispatch |-> 4, check |-> 3, join |-> 2, cleanup |-> 1, exited |-> 0]

\* After a halt each step brings some thread nearer to its end and none further
\* away, except that connections may still come in.
StopComesNearer ==
  [][halted =>
       /\ MainLeft[main'] <= MainLeft[main]
       /\ \A w \in Workers : WorkerLeft[worker'[w]] <= WorkerLeft[worker[w]]
       /\ \/ \E c \in Conns : Connect(c)
          \/ MainLeft[main'] < MainLeft[main]
          \/ \E w \in Workers : WorkerLeft[worker'[w]] < WorkerLeft[worker[w]]]_vars

\* What is left is a number.
LEMMA LeftIsNat ==
  /\ \A pc \in MainPCs : MainLeft[pc] \in Nat
  /\ \A pc \in WorkerPCs : WorkerLeft[pc] \in Nat
BY DEF MainPCs, WorkerPCs, MainLeft, WorkerLeft

\* A worker does not go back in its loop once it can see the halt.
LEMMA WorkerComesNearer ==
  ASSUME TypeOK, TypeOK', halted, NEW w \in Workers, WorkerStep(w)
  PROVE  /\ main' = main
         /\ \A v \in Workers : WorkerLeft[worker'[v]] <= WorkerLeft[worker[v]]
         /\ WorkerLeft[worker'[w]] < WorkerLeft[worker[w]]
<1>. DEFINE Turns == {<<"top", "done">>, <<"lock", "locked">>, <<"locked", "top">>,
                      <<"locked", "handle">>, <<"tosleep", "asleep">>, <<"asleep", "wakeup">>,
                      <<"wakeup", "top">>, <<"handle", "halt">>, <<"handle", "top">>,
                      <<"halt", "notify">>, <<"notify", "announce">>,
                      <<"announce", "shutdown">>, <<"shutdown", "top">>}
<1>1. /\ <<worker[w], worker'[w]>> \in Turns
      /\ \A v \in Workers \ {w} :
           worker'[v] = worker[v] \/ <<worker[v], worker'[v]>> = <<"asleep", "wakeup">>
  BY DEF WorkerStep, PoolStep, Top, Acquire, Pop, SkipWait, DecideToWait, Sleep,
         SpuriousWakeup, Resume, Halt, NotifyAll, ServeConnection, Return, AnnounceShutdown,
         ShutDown, Goto, Asleep, TypeOK, PoolTypeOK
<1>2. \A t \in Turns : WorkerLeft[t[2]] < WorkerLeft[t[1]]
  BY DEF WorkerLeft
<1>3. \A v \in Workers : WorkerLeft[worker[v]] \in Nat /\ WorkerLeft[worker'[v]] \in Nat
  BY LeftIsNat DEF TypeOK, PoolTypeOK
<1>4. main' = main
  BY DEF WorkerStep, ServeConnection, AnnounceShutdown, ShutDown, acceptVars
<1>5. WorkerLeft[worker'[w]] < WorkerLeft[worker[w]]
  BY <1>1, <1>2
<1>6. ASSUME NEW v \in Workers \ {w} PROVE WorkerLeft[worker'[v]] <= WorkerLeft[worker[v]]
  <2>1. CASE worker'[v] = worker[v]
    BY <1>3, <2>1
  <2>2. CASE <<worker[v], worker'[v]>> = <<"asleep", "wakeup">>
    BY <2>2 DEF WorkerLeft
  <2>. QED BY <1>1, <2>1, <2>2
<1>. QED BY <1>3, <1>4, <1>5, <1>6

\* Neither does main, which wakes at most a worker.
LEMMA MainComesNearer ==
  ASSUME TypeOK, TypeOK', halted, MainStep
  PROVE  /\ MainLeft[main'] < MainLeft[main]
         /\ \A v \in Workers : WorkerLeft[worker'[v]] <= WorkerLeft[worker[v]]
<1>1. MainLeft[main'] < MainLeft[main]
  <2>1. <<main, main'>> \in {<<"check", "join">>, <<"accept", "dispatch">>,
                             <<"accept", "join">>, <<"dispatch", "check">>,
                             <<"join", "cleanup">>, <<"cleanup", "exited">>}
    BY DEF MainStep, CheckActive, check_active, AcceptConnection, AcceptShutDown, AcceptFails,
           Dispatch, AwaitShutdown, Exit
  <2>. QED BY <2>1 DEF MainLeft
<1>2. ASSUME NEW v \in Workers PROVE WorkerLeft[worker'[v]] <= WorkerLeft[worker[v]]
  <2>1. worker'[v] = worker[v] \/ (worker[v] = "asleep" /\ worker'[v] = "wakeup")
    <3>1. CASE Dispatch
      BY <3>1, NotifyOneEffect DEF Dispatch, service_connection, TypeOK, PoolTypeOK
    <3>. QED
      BY <3>1 DEF MainStep, CheckActive, AcceptConnection, AcceptShutDown, AcceptFails,
                  AwaitShutdown, Exit, poolVars
  <2>2. CASE worker'[v] = worker[v]
    BY <2>2, LeftIsNat DEF TypeOK, PoolTypeOK
  <2>3. CASE worker[v] = "asleep" /\ worker'[v] = "wakeup"
    BY <2>3 DEF WorkerLeft
  <2>. QED BY <2>1, <2>2, <2>3
<1>. QED BY <1>1, <1>2

\* Once the pool is halted, the threads take no more steps than there are places
\* left in their loops: with StopGoesOn, a stop that nobody detains comes to its end.
THEOREM StopEnds == Spec => StopComesNearer
<1>. DEFINE Nearer ==
       /\ MainLeft[main'] <= MainLeft[main]
       /\ \A w \in Workers : WorkerLeft[worker'[w]] <= WorkerLeft[worker[w]]
       /\ \/ \E c \in Conns : Connect(c)
          \/ MainLeft[main'] < MainLeft[main]
          \/ \E w \in Workers : WorkerLeft[worker'[w]] < WorkerLeft[worker[w]]
<1>1. ASSUME TypeOK, TypeOK', halted, Next PROVE Nearer
  <2>1. /\ MainLeft[main] \in Nat /\ MainLeft[main'] \in Nat
        /\ \A v \in Workers : WorkerLeft[worker[v]] \in Nat
    BY <1>1, LeftIsNat DEF TypeOK, PoolTypeOK
  <2>2. CASE MainStep
    BY <1>1, <2>1, <2>2, MainComesNearer
  <2>3. ASSUME NEW w \in Workers, WorkerStep(w) PROVE Nearer
    <3>1. /\ main' = main
          /\ \A v \in Workers : WorkerLeft[worker'[v]] <= WorkerLeft[worker[v]]
          /\ WorkerLeft[worker'[w]] < WorkerLeft[worker[w]]
      BY <1>1, <2>3, WorkerComesNearer
    <3>. QED BY <2>1, <3>1
  <2>4. ASSUME NEW c \in Conns, Connect(c) PROVE Nearer
    <3>1. UNCHANGED <<main, worker>>
      BY <2>4 DEF Connect, poolVars
    <3>. QED BY <2>1, <2>4, <3>1
  <2>. QED BY <1>1, <2>2, <2>3, <2>4 DEF Next
<1>2. Inv /\ Inv' /\ [Next]_vars => [halted => Nearer]_vars
  BY <1>1 DEF Inv
<1>. QED BY <1>2, Invariance, PTL DEF Spec, StopComesNearer

-----------------------------------------------------------------------------
(* The connection path implements ConnService.                             *)

\* A step that changes no connection's state and no handler is a stutter.
LEMMA SameStatus ==
  ASSUME UNCHANGED conn, main = "exited" <=> main' = "exited",
         \A c \in Conns : InHandler(c)' <=> InHandler(c)
  PROVE  UNCHANGED Service!serviceVars
BY DEF statusBar, Service!serviceVars

\* Steps of the main thread and of clients, except the last one.
LEMMA MainRefines ==
  ASSUME Inv, MainStep \/ (\E c \in Conns : Connect(c)), ~Exit
  PROVE  [Service!ServiceNext]_Service!serviceVars
<1>. USE DEF Inv, Owners, OpenIffOwned, TypeOK
<1>1. ASSUME UNCHANGED <<worker, held>>
      PROVE  \A c \in Conns : InHandler(c)' <=> InHandler(c)
  BY <1>1 DEF InHandler, Handling
<1>2. ASSUME NEW c \in Conns, Connect(c) PROVE Service!Arrive(c)
  <2>1. main # "exited" /\ main' = main
    BY <1>2 DEF Connect, NothingLeft
  <2>2. ~InHandler(c) /\ \A d \in Conns : InHandler(d)' <=> InHandler(d)
    BY <1>1, <1>2, <2>1 DEF Connect, poolVars
  <2>3. statusBar[c] = "new" /\ statusBar' = [statusBar EXCEPT ![c] = "waiting"]
    BY <1>2, <2>2 DEF Connect, statusBar
  <2>. QED BY <2>1, <2>3 DEF Service!Arrive
<1>3. CASE AcceptConnection
  <2>1. conn[Head(backlog)] = "backlog" /\ Head(backlog) \in Conns
    BY <1>3, TailOnce DEF AcceptConnection, BacklogHolds
  <2>2. ~InHandler(Head(backlog)) /\ \A d \in Conns : InHandler(d)' <=> InHandler(d)
    BY <1>1, <1>3, <2>1 DEF AcceptConnection, poolVars
  <2>3. UNCHANGED <<statusBar, main = "exited">>
    BY <1>3, <2>1, <2>2 DEF AcceptConnection, statusBar
  <2>. QED BY <2>3 DEF Service!serviceVars
<1>4. CASE Dispatch
  <2>1. \A v \in Workers : worker'[v] = "handle" <=> worker[v] = "handle"
    BY <1>4, NotifyOneEffect DEF Dispatch, service_connection, PoolTypeOK
  <2>2. \A c \in Conns : InHandler(c)' <=> InHandler(c)
    BY <1>4, <2>1 DEF Dispatch, service_connection, InHandler, Handling
  <2>. QED BY <1>4, <2>2, SameStatus DEF Dispatch
<1>5. CASE CheckActive \/ AcceptShutDown \/ AcceptFails \/ AwaitShutdown
  BY <1>1, <1>5, SameStatus
  DEF CheckActive, AcceptShutDown, AcceptFails, AwaitShutdown, poolVars
<1>. QED
  BY <1>2, <1>3, <1>4, <1>5 DEF MainStep, Service!ServiceNext

\* The end of the process is the end of the service.
LEMMA ExitRefines ==
  ASSUME Workers # {}, Inv, Exit
  PROVE  Service!Stop
<1>. USE DEF Inv, TypeOK
<1>1. halted /\ AllDone
  BY DEF Exit, Control, QuiescentCleanup, HaltedFirst, AllDone
<1>2. \A c \in Conns : ~InHandler(c) /\ ~InHandler(c)'
  BY <1>1 DEF InHandler, Handling, AllDone, Exit, poolVars
<1>3. Service!StopRequested
  BY <1>1, PoolAssumption DEF ByeCausesHalt, Service!StopRequested, statusBar
<1>4. \A c \in Conns : statusBar[c] # "serving"
  BY <1>2 DEF statusBar
<1>5. statusBar' = [c \in Conns |->
                      IF c \in {d \in Conns : statusBar[d] = "waiting"}
                        THEN "lost" ELSE statusBar[c]]
  BY <1>2 DEF statusBar, Exit, ConnStates
<1>. QED BY <1>3, <1>4, <1>5 DEF Exit, Service!Stop, Service!DropWaiting

\* Steps of a worker.
LEMMA WorkerRefines ==
  ASSUME Inv, NEW w \in Workers, WorkerStep(w)
  PROVE  [Service!ServiceNext]_Service!serviceVars
<1>. USE DEF Inv, Owners, OpenIffOwned, TypeOK, PoolTypeOK, Goto
<1>1. main # "exited" /\ main' = main
  BY DEF WorkerStep, PoolStep, Top, Acquire, Pop, SkipWait, DecideToWait, Sleep,
         SpuriousWakeup, Resume, Halt, NotifyAll, ServeConnection, Return,
         AnnounceShutdown, ShutDown, Control, QuiescentCleanup, AllDone, acceptVars
<1>2. ASSUME UNCHANGED conn,
             \A v \in Workers : /\ worker'[v] = "handle" <=> worker[v] = "handle"
                                /\ worker[v] = "handle" => held'[v] = held[v]
      PROVE  UNCHANGED Service!serviceVars
  <2>1. \A c \in Conns : InHandler(c)' <=> InHandler(c)
    BY <1>2 DEF InHandler, Handling
  <2>. QED BY <1>1, <1>2, <2>1, SameStatus
<1>3. CASE Pop(w) /\ UNCHANGED acceptVars /\ Head(queue) # InvalidSd
  <2>. DEFINE h == Head(queue)
  <2>1. h \in Conns /\ InQueue(h) /\ ~InHandler(h) /\ conn[h] = "open"
    BY <1>1, <1>3, TailOnce DEF Pop, SingleOwner, Descriptors, InQueue
  <2>2. \A c \in Conns : InHandler(c)' <=> InHandler(c) \/ c = h
    BY <1>3 DEF Pop, InHandler, Handling
  <2>3. statusBar[h] = "waiting" /\ statusBar' = [statusBar EXCEPT ![h] = "serving"]
    BY <1>3, <2>1, <2>2 DEF acceptVars, statusBar
  <2>4. Service!Begin(h)
    BY <1>1, <2>3 DEF Service!Begin
  <2>. QED BY <2>1, <2>4 DEF Service!ServiceNext
<1>4. CASE /\ PoolStep(w) /\ UNCHANGED acceptVars
           /\ ~(Pop(w) /\ Head(queue) # InvalidSd)
  <2>1. \A v \in Workers : /\ worker'[v] = "handle" <=> worker[v] = "handle"
                           /\ worker[v] = "handle" => held'[v] = held[v]
    BY <1>4
    DEF PoolStep, Top, Acquire, Pop, SkipWait, DecideToWait, Sleep, SpuriousWakeup,
        Resume, Halt, NotifyAll, Asleep
  <2>. QED BY <1>2, <1>4, <2>1 DEF acceptVars
<1>5. CASE ServeConnection(w)
  <2>. DEFINE h == held[w]
  <2>1. h \in Conns /\ InHandler(h) /\ conn[h] = "open"
    BY <1>1, <1>5
    DEF ServeConnection, Return, Control, InvalidNeverHandled, Handling, InHandler,
        Descriptors
  <2>2. \A c \in Conns : c # h => (InHandler(c)' <=> InHandler(c))
    BY <1>5 DEF ServeConnection, Return, InHandler, Handling
  <2>3. statusBar[h] = "serving" /\ statusBar' = [statusBar EXCEPT ![h] = "served"]
    BY <1>5, <2>1, <2>2 DEF ServeConnection, statusBar
  <2>4. Service!Finish(h)
    BY <1>1, <2>3 DEF Service!Finish
  <2>. QED BY <2>1, <2>4 DEF Service!ServiceNext
<1>6. CASE AnnounceShutdown(w)
  BY <1>2, <1>6 DEF AnnounceShutdown
<1>7. CASE ShutDown(w) /\ UNCHANGED conn
  BY <1>2, <1>7 DEF ShutDown
<1>8. CASE ShutDown(w) /\ listener = "listening" /\ ShutDownListener
  <2>. DEFINE S == {c \in Conns : conn[c] = "backlog"}
  <2>1. \A c \in Conns : InHandler(c)' <=> InHandler(c)
    BY <1>8 DEF ShutDown, InHandler, Handling
  <2>2. \A c \in S : ~InHandler(c)
    BY <1>1
  <2>3. S \subseteq {c \in Conns : statusBar[c] = "waiting"}
    BY <2>2 DEF statusBar
  <2>4. statusBar' = [c \in Conns |-> IF c \in S THEN "lost" ELSE statusBar[c]]
    BY <1>8, <2>1 DEF ShutDownListener, statusBar
  <2>5. Service!StopRequested
    BY <1>8, PoolAssumption
    DEF ShutDown, Control, HaltedFirst, ByeCausesHalt, Service!StopRequested, statusBar
  <2>6. Service!TurnAway(S)
    BY <1>1, <2>3, <2>4, <2>5 DEF Service!TurnAway, Service!DropWaiting
  <2>. QED BY <2>6 DEF Service!ServiceNext
<1>. QED
  BY <1>3, <1>4, <1>5, <1>6, <1>7, <1>8 DEF WorkerStep, ShutDown, ShutDownListener

\* With at least one worker, the threads, the mutex, the queue and the socket
\* keep what ConnService promises each connection.
THEOREM Refinement ==
  ASSUME Workers # {}
  PROVE  Spec => ImplementsService
<1>1. Init => Service!ServiceInit
  BY DEF Init, Service!ServiceInit, statusBar
<1>2. Inv /\ [Next]_vars => [Service!ServiceNext]_Service!serviceVars
  <2>1. Inv /\ UNCHANGED vars => UNCHANGED Service!serviceVars
    BY SameStatus DEF vars, poolVars, acceptVars, InHandler, Handling
  <2>2. Service!Stop => Service!ServiceNext
    BY DEF Service!ServiceNext
  <2>. QED
    BY <2>1, <2>2, MainRefines, ExitRefines, WorkerRefines DEF Next, MainStep
<1>. QED BY <1>1, <1>2, Invariance, PTL DEF Spec, ImplementsService, Service!ServiceSpec

-----------------------------------------------------------------------------
(* The connection path is the end of main as ServerMain has it.             *)

\* ServerMain's variables from the start of the pool on.  a, d and s are what
\* the first half of main left: the fields of arg_t, whether there was a data
\* file, and whether create_server_socket returned a socket.
MainPlace ==
  IF FrameLive THEN "accept"
  ELSE IF main = "join" THEN "join"
  ELSE IF main = "cleanup" THEN "deletes" ELSE "exited"

ProcessUp == main # "exited"

Main(a, d, s) ==
  INSTANCE ServerMain
    WITH Texts <- {}, Atoi <- [t \in {} |-> 0], Garbage <- {}, LoadResults <- {},
         DefaultThreads <- 0,
         place <- MainPlace, args <- a, dataFile <- d,
         heap <- IF ProcessUp THEN {"args", "storage", "pool"} ELSE {},
         pri <- IF ProcessUp THEN "live" ELSE "freed",
         loaded <- TRUE,
         socket <- IF ~s THEN "none" ELSE IF ProcessUp THEN "listening" ELSE "closed",
         sd <- s,
         mgr <- [m \in {"r", "cs", "csd"} |->
                   IF m = "cs" THEN IF s THEN "disabled" ELSE "none"
                   ELSE IF ProcessUp THEN "armed" ELSE "ran"],
         pool <- IF ~ProcessUp THEN "deleted" ELSE IF halted THEN "halted" ELSE "active",
         status <- 0

EndOfMain(a, d, s) ==
  \/ Main(a, d, s)!HaltPool
  \/ Main(a, d, s)!AcceptReturns
  \/ Main(a, d, s)!AcceptFails
  \/ Main(a, d, s)!AwaitShutdown
  \/ Main(a, d, s)!Finish

\* What they say of the listening socket: one that was made is there until the
\* process ends, and a set-up that failed brought no connection.
MainInv(s) ==
  /\ s => (ProcessUp => listener \in {"listening", "shut"})
  /\ ~s => /\ ProcessUp => listener = "none"
           /\ \A c \in Conns : conn[c] = "new"

\* Without a socket nobody is served, and so nobody halts the pool.
LEMMA NoSocketNoHalt ==
  ASSUME Inv, MainInv(FALSE)
  PROVE  ~halted /\ \A w \in Workers : worker[w] \notin {"handle", "halt"}
<1>1. ~halted /\ \A w \in Workers : worker[w] # "halt"
  BY PoolAssumption DEF Inv, ByeCausesHalt, MainInv
<1>2. ASSUME NEW w \in Workers, worker[w] = "handle" PROVE FALSE
  <2>1. main # "exited"
    BY <1>2 DEF Inv, Control, QuiescentCleanup, AllDone
  <2>2. held[w] \in Conns /\ InHandler(held[w])
    BY <1>2 DEF Inv, Control, InvalidNeverHandled, Handling, InHandler, TypeOK,
      PoolTypeOK, Descriptors
  <2>. QED
    BY <2>1, <2>2 DEF Inv, Owners, OpenIffOwned, MainInv
<1>. QED
  BY <1>1, <1>2

\* The steps of the main thread and of clients keep MainInv.
LEMMA MainKeepsMainInv ==
  ASSUME NEW s \in BOOLEAN, Inv, MainInv(s),
         MainStep \/ (\E c \in Conns : Connect(c))
  PROVE  MainInv(s)'
<1>. USE DEF MainInv, ProcessUp, poolVars
<1>1. CASE \E c \in Conns : Connect(c)
  BY <1>1 DEF Connect, Inv, Owners, NothingLeft
<1>2. CASE CheckActive
  BY <1>2 DEF CheckActive
<1>3. CASE AcceptConnection
  BY <1>3 DEF AcceptConnection
<1>4. CASE AcceptShutDown
  BY <1>4 DEF AcceptShutDown
<1>5. CASE AcceptFails
  BY <1>5 DEF AcceptFails
<1>6. CASE Dispatch
  BY <1>6 DEF Dispatch, service_connection
<1>7. CASE AwaitShutdown
  BY <1>7 DEF AwaitShutdown
<1>8. CASE Exit
  BY <1>8 DEF Exit
<1>. QED
  BY <1>1, <1>2, <1>3, <1>4, <1>5, <1>6, <1>7, <1>8 DEF MainStep

\* The steps of the workers keep it.
LEMMA WorkerKeepsMainInv ==
  ASSUME NEW s \in BOOLEAN, Inv, MainInv(s), NEW w \in Workers, WorkerStep(w)
  PROVE  MainInv(s)'
<1>. USE DEF MainInv, ProcessUp
<1>1. CASE PoolStep(w) /\ UNCHANGED acceptVars
  BY <1>1 DEF acceptVars, PoolStep, Top, Acquire, Pop, SkipWait, DecideToWait, Sleep,
    SpuriousWakeup, Resume, Halt, NotifyAll
<1>2. CASE ServeConnection(w)
  BY <1>2, NoSocketNoHalt DEF ServeConnection, Return
<1>3. CASE AnnounceShutdown(w)
  BY <1>3 DEF AnnounceShutdown
<1>4. CASE ShutDown(w)
  BY <1>4 DEF ShutDown, ShutDownListener
<1>. QED
  BY <1>1, <1>2, <1>3, <1>4 DEF WorkerStep

\* ServerMain's variables depend on main and halted alone.
LEMMA SameMain ==
  ASSUME NEW a, NEW d, NEW s, UNCHANGED <<main, halted>>
  PROVE  UNCHANGED Main(a, d, s)!serverVars
BY DEF Main!serverVars, MainPlace, ProcessUp, FrameLive

\* Every step on the connection path is one of main's, or none.
LEMMA StepIsMains ==
  ASSUME NEW a \in [port : Int, threads : Int, file : BOOLEAN],
         NEW d, NEW s \in BOOLEAN, a.threads > 0 <=> Workers # {},
         Inv, MainInv(s), [Next]_vars
  PROVE  [EndOfMain(a, d, s)]_(Main(a, d, s)!serverVars)
<1>. USE DEF MainInv, MainPlace, ProcessUp
<1>1. CASE UNCHANGED <<main, halted>>
  BY <1>1, SameMain
<1>2. CASE CheckActive
  <2>1. CASE halted
    BY <1>2, <2>1 DEF CheckActive, check_active, FrameLive, poolVars,
      EndOfMain, Main!AcceptReturns
  <2>2. CASE ~halted
    BY <1>2, <2>2 DEF CheckActive, check_active, FrameLive, poolVars, Main!serverVars
  <2>. QED
    BY <2>1, <2>2
<1>3. CASE AcceptConnection \/ Dispatch
  BY <1>3 DEF AcceptConnection, Dispatch, service_connection, FrameLive, poolVars,
    Main!serverVars
<1>4. CASE AcceptShutDown
  <2>1. safe_shutdown
    BY <1>4 DEF AcceptShutDown, Inv, Control, ShutDownIsAnnounced, FrameLive
  <2>. QED
    BY <1>4, <2>1 DEF AcceptShutDown, FrameLive, poolVars, Main!serverVars
<1>5. CASE AcceptFails
  BY <1>5 DEF AcceptFails, FrameLive, poolVars, EndOfMain, Main!AcceptFails
<1>6. CASE AwaitShutdown
  <2>1. halted \/ ~(a.threads > 0)
    BY <1>6 DEF AwaitShutdown, AllDone, Inv, Control, HaltedFirst
  <2>2. halted \/ a.threads <= 0
    BY <2>1
  <2>. QED
    BY <1>6, <2>2 DEF AwaitShutdown, FrameLive, poolVars, EndOfMain, Main!AwaitShutdown
<1>7. CASE Exit
  BY <1>7 DEF Exit, FrameLive, poolVars, EndOfMain, Main!Finish, Main!Return,
    Main!Destruct, Main!Closed, Main!Managers
<1>8. ASSUME NEW w \in Workers, Halt(w), UNCHANGED acceptVars, ~halted
      PROVE  EndOfMain(a, d, s)
  <2>1. s
    BY <1>8, NoSocketNoHalt DEF Halt
  <2>2. FrameLive \/ main = "join"
    BY <1>8 DEF Halt, FrameLive, Inv, TypeOK, MainPCs, Control, QuiescentCleanup, AllDone
  <2>3. a.threads > 0
    BY <1>8
  <2>. QED
    BY <1>8, <2>1, <2>2, <2>3 DEF Halt, FrameLive, acceptVars, EndOfMain, Main!HaltPool
<1>9. CASE \E w \in Workers : WorkerStep(w)
  <2>1. PICK w \in Workers : WorkerStep(w)
    BY <1>9
  <2>2. main' = main
    BY <2>1 DEF WorkerStep, ServeConnection, AnnounceShutdown, ShutDown, acceptVars
  <2>3. halted' = halted \/ (Halt(w) /\ UNCHANGED acceptVars /\ ~halted)
    BY <2>1 DEF WorkerStep, PoolStep, Top, Acquire, Pop, SkipWait, DecideToWait, Sleep,
      SpuriousWakeup, Resume, Halt, NotifyAll, ServeConnection, Return, AnnounceShutdown,
      ShutDown, Inv, TypeOK, PoolTypeOK
  <2>. QED
    BY <1>1, <1>8, <2>1, <2>2, <2>3
<1>10. CASE \E c \in Conns : Connect(c)
  BY <1>1, <1>10 DEF Connect, poolVars
<1>11. CASE UNCHANGED vars
  BY <1>1, <1>11 DEF vars, poolVars, acceptVars
<1>. QED
  BY <1>2, <1>3, <1>4, <1>5, <1>6, <1>7, <1>9, <1>10, <1>11 DEF Next, MainStep

\* The threads, the queue and the listening socket do, seen from main, exactly
\* what ServerMain says of accept_client, whether it returns true or false, of the
\* pool and of await_shutdown: Launch may stand for AcceptLoop, whatever the first
\* half of main left and whenever accept() fails.
THEOREM EndOfMainImplemented ==
  ASSUME NEW a \in [port : Int, threads : Int, file : BOOLEAN],
         NEW d \in BOOLEAN, NEW s \in BOOLEAN, a.threads > 0 <=> Workers # {}
  PROVE  Spec /\ (s <=> listener = "listening")
           => [][EndOfMain(a, d, s)]_(Main(a, d, s)!serverVars)
<1>1. Init /\ (s <=> listener = "listening") => MainInv(s)
  BY DEF Init, MainInv, ProcessUp
<1>2. Inv /\ MainInv(s) /\ [Next]_vars => MainInv(s)'
  <2>1. MainInv(s) /\ UNCHANGED vars => MainInv(s)'
    BY DEF MainInv, ProcessUp, vars, poolVars, acceptVars
  <2>. QED
    BY <2>1, MainKeepsMainInv, WorkerKeepsMainInv DEF Next
<1>3. Inv /\ MainInv(s) /\ [Next]_vars
        => [EndOfMain(a, d, s)]_(Main(a, d, s)!serverVars)
  BY StepIsMains
<1>. QED
  BY <1>1, <1>2, <1>3, Invariance, PTL DEF Spec

\* Main waits for its workers, or goes on to clean up, only after one of them
\* has halted the pool.
JoinsOnlyAfterHalt == main \in {"join", "cleanup"} => halted

\* No step leaves the loop without a halt, if the socket is there and accept()
\* fails for nothing but its shutdown.
LEMMA LoopIsLeftAfterHalt ==
  ASSUME ~AcceptMayFail, Inv, MainInv(TRUE), JoinsOnlyAfterHalt, [Next]_vars
  PROVE  JoinsOnlyAfterHalt'
<1>. USE DEF JoinsOnlyAfterHalt
<1>1. CASE CheckActive
  BY <1>1 DEF CheckActive, check_active, poolVars
<1>2. CASE AcceptShutDown
  BY <1>2 DEF AcceptShutDown, Inv, Control, ShutDownIsAnnounced, FrameLive
<1>3. CASE AcceptFails
  BY <1>3 DEF AcceptFails, MainInv, ProcessUp
<1>4. CASE AcceptConnection \/ Dispatch \/ AwaitShutdown \/ Exit
  BY <1>4 DEF AcceptConnection, Dispatch, service_connection, AwaitShutdown, Exit, poolVars
<1>5. ASSUME NEW w \in Workers, WorkerStep(w)
      PROVE  main' = main /\ (halted => halted')
  BY <1>5 DEF WorkerStep, PoolStep, Top, Acquire, Pop, SkipWait, DecideToWait, Sleep,
    SpuriousWakeup, Resume, Halt, NotifyAll, ServeConnection, Return, AnnounceShutdown,
    ShutDown, acceptVars
<1>6. CASE \E w \in Workers : WorkerStep(w)
  BY <1>5, <1>6
<1>7. CASE UNCHANGED vars \/ \E c \in Conns : Connect(c)
  BY <1>7 DEF Connect, vars, poolVars, acceptVars
<1>. QED
  BY <1>1, <1>2, <1>3, <1>4, <1>6, <1>7 DEF Next, MainStep

\* A server that has its port and whose accept() does not fail never waits for
\* workers that nobody told to end: that main ignores what accept_client returns
\* (server.cc:153) matters only after a failure.  With StopGoesOn, such a server
\* is not stuck once it has left its loop.
THEOREM OnlyAHaltEndsAccepting ==
  ASSUME ~AcceptMayFail, ~BindMayFail
  PROVE  Spec => []JoinsOnlyAfterHalt
<1>1. Init => MainInv(TRUE) /\ JoinsOnlyAfterHalt
  BY DEF Init, MainInv, ProcessUp, JoinsOnlyAfterHalt
<1>2. Inv /\ MainInv(TRUE) /\ JoinsOnlyAfterHalt /\ [Next]_vars
        => MainInv(TRUE)' /\ JoinsOnlyAfterHalt'
  <2>1. MainInv(TRUE) /\ UNCHANGED vars => MainInv(TRUE)'
    BY DEF MainInv, ProcessUp, vars, poolVars, acceptVars
  <2>. QED
    BY <2>1, MainKeepsMainInv, WorkerKeepsMainInv, LoopIsLeftAfterHalt DEF Next
<1>. QED
  BY <1>1, <1>2, Invariance, PTL DEF Spec
=============================================================================

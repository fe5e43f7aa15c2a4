---------------------------- MODULE DirectoryProofs ----------------------------
(***************************************************************************)
(* Dialogue implements Directory, for every number of clients, users and   *)
(* requests, in every build.                                               *)
(***************************************************************************)
EXTENDS DialogueProofs

-----------------------------------------------------------------------------
(* The invariant that ties the worker to the client it works for.          *)

Saving == {"open tmp", "close tmp", "rename"}

\* An answer encrypted with the context is one the client can read, or there is
\* none to send.
Seals(ctx) == ctx = Context("ready", TRUE) \/ ctx.life = "cleaned"

\* The table has the user and the password of a request.
LoggedIn(r) == table[r.user] # Absent /\ table[r.user].pass = r.pass

\* Between the login and the rename nothing changes the table.
SavingOK ==
  /\ Sender.req.cmd = "SAV" /\ Sender.req.arg # Oversize
  /\ LoggedIn(Sender.req)
  /\ job.pc = "rename" => tmp = table

JobLinked ==
  job.pc # "idle" =>
    /\ up
    /\ Sender.pc # "idle" /\ ~Sender.hung
    /\ job.pc # "hangup" => Sender.reply = Silence
    /\ job.pc \in {"handle"} \cup Saving => Sender.sent = 2 /\ Seals(job.ctx)
    /\ job.pc = "handle" => job.in \in {Nothing, Garbled, Sender.req}
    /\ job.pc \in Saving => SavingOK
    /\ job.pc = "reply" => job.out.text \in Answers /\ (job.out.sealed => Seals(job.ctx))

\* A client that has a request has one of its own, and has an answer only when
\* the worker has dealt with it.
ClientLinked(c) ==
  /\ cl[c].hung => cl[c].pc = "open"
  /\ cl[c].pc = "open" \/ cl[c].sent = 2 => cl[c].req \in Requests[c]
  /\ cl[c].reply = Silence \/ cl[c].reply.text \in Answers
  /\ \/ cl[c].reply = Silence
     \/ cl[c].hung \/ cl[c].pc = "idle"
     \/ job.pc = "hangup" /\ job.c = c

Linked == JobLinked /\ \A c \in Clients : ClientLinked(c)

\* An idle worker has nobody's connection.
LEMMA JobsClient ==
  ASSUME DialogueInv
  PROVE  /\ job.pc = "idle" => job.c \notin Clients
         /\ job.pc # "idle" => job.c \in Clients
BY DialogueAssumption DEF DialogueInv, JobOK, JobTyped

\* A request that was sent in full is one that could be typed.
LEMMA RequestLegal ==
  ASSUME Linked, NEW c \in Clients, cl[c].pc = "open" \/ cl[c].sent = 2
  PROVE  /\ cl[c].req \in Requests[c] /\ Legal(cl[c].req) /\ cl[c].req # Nothing
         /\ cl[c].req.cmd = "GET" => cl[c].req.arg \in Users
BY DialogueAssumption DEF Linked, ClientLinked, Legal

\* A step of a client alone: what it may do to its own part.
LEMMA ClientLinks ==
  ASSUME DialogueInv, Linked, NEW c \in Clients, NEW v, SetClient(c, v),
         UNCHANGED serverVars,
         v.hung => v.pc = "open",
         v.pc = "open" \/ v.sent = 2 => v.req \in Requests[c],
         v.reply = Silence \/ v.reply.text \in Answers,
         v.reply = Silence \/ v.hung \/ v.pc = "idle" \/ (job.pc = "hangup" /\ job.c = c),
         job.c = c => /\ v.pc # "idle" /\ ~v.hung
                      /\ job.pc # "hangup" => v.reply = Silence
                      /\ cl[c].sent = 2 => v.sent = 2 /\ v.req = cl[c].req
  PROVE  Linked'
<1>1. cl'[c] = v /\ \A d \in Clients \ {c} : cl'[d] = cl[d]
  BY DEF SetClient, DialogueInv, ClientsOK
<1>2. job' = job /\ up' = up /\ table' = table /\ tmp' = tmp
  BY DEF serverVars
<1>3. \A d \in Clients : ClientLinked(d)'
  BY <1>1, <1>2 DEF Linked, ClientLinked
<1>4. JobLinked'
  <2>1. SUFFICES ASSUME job.pc # "idle" PROVE JobLinked'
    BY <1>2 DEF JobLinked
  <2>2. JobLinked /\ job.c \in Clients
    BY <2>1, JobsClient DEF Linked
  <2>3. CASE job.c # c
    BY <1>1, <1>2, <2>2, <2>3 DEF JobLinked, SavingOK, LoggedIn, Sender
  <2>4. CASE job.c = c
    BY <1>1, <1>2, <2>2, <2>4 DEF JobLinked, SavingOK, LoggedIn, Sender, Saving
  <2>. QED BY <2>3, <2>4
<1>. QED BY <1>3, <1>4 DEF Linked

-----------------------------------------------------------------------------
(* Steps of the directory.                                                 *)

\* A call looks the same if neither its client nor the worker's hold on it changed.
LEMMA SameCall ==
  ASSUME NEW c, cl'[c] = cl[c], job' = job \/ (job.c # c /\ job.c' # c)
  PROVE  CallOf(c)' = CallOf(c)
BY DEF CallOf, Waits, AnswerTo, Understood

\* Calls that are lost or go on as they are, with the table or what a stop leaves.
LEMMA Loses ==
  ASSUME UNCHANGED <<stubs, diskBar>>, dirBar' \in {dirBar, diskBar},
         \A c \in Clients : CallOf(c)' \in {CallOf(c), Service!NoCall}
  PROVE  Service!DirectoryNext
BY DEF Service!DirectoryNext, Service!Lose, callBar

\* A new call.
LEMMA Asks ==
  ASSUME UNCHANGED <<stubs, diskBar, dirBar>>, NEW c \in Clients, NEW r \in Requests[c],
         CallOf(c).state \in {"none", "heard"}, CallOf(c)' = Service!Asked(r),
         \A d \in Clients \ {c} : CallOf(d)' = CallOf(d)
  PROVE  Service!DirectoryNext
<1>1. callBar' = [callBar EXCEPT ![c] = Service!Asked(r)]
  BY DEF callBar
<1>2. callBar[c].state \in {"none", "heard"}
  BY DEF callBar
<1>. QED BY <1>1, <1>2 DEF Service!DirectoryNext, Service!Ask

\* A decision, and that it is heard.
LEMMA Decides ==
  ASSUME UNCHANGED stubs, NEW c \in Clients, NEW r, CallOf(c) = Service!Asked(r),
         NEW o \in Service!Outcomes(r), dirBar' = o.dir, diskBar' = o.disk,
         CallOf(c)' = Service!Answered("decided", r, o.msg, o.data),
         \A d \in Clients \ {c} : CallOf(d)' = CallOf(d)
  PROVE  Service!DirectoryNext
<1>1. callBar[c].state = "asked" /\ callBar[c].req = r
  BY DEF callBar, Service!Asked
<1>2. callBar' = [callBar EXCEPT ![c] = Service!Answered("decided", r, o.msg, o.data)]
  BY DEF callBar
<1>3. Service!Decide(c)
  BY <1>1, <1>2 DEF Service!Decide
<1>. QED BY <1>3 DEF Service!DirectoryNext

\* A client that reads what was decided hears it, and nobody else notices.
LEMMA Hears ==
  ASSUME UNCHANGED <<stubs, diskBar, dirBar>>, NEW c \in Clients, NEW r, NEW msg, NEW data,
         CallOf(c) = Service!Answered("decided", r, msg, data),
         CallOf(c)' = Service!Answered("heard", r, msg, data),
         \A d \in Clients \ {c} : CallOf(d)' = CallOf(d)
  PROVE  Service!DirectoryNext
<1>1. callBar[c].state = "decided"
  BY DEF callBar, Service!Answered
<1>2. callBar' = [callBar EXCEPT ![c].state = "heard"]
  <2>1. [callBar[c] EXCEPT !.state = "heard"] = Service!Answered("heard", r, msg, data)
    <3>1. callBar[c] = [state |-> "decided", req |-> r, msg |-> msg, data |-> data]
      BY DEF callBar, Service!Answered
    <3>. QED BY <3>1 DEF Service!Answered
  <2>. QED BY <2>1 DEF callBar
<1>3. Service!Hear(c)
  BY <1>1, <1>2 DEF Service!Hear
<1>. QED BY <1>3 DEF Service!DirectoryNext

\* What a client that is not waiting has: nothing, or an answer it has heard.
LEMMA IdleCall ==
  ASSUME DialogueInv, Linked, NEW c \in Clients, cl[c].pc = "idle"
  PROVE  /\ job.c # c
         /\ CallOf(c).state \in {"none", "heard"}
<1>1. job.c # c
  BY JobsClient DEF Linked, JobLinked, Sender
<1>. QED BY <1>1 DEF CallOf, Waits

\* A client that has gone before it sent its request has no call.
LEMMA GoneCall ==
  ASSUME NEW c, cl[c].pc = "gone", cl[c].sent # 2
  PROVE  CallOf(c) = Service!NoCall
BY DEF CallOf, Waits, AnswerTo, Service!NoCall

\* A client that the server hung up on, with its answer or without one.
LEMMA HungCall ==
  ASSUME DialogueInv, Linked, NEW c \in Clients, cl[c].pc = "open", cl[c].hung
  PROVE  /\ job.c # c
         /\ cl[c].reply # Silence =>
              /\ cl[c].reply.text \in Answers
              /\ CallOf(c) = Service!Answered("decided", cl[c].req, cl[c].reply.text.msg,
                                              cl[c].reply.text.data)
<1>1. job.c # c
  BY JobsClient DEF Linked, JobLinked, Sender
<1>2. ASSUME cl[c].reply # Silence
      PROVE  /\ cl[c].reply.text \in Answers
             /\ CallOf(c) = Service!Answered("decided", cl[c].req, cl[c].reply.text.msg,
                                             cl[c].reply.text.data)
  <2>1. cl[c].reply.text \in Answers
    BY <1>2 DEF Linked, ClientLinked
  <2>2. cl[c].reply.text # Nothing /\ cl[c].reply.text # Garbled
    BY <2>1, AnswerAssumption
  <2>. QED BY <1>1, <2>1, <2>2 DEF CallOf, Waits, AnswerTo, Understood, Service!Answered
<1>. QED BY <1>1, <1>2

\* Clients other than the one that takes a step.
LEMMA OthersCalls ==
  ASSUME DialogueInv, NEW c \in Clients, NEW v, SetClient(c, v), job' = job
  PROVE  /\ cl'[c] = v
         /\ \A d \in Clients \ {c} : CallOf(d)' = CallOf(d)
<1>1. cl'[c] = v /\ \A d \in Clients \ {c} : cl'[d] = cl[d]
  BY DEF SetClient, DialogueInv, ClientsOK
<1>. QED BY <1>1, SameCall

\* The directory of a client's step is the one before it.
LEMMA SameTables ==
  ASSUME UNCHANGED <<up, table, file>>
  PROVE  UNCHANGED <<dirBar, diskBar>>
BY DEF dirBar, diskBar, Loaded

-----------------------------------------------------------------------------
(* A client's steps.                                                       *)

\* How a client starts: it waits with a request of its own, or has gone.
LEMMA StartOutcome ==
  ASSUME NEW c \in Clients, StartClient(c)
  PROVE  \/ SetClient(c, Opened(Nothing, NoContext, "gone"))
         \/ \E r \in Requests[c] : \E ctx : SetClient(c, Opened(r, ctx, "open"))
<1>1. PICK r \in Requests[c] : IF Stub("requests") THEN StartStub(c) ELSE StartSolution(c, r)
  BY DEF StartClient
<1>2. CASE Stub("requests")
  BY <1>1, <1>2 DEF StartStub
<1>3. CASE ~Stub("requests")
  BY <1>1, <1>3 DEF StartSolution, reclaim_aes_context
<1>. QED BY <1>2, <1>3

\* A client that starts asks, or gives up at once.
LEMMA StartClientImplements ==
  ASSUME DialogueInv, Linked, NEW c \in Clients, StartClient(c)
  PROVE  Linked' /\ Service!DirectoryNext
<1>1. UNCHANGED serverVars /\ job' = job /\ cl[c].pc = "idle" /\ UNCHANGED <<up, table, file, stubs>>
  BY DEF StartClient, serverVars
<1>2. job.c # c /\ CallOf(c).state \in {"none", "heard"}
  BY <1>1, IdleCall
<1>3. UNCHANGED <<stubs, dirBar, diskBar>>
  BY <1>1, SameTables
<1>4. CASE SetClient(c, Opened(Nothing, NoContext, "gone"))
  <2>. DEFINE v == Opened(Nothing, NoContext, "gone")
  <2>1. v.pc = "gone" /\ v.sent = 0 /\ v.hung = FALSE /\ v.reply = Silence
    BY DEF Opened
  <2>2. cl'[c] = v /\ \A d \in Clients \ {c} : CallOf(d)' = CallOf(d)
    BY <1>1, <1>4, OthersCalls
  <2>. HIDE DEF v
  <2>3. CallOf(c)' = Service!NoCall
    BY <2>1, <2>2 DEF CallOf, Waits, AnswerTo, Service!NoCall
  <2>4. Linked'
    BY <1>1, <1>2, <1>4, <2>1, ClientLinks DEF v
  <2>. QED BY <1>3, <2>2, <2>3, <2>4, Loses
<1>5. ASSUME NEW r \in Requests[c], NEW ctx, SetClient(c, Opened(r, ctx, "open"))
      PROVE  Linked' /\ Service!DirectoryNext
  <2>. DEFINE v == Opened(r, ctx, "open")
  <2>1. v.pc = "open" /\ v.hung = FALSE /\ v.reply = Silence /\ v.req = r
    BY DEF Opened
  <2>2. cl'[c] = v /\ \A d \in Clients \ {c} : CallOf(d)' = CallOf(d)
    BY <1>1, <1>5, OthersCalls
  <2>. HIDE DEF v
  <2>3. CallOf(c)' = Service!Asked(r)
    BY <1>1, <1>2, <2>1, <2>2 DEF CallOf, Waits, Service!Asked
  <2>4. Linked'
    BY <1>1, <1>2, <1>5, <2>1, ClientLinks DEF v
  <2>. QED BY <1>2, <1>3, <2>2, <2>3, <2>4, Asks
<1>. QED BY <1>4, <1>5, StartOutcome

\* Sending a block is no step of the directory.
LEMMA SendBlockImplements ==
  ASSUME DialogueInv, Linked, NEW c \in Clients, SendBlock(c)
  PROVE  Linked' /\ Service!DirectoryNext
<1>. DEFINE v == [cl[c] EXCEPT !.sent = @ + 1]
<1>1. UNCHANGED serverVars /\ job' = job /\ UNCHANGED <<up, table, file, stubs>> /\ SetClient(c, v)
  BY DEF SendBlock, serverVars
<1>2. cl[c].pc = "open" /\ ~cl[c].hung /\ cl[c].sent # 2 /\ ClientLinked(c) /\ ClientShape(cl[c])
  BY DEF SendBlock, Linked, DialogueInv, ClientsOK, ClientOK
<1>3. /\ v.pc = "open" /\ v.hung = cl[c].hung /\ v.reply = cl[c].reply /\ v.req = cl[c].req
  BY <1>2 DEF ClientShape
<1>. HIDE DEF v
<1>4. cl'[c] = v /\ \A d \in Clients \ {c} : CallOf(d)' = CallOf(d)
  BY <1>1, OthersCalls
<1>5. CallOf(c)' = CallOf(c)
  BY <1>1, <1>2, <1>3, <1>4 DEF CallOf, Waits, AnswerTo
<1>6. job.c = c => (job.pc # "hangup" => v.reply = Silence)
  BY <1>3, JobsClient DEF Linked, JobLinked, Sender
<1>7. Linked'
  BY <1>1, <1>2, <1>3, <1>6, ClientLinks DEF ClientLinked
<1>. QED BY <1>1, <1>4, <1>5, <1>7, SameTables, Loses

\* What a client makes of a reply is the reply, or nothing.
LEMMA HearsReply ==
  ASSUME NEW c \in Clients, NEW ctx \in reset_aes_context(cl[c].ctx, FALSE),
         NEW got \in Received(c, ctx)
  PROVE  got.out \in {Nothing, cl[c].reply.text}
<1>1. ctx = Context("ready", FALSE) \/ ctx.life = "cleaned"
  BY DEF reset_aes_context, Failure, Context
<1>2. CASE ctx.life = "cleaned"
  BY <1>2 DEF Received, Crypted
<1>3. CASE ctx.life # "cleaned" /\ ~cl[c].reply.sealed
  <2>1. got = Crypted(cl[c].reply.text, ctx)
    BY <1>3 DEF Received
  <2>. QED BY <2>1 DEF Crypted
<1>4. CASE ctx.life # "cleaned" /\ cl[c].reply.sealed
  <2>. DEFINE text == cl[c].reply.text
  <2>1. got \in aes_crypt_msg(Stub("my_crypto"), ctx, FALSE, text)
    BY <1>4 DEF Received
  <2>. HIDE DEF text
  <2>2. CASE Stub("my_crypto") \/ text = Nothing
    <3>1. got = Crypted(Nothing, ctx)
      BY <1>4, <2>1, <2>2 DEF aes_crypt_msg, StubCrypt, SolutionCrypt
    <3>. QED BY <3>1 DEF Crypted
  <2>3. CASE ~(Stub("my_crypto") \/ text = Nothing)
    <3>. DEFINE spent == [ctx EXCEPT !.life = "spent"]
    <3>. HIDE DEF spent
    <3>1. got = Crypted(text, spent) \/ got = Crypted(Nothing, spent)
      BY <1>1, <1>4, <2>1, <2>3 DEF aes_crypt_msg, SolutionCrypt, Failure, spent
    <3>. QED BY <3>1 DEF Crypted, text
  <2>. QED BY <2>2, <2>3 DEF text
<1>. QED BY <1>2, <1>3, <1>4

\* A client that ends has heard the answer to its own request, or nothing.
LEMMA EndClientImplements ==
  ASSUME DialogueInv, Linked, NEW c \in Clients, EndClient(c)
  PROVE  Linked' /\ Service!DirectoryNext
<1>1. UNCHANGED serverVars /\ job' = job /\ UNCHANGED <<up, table, file, stubs>>
  BY DEF EndClient, serverVars
<1>2. cl[c].pc = "open" /\ cl[c].hung
  BY DEF EndClient
<1>3. job.c # c
  BY <1>2, HungCall
<1>4. ASSUME NEW r, NEW text, SetClient(c, Informed(r, text, NoContext)),
             text = Nothing \/ text \in Answers
      PROVE  Linked' /\ \A d \in Clients \ {c} : CallOf(d)' = CallOf(d)
  <2>. DEFINE v == Informed(r, text, NoContext)
  <2>1. v.pc = "idle" /\ v.hung = FALSE /\ v.sent = 0 /\ v.reply.text = text
        /\ (text = Nothing => v.reply = Silence)
    BY DEF Informed, Wired, Silence
  <2>. HIDE DEF v
  <2>2. Linked'
    BY <1>1, <1>3, <1>4, <2>1, ClientLinks DEF v
  <2>. QED BY <1>1, <1>4, <2>2, OthersCalls
<1>5. CASE SetClient(c, Ended(NoContext))
  <2>1. Linked' /\ \A d \in Clients \ {c} : CallOf(d)' = CallOf(d)
    BY <1>4, <1>5 DEF Ended
  <2>2. CallOf(c)' = Service!NoCall
    <3>1. cl'[c] = Ended(NoContext)
      BY <1>1, <1>5, OthersCalls
    <3>. QED BY <1>1, <1>3, <3>1
         DEF CallOf, Waits, AnswerTo, Ended, Informed, Wired, Service!NoCall
  <2>. QED BY <1>1, <2>1, <2>2, SameTables, Loses
<1>6. CASE /\ cl[c].reply # Silence
           /\ SetClient(c, Informed(cl[c].req, cl[c].reply.text, NoContext))
  <2>. DEFINE text == cl[c].reply.text
  <2>1. /\ text \in Answers
        /\ CallOf(c) = Service!Answered("decided", cl[c].req, text.msg, text.data)
    BY <1>2, <1>6, HungCall
  <2>2. Linked' /\ \A d \in Clients \ {c} : CallOf(d)' = CallOf(d)
    BY <1>4, <1>6, <2>1
  <2>3. CallOf(c)' = Service!Answered("heard", cl[c].req, text.msg, text.data)
    <3>1. cl'[c] = Informed(cl[c].req, text, NoContext)
      BY <1>1, <1>6, OthersCalls
    <3>2. text # Nothing /\ text # Garbled
      BY <2>1, AnswerAssumption
    <3>. HIDE DEF text
    <3>. QED BY <1>1, <1>3, <3>1, <3>2
         DEF CallOf, Waits, AnswerTo, Understood, Informed, Wired, Service!Answered
  <2>. QED BY <1>1, <2>1, <2>2, <2>3, SameTables, Hears
<1>7. CASE cl[c].reply # Silence /\ ReadReply(c)
  <2>1. PICK ctx \in reset_aes_context(cl[c].ctx, FALSE) :
          \E got \in Received(c, ctx) : Hear(c, got)
    BY <1>7 DEF ReadReply
  <2>2. PICK got \in Received(c, ctx) : Hear(c, got)
    BY <2>1
  <2>3. got.out \in {Nothing, cl[c].reply.text}
    BY HearsReply
  <2>. QED BY <1>5, <1>6, <1>7, <2>2, <2>3 DEF Hear, reclaim_aes_context
<1>. QED BY <1>5, <1>7 DEF EndClient, reclaim_aes_context

\* A client that dies loses its call, unless the server has all of it.
LEMMA KillClientImplements ==
  ASSUME DialogueInv, Linked, NEW c \in Clients, KillClient(c)
  PROVE  Linked' /\ Service!DirectoryNext
<1>1. UNCHANGED serverVars /\ job' = job /\ UNCHANGED <<up, table, file, stubs>> /\ cl[c].pc = "open"
  BY DEF KillClient, serverVars
<1>2. CASE cl[c].hung
  <2>. DEFINE v == Ended(NoContext)
  <2>1. v.pc = "idle" /\ v.hung = FALSE /\ v.sent = 0 /\ v.reply = Silence /\ SetClient(c, v)
    BY <1>2 DEF KillClient, Ended, Informed, Silence
  <2>2. v.reply.text = Nothing
    BY <2>1 DEF Silence, Wired
  <2>3. job.c # c
    BY <1>1, <1>2, HungCall
  <2>. HIDE DEF v
  <2>4. cl'[c] = v /\ \A d \in Clients \ {c} : CallOf(d)' = CallOf(d)
    BY <1>1, <2>1, OthersCalls
  <2>5. CallOf(c)' = Service!NoCall
    BY <1>1, <2>1, <2>2, <2>3, <2>4 DEF CallOf, Waits, AnswerTo, Service!NoCall
  <2>6. Linked'
    BY <1>1, <2>1, <2>3, ClientLinks
  <2>. QED BY <1>1, <2>4, <2>5, <2>6, SameTables, Loses
<1>3. CASE ~cl[c].hung
  <2>. DEFINE req == IF cl[c].sent = 2 THEN cl[c].req ELSE Nothing
              o == Opened(req, NoContext, "gone")
              v == [o EXCEPT !.sent = cl[c].sent]
  <2>1. SetClient(c, v)
    BY <1>3 DEF KillClient
  <2>2. o = [pc |-> "gone", req |-> req, ctx |-> NoContext, sent |-> 0, reply |-> Silence,
             hung |-> FALSE]
    BY DEF Opened
  <2>3. /\ v.pc = "gone" /\ v.hung = FALSE /\ v.sent = cl[c].sent /\ v.reply = Silence
        /\ v.req = req
    <3>. HIDE DEF o, req
    <3>. QED BY <2>2
  <2>4. cl[c].sent = 2 => v.req = cl[c].req
    BY <2>3
  <2>. HIDE DEF v, req, o
  <2>5. cl'[c] = v /\ \A d \in Clients \ {c} : CallOf(d)' = CallOf(d)
    BY <1>1, <2>1, OthersCalls
  <2>6. ClientLinked(c)
    BY DEF Linked
  <2>7. CallOf(c)' \in {CallOf(c), Service!NoCall}
    <3>1. CASE cl[c].sent # 2
      BY <1>1, <2>3, <2>5, <3>1 DEF CallOf, Waits, AnswerTo, Service!NoCall
    <3>2. CASE cl[c].sent = 2
      <4>1. AnswerTo(c)' \in {AnswerTo(c), Nothing}
        BY <1>1, <2>3, <2>5, <3>2 DEF AnswerTo
      <4>2. CASE Waits(c)
        <5>1. Waits(c)'
          BY <1>1, <2>3, <2>5, <3>2, <4>2 DEF Waits
        <5>. QED BY <2>4, <2>5, <3>2, <4>2, <5>1 DEF CallOf
      <4>3. CASE ~Waits(c)
        <5>1. CASE job.c = c /\ job.pc \in {"reply", "hangup"}
          <6>1. ~Waits(c)'
            BY <1>1, <2>5, <5>1 DEF Waits
          <6>. QED
            BY <1>1, <2>3, <2>4, <2>5, <3>2, <4>1, <4>3, <6>1 DEF CallOf, Service!NoCall
        <5>2. CASE ~(job.c = c /\ job.pc \in {"reply", "hangup"})
          BY <1>1, <1>3, <2>6, <4>3, <5>2 DEF Waits, ClientLinked
        <5>. QED BY <5>1, <5>2
      <4>. QED BY <4>2, <4>3
    <3>. QED BY <3>1, <3>2
  <2>8. Linked'
    BY <1>1, <2>1, <2>3, <2>4, <2>6, ClientLinks DEF ClientLinked
  <2>. QED BY <1>1, <2>5, <2>7, <2>8, SameTables, Loses
<1>. QED BY <1>2, <1>3

-----------------------------------------------------------------------------
(* The worker's steps that decide nothing.                                 *)

\* A step of the worker that keeps its client: what it may do to the job.
LEMMA JobLinks ==
  ASSUME DialogueInv, Linked, NEW v, SetJob(v), cl' = cl, up' = up,
         job.pc # "idle", v.c = job.c,
         job.pc # "hangup",
         v.pc # "idle",
         v.pc \in {"handle"} \cup Saving => Sender.sent = 2 /\ Seals(v.ctx),
         v.pc = "handle" => v.in \in {Nothing, Garbled, Sender.req},
         v.pc \in Saving => /\ Sender.req.cmd = "SAV" /\ Sender.req.arg # Oversize
                            /\ LoggedIn(Sender.req)'
                            /\ v.pc = "rename" => tmp' = table',
         v.pc = "reply" => v.out.text \in Answers /\ (v.out.sealed => Seals(v.ctx))
  PROVE  Linked'
<1>1. job' = v /\ Sender' = Sender /\ JobLinked
  BY DEF SetJob, Sender, Linked
<1>2. JobLinked'
  BY <1>1 DEF JobLinked, SavingOK, LoggedIn
<1>3. ASSUME NEW c \in Clients PROVE ClientLinked(c)'
  BY <1>1 DEF Linked, ClientLinked
<1>. QED BY <1>2, <1>3 DEF Linked

\* The fields of a job.
LEMMA BusyFields ==
  ASSUME NEW pc, NEW c, NEW ctx
  PROVE  /\ Busy(pc, c, ctx).pc = pc /\ Busy(pc, c, ctx).c = c /\ Busy(pc, c, ctx).ctx = ctx
         /\ Busy(pc, c, ctx).out = Silence
         /\ JobShape(Busy(pc, c, ctx))
BY DEF Busy, JobShape

\* The worker's client, with its own and others' calls.
LEMMA JobCalls ==
  ASSUME NEW c, job.c = c, cl' = cl, job'.c = c
  PROVE  \A d \in Clients \ {c} : CallOf(d)' = CallOf(d)
BY DEF CallOf, Waits, AnswerTo, Understood

\* A connection that is taken is in the same state, or lost in a build whose
\* parse_request is a stub.
LEMMA TakeConnectionImplements ==
  ASSUME DialogueInv, Linked, NEW c \in Clients, TakeConnection(c)
  PROVE  Linked' /\ Service!DirectoryNext
<1>. DEFINE pc == IF Stub("parsing") THEN "hangup" ELSE "rblock"
            v == Busy(pc, c, NoContext)
<1>1. /\ job' = v /\ cl' = cl /\ UNCHANGED <<stubs, up, table, file>> /\ up
      /\ job.pc = "idle" /\ cl[c].pc # "idle" /\ ~cl[c].hung
  BY DEF TakeConnection, SetJob
<1>2. v.pc = pc /\ v.c = c /\ pc \in {"hangup", "rblock"}
  BY BusyFields
<1>. HIDE DEF v, pc
<1>3. job.c \notin Clients
  BY <1>1, JobsClient
<1>4. cl[c].reply = Silence /\ \A d \in Clients : ClientLinked(d)
  BY <1>1, <1>3 DEF Linked, ClientLinked
<1>5. Linked'
  <2>1. JobLinked'
    BY <1>1, <1>2, <1>4 DEF JobLinked, Sender, Saving
  <2>2. ASSUME NEW d \in Clients PROVE ClientLinked(d)'
    BY <1>1, <1>3, <1>4 DEF ClientLinked
  <2>. QED BY <2>1, <2>2 DEF Linked
<1>6. \A d \in Clients \ {c} : CallOf(d)' = CallOf(d)
  BY <1>1, <1>2, <1>3 DEF CallOf, Waits, AnswerTo, Understood
<1>7. CallOf(c)' \in {CallOf(c), Service!NoCall}
  <2>1. AnswerTo(c)' = Nothing /\ AnswerTo(c) = Nothing
    BY <1>1, <1>2, <1>3, <1>4 DEF AnswerTo, Silence, Wired
  <2>2. Waits(c)' => Waits(c)
    BY <1>1, <1>2, <1>3 DEF Waits
  <2>3. cl' = cl
    BY <1>1
  <2>. QED BY <2>1, <2>2, <2>3 DEF CallOf, Service!NoCall
<1>. QED BY <1>1, <1>5, <1>6, <1>7, SameTables, Loses

\* A worker that leaves without an answer loses the call, if there still is one.
LEMMA LeavingImplements ==
  ASSUME DialogueInv, Linked, NEW c \in Clients, job.c = c, NEW ctx,
         job.pc \notin {"idle", "hangup", "reply"},
         SetJob(Leaving(ctx, FALSE)), UNCHANGED <<stubs, up, table, file, tmp, cl>>
  PROVE  Linked' /\ Service!DirectoryNext
<1>. DEFINE b == Busy("hangup", job.c, ctx)
            v == Leaving(ctx, FALSE)
<1>1. v.pc = "hangup" /\ v.c = job.c
  <2>1. v = [b EXCEPT !.halt = FALSE]
    BY DEF Leaving
  <2>2. JobShape(b) /\ b.pc = "hangup" /\ b.c = job.c
    BY BusyFields
  <2>. HIDE DEF b, v
  <2>. QED BY <2>1, <2>2 DEF JobShape
<1>2. SetJob(v)
  OBVIOUS
<1>. HIDE DEF v
<1>3. Linked'
  BY <1>1, <1>2, JobLinks DEF Saving
<1>4. job' = v /\ cl' = cl
  BY <1>2 DEF SetJob
<1>5. \A d \in Clients \ {c} : CallOf(d)' = CallOf(d)
  BY <1>1, <1>4, JobCalls
<1>6. CallOf(c)' = Service!NoCall
  <2>1. cl[c].reply.text = Nothing
    BY DEF Linked, JobLinked, Sender, Silence, Wired
  <2>. QED BY <1>1, <1>4, <2>1 DEF CallOf, Waits, AnswerTo, Service!NoCall
<1>. QED BY <1>3, <1>5, <1>6, SameTables, Loses

\* The worker's client still waits when a step neither ends in an answer nor
\* comes from one.
LEMMA StillWaits ==
  ASSUME NEW c \in Clients, job.c = c, cl' = cl, job'.c = c,
         job.pc \notin {"reply", "hangup"}, job'.pc \notin {"reply", "hangup"},
         UNCHANGED <<stubs, diskBar, dirBar>>
  PROVE  Service!DirectoryNext
<1>1. \A d \in Clients \ {c} : CallOf(d)' = CallOf(d)
  BY JobCalls
<1>2. CallOf(c)' = CallOf(c)
  BY DEF CallOf, Waits, AnswerTo, Understood
<1>. QED BY <1>1, <1>2, Loses

\* An answer decides the call, unless its client has gone without a request.
LEMMA AnswerDecides ==
  ASSUME DialogueInv, Linked, NEW c \in Clients, job.c = c, cl' = cl, job'.c = c,
         job.pc \notin {"idle", "reply", "hangup"}, job'.pc = "reply", UNCHANGED stubs,
         cl[c].pc = "open" \/ cl[c].sent = 2,
         NEW o \in Service!Outcomes(cl[c].req), dirBar' = o.dir, diskBar' = o.disk,
         job'.out.text = Answer(o.msg, o.data), Answer(o.msg, o.data) \in Answers
  PROVE  Service!DirectoryNext
<1>1. \A d \in Clients \ {c} : CallOf(d)' = CallOf(d)
  BY JobCalls
<1>2. cl[c].pc # "idle" /\ ~cl[c].hung /\ cl[c].reply = Silence
  BY DEF Linked, JobLinked, Sender
<1>3. CallOf(c) = Service!Asked(cl[c].req)
  <2>1. cl[c].pc \in {"open", "gone"}
    BY <1>2 DEF DialogueInv, ClientsOK, ClientOK
  <2>. QED BY <1>2, <2>1 DEF CallOf, Waits, Service!Asked
<1>4. CallOf(c)' = Service!Answered("decided", cl[c].req, o.msg, o.data)
  <2>1. ~Waits(c)' /\ AnswerTo(c)' = Answer(o.msg, o.data)
    BY DEF Waits, AnswerTo
  <2>2. Answer(o.msg, o.data) # Nothing /\ Answer(o.msg, o.data) # Garbled
    BY AnswerAssumption
  <2>3. Answer(o.msg, o.data).msg = o.msg /\ Answer(o.msg, o.data).data = o.data
    BY DEF Answer
  <2>. QED BY <1>2, <2>1, <2>2, <2>3 DEF CallOf, Understood, Service!Answered
<1>. QED BY <1>1, <1>3, <1>4, Decides

\* A refusal: the answer and its effect, which is none.
LEMMA Refuses ==
  ASSUME NEW r, NEW msg \in Service!Refusals(r)
  PROVE  \E o \in Service!Outcomes(r) :
           /\ o.msg = msg /\ o.data = NoData /\ o.dir = dirBar /\ o.disk = diskBar
           /\ Answer(o.msg, o.data) \in Answers
<1>1. Service!Error(msg) \in Service!Outcomes(r)
  BY DEF Service!Outcomes
<1>2. /\ Service!Error(msg).msg = msg /\ Service!Error(msg).data = NoData
      /\ Service!Error(msg).dir = dirBar /\ Service!Error(msg).disk = diskBar
  BY DEF Service!Error, Service!Unchanged, Service!Outcome
<1>3. Answer(msg, NoData) \in Answers
  <2>1. msg \in Messages
    BY DEF Service!Refusals, Messages
  <2>. QED BY <2>1 DEF Answer, Answers
<1>. QED BY <1>1, <1>2, <1>3

\* What Storage says to a request is what the directory decides, with the same effect.
LEMMA ServesOutcome ==
  ASSUME up, table \in Tables, NEW r, Legal(r), r.arg # Oversize,
         r.cmd = "GET" => r.arg \in Users,
         NEW res \in Serve(r), ~(r.cmd = "SAV" /\ Succeeded(res))
  PROVE  \E o \in Service!Outcomes(r) :
           /\ o.msg = res.msg /\ o.data = res.data /\ o.dir = res.table /\ o.disk = diskBar
           /\ Answer(o.msg, o.data) \in Answers
<1>. DEFINE Fits == \E o \in Service!Outcomes(r) :
           /\ o.msg = res.msg /\ o.data = res.data /\ o.dir = res.table /\ o.disk = diskBar
           /\ Answer(o.msg, o.data) \in Answers
            Data == Profiles \cup {NoData} \cup SUBSET Users
            map == Stub("map")
<1>. SUFFICES Fits
  OBVIOUS
<1>1. dirBar = table
  BY DEF dirBar
<1>2. r.user \in Users /\ r.pass \in Passwords /\ r.cmd \in Cmds
  BY DEF Legal, RequestRecords
<1>3. ASSUME NEW msg \in Service!Refusals(r), res = Result(msg, NoData, table) PROVE Fits
  BY <1>1, <1>3, Refuses DEF Result
<1>4. ASSUME NEW msg \in Messages, NEW data \in Data, NEW d,
             Service!Verdict(r) = Service!Outcome(msg, data, d, diskBar),
             res = Result(msg, data, d)
      PROVE  Fits
  <2>1. Service!Outcome(msg, data, d, diskBar) \in Service!Outcomes(r)
    BY <1>4 DEF Service!Outcomes
  <2>2. Answer(msg, data) \in Answers
    BY DEF Answer, Answers
  <2>. QED BY <1>4, <2>1, <2>2 DEF Service!Outcome, Result
<1>. {"OK", "ERR_LOGIN", "ERR_USER_EXISTS", "ERR_NO_USER", "ERR_NO_DATA"} \subseteq Messages
  BY DEF Messages
<1>. NoData \in Data /\ SUBSET Users \subseteq Data /\ Profiles \subseteq Data
  OBVIOUS
<1>. HIDE DEF Fits, Data
<1>5. CASE Stub("my_storage")
  <2>1. "ERR_UNIMPLEMENTED" \in Service!Refusals(r)
    BY <1>5 DEF Stub, Service!Refusals
  <2>. QED BY <1>3, <1>5, <2>1 DEF Serve, Unimplemented
<1>6. CASE ~Stub("my_storage") /\ r.cmd = "REG"
  <2>1. CASE res = Result("ERR_SERVER", NoData, table)
    BY <1>3, <1>6, <2>1 DEF Service!Refusals
  <2>2. CASE res = add_user(map, table, r.user, r.pass)
    <3>1. CASE map
      <4>1. "ERR_USER_EXISTS" \in Service!Refusals(r)
        BY <3>1 DEF Stub, Service!Refusals
      <4>2. res = Result("ERR_USER_EXISTS", NoData, table)
        BY <2>2, <3>1 DEF add_user, insert, StubMap, Mapped
      <4>. QED BY <1>3, <4>1, <4>2
    <3>2. CASE ~map /\ table[r.user] # Absent
      <4>1. res = Result("ERR_USER_EXISTS", NoData, table)
        BY <2>2, <3>2 DEF add_user, insert, Mapped
      <4>2. Service!Verdict(r) = Service!Outcome("ERR_USER_EXISTS", NoData, table, diskBar)
        BY <1>1, <1>6, <3>2
        DEF Service!Verdict, Service!Register, Service!Error, Service!Unchanged
      <4>. QED BY <1>4, <4>1, <4>2
    <3>3. CASE ~map /\ table[r.user] = Absent
      <4>. DEFINE d == [table EXCEPT ![r.user] = [pass |-> r.pass, content |-> NoData]]
      <4>1. res = Result("OK", NoData, d)
        BY <2>2, <3>3 DEF add_user, insert, Mapped
      <4>2. Service!Verdict(r) = Service!Outcome("OK", NoData, d, diskBar)
        BY <1>1, <1>6, <3>3 DEF Service!Verdict, Service!Register
      <4>. HIDE DEF d
      <4>. QED BY <1>4, <4>1, <4>2
    <3>. QED BY <3>1, <3>2, <3>3
  <2>. QED BY <1>6, <2>1, <2>2 DEF Serve, SolutionServe, Failure
<1>7. CASE /\ ~Stub("my_storage") /\ r.cmd # "REG"
           /\ ~(~map /\ LoggedIn(r))
  <2>1. res = Result("ERR_LOGIN", NoData, table)
    BY <1>2, <1>7
    DEF Serve, SolutionServe, set_user_data, get_user_data, get_all_users, Authenticate,
        IfAuth, auth, do_with_readonly, LoggedIn
  <2>2. CASE map
    <3>1. "ERR_LOGIN" \in Service!Refusals(r)
      BY <2>2 DEF Stub, Service!Refusals
    <3>. QED BY <1>3, <2>1, <3>1
  <2>3. CASE ~map
    <3>1. Service!Verdict(r) = Service!Outcome("ERR_LOGIN", NoData, table, diskBar)
      BY <1>1, <1>7, <2>3
      DEF Service!Verdict, Service!Member, Service!Error, Service!Unchanged, LoggedIn
    <3>. QED BY <1>4, <2>1, <3>1
  <2>. QED BY <2>2, <2>3
<1>8. CASE ~Stub("my_storage") /\ r.cmd # "REG" /\ ~map /\ LoggedIn(r)
  <2>1. auth(map, table, r.user, r.pass) /\ Service!Member(r)
    BY <1>1, <1>8 DEF auth, do_with_readonly, Service!Member, LoggedIn
  <2>2. CASE r.cmd = "SET"
    <3>. DEFINE d == [table EXCEPT ![r.user].content = r.arg]
    <3>1. res = Result("OK", NoData, d)
      BY <1>8, <2>1, <2>2
      DEF Serve, SolutionServe, set_user_data, IfAuth, do_with, Mapped, LoggedIn
    <3>2. Service!Verdict(r) = Service!Outcome("OK", NoData, d, diskBar)
      BY <1>1, <2>1, <2>2 DEF Service!Verdict, Service!Set
    <3>. HIDE DEF d
    <3>. QED BY <1>4, <3>1, <3>2
  <2>3. CASE r.cmd = "GET"
    <3>1. res = IF table[r.arg] = Absent THEN Result("ERR_NO_USER", NoData, table)
                ELSE IF table[r.arg].content = NoData THEN Result("ERR_NO_DATA", NoData, table)
                ELSE Result("OK", table[r.arg].content, table)
      BY <1>8, <2>1, <2>3
      DEF Serve, SolutionServe, get_user_data, IfAuth, do_with_readonly
    <3>2. /\ table[r.arg] = Absent =>
               Service!Verdict(r) = Service!Outcome("ERR_NO_USER", NoData, table, diskBar)
          /\ table[r.arg] # Absent /\ table[r.arg].content = NoData =>
               Service!Verdict(r) = Service!Outcome("ERR_NO_DATA", NoData, table, diskBar)
          /\ table[r.arg] # Absent /\ table[r.arg].content # NoData =>
               Service!Verdict(r) = Service!Outcome("OK", table[r.arg].content, table, diskBar)
      BY <1>1, <2>1, <2>3
      DEF Service!Verdict, Service!Get, Service!Error, Service!Unchanged
    <3>3. table[r.arg] # Absent => table[r.arg].content \in Data
      BY <2>3 DEF Tables, Entries, Data
    <3>4. CASE table[r.arg] = Absent
      BY <1>4, <3>1, <3>2, <3>4
    <3>5. CASE table[r.arg] # Absent /\ table[r.arg].content = NoData
      BY <1>4, <3>1, <3>2, <3>5
    <3>6. CASE table[r.arg] # Absent /\ table[r.arg].content # NoData
      BY <1>4, <3>1, <3>2, <3>3, <3>6
    <3>. QED BY <3>4, <3>5, <3>6
  <2>4. CASE r.cmd = "ALL"
    <3>. DEFINE us == {u \in Users : table[u] # Absent}
    <3>1. res = Result("OK", us, table)
      BY <1>8, <2>1, <2>4
      DEF Serve, SolutionServe, get_all_users, IfAuth, do_all_readonly, UsersOf
    <3>2. Service!Verdict(r) = Service!Outcome("OK", us, table, diskBar)
      BY <1>1, <2>1, <2>4 DEF Service!Verdict, Service!Unchanged
    <3>3. us \in Data
      BY DEF Data
    <3>. HIDE DEF us
    <3>. QED BY <1>4, <3>1, <3>2, <3>3
  <2>5. CASE r.cmd \in {"SAV", "BYE"}
    <3>1. res = Result("OK", NoData, table)
      BY <1>8, <2>1, <2>5 DEF Serve, SolutionServe, Authenticate, IfAuth
    <3>2. r.cmd = "BYE"
      BY <2>5, <3>1 DEF Succeeded, Result
    <3>3. Service!Verdict(r) = Service!Outcome("OK", NoData, table, diskBar)
      BY <1>1, <2>1, <3>2 DEF Service!Verdict, Service!Unchanged
    <3>. QED BY <1>4, <3>1, <3>3
  <2>. QED BY <1>2, <1>8, <2>2, <2>3, <2>4, <2>5 DEF Cmds
<1>. QED BY <1>5, <1>6, <1>7, <1>8

-----------------------------------------------------------------------------
(* The worker's steps.                                                     *)

\* An answer, as a job.
LEMMA AnswerFields ==
  ASSUME NEW ctx, NEW out, NEW halt
  PROVE  LET v == [Busy("reply", job.c, ctx) EXCEPT !.out = out] IN
         /\ JobShape(v) /\ v.pc = "reply" /\ v.c = job.c /\ v.ctx = ctx /\ v.out = out
<1>. DEFINE b == Busy("reply", job.c, ctx)
            v == [b EXCEPT !.out = out]
<1>1. JobShape(b) /\ b.pc = "reply" /\ b.c = job.c /\ b.ctx = ctx
  BY BusyFields
<1>2. JobShape(v) /\ v.pc = "reply" /\ v.c = job.c /\ v.ctx = ctx /\ v.out = out
  <2>. HIDE DEF b
  <2>. QED BY <1>1 DEF JobShape
<1>. QED BY <1>2

\* A refusal in the worker's hand, sealed or plain.
LEMMA RefusalImplements ==
  ASSUME DialogueInv, Linked, NEW c \in Clients, job.c = c,
         job.pc \notin {"idle", "reply", "hangup"},
         NEW v, SetJob(v), v.pc = "reply", v.c = c,
         NEW msg, v.out.text = Answer(msg, NoData), v.out.sealed => Seals(v.ctx),
         msg \in {"ERR_CRYPTO", "ERR_REQ_FMT"}
           \/ (msg = "ERR_SERVER" /\ cl[c].req.cmd = "SAV" /\ cl[c].sent = 2),
         UNCHANGED <<stubs, up, table, file, tmp, cl>>
  PROVE  Linked' /\ Service!DirectoryNext
<1>1. job' = v /\ cl' = cl
  BY DEF SetJob
<1>2. UNCHANGED <<dirBar, diskBar>>
  BY SameTables
<1>3. Answer(msg, NoData) \in Answers
  BY DEF Answer, Answers, Messages
<1>4. Linked'
  BY <1>3, JobLinks DEF Saving
<1>5. CASE cl[c].pc = "open" \/ cl[c].sent = 2
  <2>1. msg \in Service!Refusals(cl[c].req)
    BY DEF Service!Refusals
  <2>2. PICK o \in Service!Outcomes(cl[c].req) :
          /\ o.msg = msg /\ o.data = NoData /\ o.dir = dirBar /\ o.disk = diskBar
          /\ Answer(o.msg, o.data) \in Answers
    BY <2>1, Refuses
  <2>. QED BY <1>1, <1>2, <1>4, <1>5, <2>2, AnswerDecides
<1>6. CASE ~(cl[c].pc = "open" \/ cl[c].sent = 2)
  <2>1. \A d \in Clients \ {c} : CallOf(d)' = CallOf(d)
    BY <1>1, JobCalls
  <2>2. cl[c].pc = "gone"
    BY <1>6 DEF Linked, JobLinked, Sender, DialogueInv, ClientsOK, ClientOK
  <2>3. CallOf(c)' = Service!NoCall
    BY <1>1, <1>6, <2>2 DEF CallOf, Waits, AnswerTo, Service!NoCall
  <2>. QED BY <1>2, <1>4, <2>1, <2>3, Loses
<1>. QED BY <1>5, <1>6

\* Reading the two blocks: the call waits, is refused for its cipher, or is lost.
LEMMA ReadImplements ==
  ASSUME DialogueInv, Linked, ReadRBlock \/ ReadShort \/ ReadABlock
  PROVE  Linked' /\ Service!DirectoryNext
<1>1. job.pc \in {"rblock", "ablock"} /\ UNCHANGED <<stubs, up, table, file, tmp, cl>>
  BY DEF ReadRBlock, ReadShort, ReadABlock
<1>2. PICK c \in Clients : job.c = c
  BY <1>1, JobsClient
<1>3. CASE ReadRBlock
  <2>1. PICK opens \in {TRUE} \cup Failure(FALSE) : \E ctx \in create_aes_context(FALSE) :
          SetJob(IF opens /\ ctx # NoContext THEN Busy("ablock", job.c, ctx)
                 ELSE [Busy("reply", job.c, NoContext)
                         EXCEPT !.out = Wired(FALSE, Answer("ERR_CRYPTO", NoData))])
    BY <1>3 DEF ReadRBlock
  <2>2. PICK ctx \in create_aes_context(FALSE) :
          SetJob(IF opens /\ ctx # NoContext THEN Busy("ablock", job.c, ctx)
                 ELSE [Busy("reply", job.c, NoContext)
                         EXCEPT !.out = Wired(FALSE, Answer("ERR_CRYPTO", NoData))])
    BY <2>1
  <2>3. CASE opens /\ ctx # NoContext
    <3>. DEFINE v == Busy("ablock", job.c, ctx)
    <3>1. SetJob(v) /\ v.pc = "ablock" /\ v.c = c
      BY <1>2, <2>2, <2>3, BusyFields
    <3>. HIDE DEF v
    <3>2. Linked'
      BY <1>1, <1>2, <3>1, JobLinks DEF Saving
    <3>. QED BY <1>1, <1>2, <3>1, <3>2, SameTables, StillWaits DEF SetJob
  <2>4. CASE ~(opens /\ ctx # NoContext)
    <3>. DEFINE out == Wired(FALSE, Answer("ERR_CRYPTO", NoData))
                v == [Busy("reply", job.c, NoContext) EXCEPT !.out = out]
    <3>1. SetJob(v)
      BY <2>2, <2>4
    <3>2. out.text = Answer("ERR_CRYPTO", NoData) /\ out.sealed = FALSE
      BY DEF Wired
    <3>. HIDE DEF out
    <3>3. v.pc = "reply" /\ v.c = c /\ v.out = out
      BY <1>2, AnswerFields
    <3>. HIDE DEF v
    <3>. QED BY <1>1, <1>2, <3>1, <3>2, <3>3, RefusalImplements
  <2>. QED BY <2>3, <2>4
<1>4. CASE ReadShort
  BY <1>1, <1>2, <1>4, LeavingImplements DEF ReadShort
<1>5. CASE ReadABlock
  <2>1. PICK dec \in aes_crypt_msg(Stub("my_crypto"), job.ctx, FALSE, Sender.req) :
          \E ctx \in reset_aes_context(dec.ctx, TRUE) :
            SetJob([Busy("handle", job.c, ctx) EXCEPT !.in = dec.out])
    BY <1>5 DEF ReadABlock
  <2>2. PICK ctx \in reset_aes_context(dec.ctx, TRUE) :
          SetJob([Busy("handle", job.c, ctx) EXCEPT !.in = dec.out])
    BY <2>1
  <2>3. dec.out \in {Nothing, Garbled, Sender.req}
    <3>1. job.ctx \in Contexts
      BY DEF DialogueInv, JobOK, JobTyped
    <3>. QED BY <3>1, Crypts
  <2>4. Seals(ctx)
    BY DEF reset_aes_context, Failure, Context, Seals
  <2>. DEFINE b == Busy("handle", job.c, ctx)
              v == [b EXCEPT !.in = dec.out]
  <2>5. JobShape(b) /\ b.pc = "handle" /\ b.c = job.c /\ b.ctx = ctx
    BY BusyFields
  <2>6. v.pc = "handle" /\ v.c = c /\ v.ctx = ctx /\ v.in = dec.out
    <3>. HIDE DEF b
    <3>. QED BY <1>2, <2>5 DEF JobShape
  <2>7. SetJob(v)
    BY <2>2
  <2>. HIDE DEF v
  <2>8. Sender.sent = 2
    BY <1>5 DEF ReadABlock
  <2>9. Linked'
    BY <1>1, <1>2, <2>3, <2>4, <2>6, <2>7, <2>8, JobLinks DEF Saving
  <2>. QED BY <1>1, <1>2, <2>6, <2>7, <2>9, SameTables, StillWaits DEF SetJob
<1>. QED BY <1>3, <1>4, <1>5

\* A replying job's fields.
LEMMA ReplyingFields ==
  ASSUME NEW msg, NEW data
  PROVE  /\ JobShape(Replying(msg, data)) /\ Replying(msg, data).pc = "reply"
         /\ Replying(msg, data).c = job.c /\ Replying(msg, data).ctx = job.ctx
         /\ Replying(msg, data).out.text = Answer(msg, data)
<1>. DEFINE out == Wired(TRUE, Answer(msg, data))
            v == [Busy("reply", job.c, job.ctx) EXCEPT !.out = out]
<1>1. out.text = Answer(msg, data)
  BY DEF Wired
<1>. HIDE DEF out
<1>2. JobShape(v) /\ v.pc = "reply" /\ v.c = job.c /\ v.ctx = job.ctx /\ v.out = out
  BY AnswerFields
<1>3. Replying(msg, data) = v
  BY DEF Replying, out
<1>. HIDE DEF v
<1>. QED BY <1>1, <1>2, <1>3

\* What the handlers do decides the call, or goes on to save.
LEMMA HandleImplements ==
  ASSUME DialogueInv, Linked, Handle
  PROVE  Linked' /\ Service!DirectoryNext
<1>1. job.pc = "handle" /\ UNCHANGED <<stubs, up, file, tmp, cl>>
  BY DEF Handle
<1>2. PICK c \in Clients : job.c = c
  BY <1>1, JobsClient
<1>3. /\ up /\ Sender = cl[c] /\ cl[c].sent = 2 /\ Seals(job.ctx)
      /\ job.in \in {Nothing, Garbled, cl[c].req}
  BY <1>1, <1>2 DEF Linked, JobLinked, Sender
<1>. DEFINE r == cl[c].req
<1>4. job.in = r /\ r.arg # Oversize
  BY <1>3 DEF Handle, WellFormed
<1>5. Legal(r) /\ (r.cmd = "GET" => r.arg \in Users)
  BY <1>3, RequestLegal
<1>. HIDE DEF r
<1>6. PICK res \in Serve(r) :
        /\ table' = res.table
        /\ SetJob(IF r.cmd = "SAV" /\ Succeeded(res) THEN [job EXCEPT !.pc = "open tmp"]
                  ELSE [Replying(res.msg, res.data) EXCEPT
                          !.halt = r.cmd = "BYE" /\ Succeeded(res)])
  BY <1>4 DEF Handle
<1>7. dirBar = table /\ dirBar' = table' /\ diskBar' = diskBar
  BY <1>1, <1>3 DEF dirBar, diskBar, Loaded
<1>8. CASE r.cmd = "SAV" /\ Succeeded(res)
  <2>. DEFINE v == [job EXCEPT !.pc = "open tmp"]
  <2>1. SetJob(v) /\ v.pc = "open tmp" /\ v.c = c /\ v.ctx = job.ctx
    BY <1>2, <1>6, <1>8 DEF DialogueInv, JobOK, JobTyped, JobShape
  <2>. HIDE DEF v
  <2>2. res = Result("OK", NoData, table) /\ LoggedIn(r)
    BY <1>8 DEF Serve, SolutionServe, Authenticate, IfAuth, auth, do_with_readonly, LoggedIn,
                Unimplemented, Succeeded, Result
  <2>3. table' = table
    BY <1>6, <2>2 DEF Result
  <2>4. LoggedIn(Sender.req)'
    BY <1>1, <2>1, <2>2, <2>3 DEF LoggedIn, Sender, SetJob, r
  <2>5. Linked'
    BY <1>1, <1>2, <1>3, <1>4, <1>8, <2>1, <2>4, JobLinks DEF r, Saving
  <2>. QED BY <1>1, <1>2, <1>7, <2>1, <2>3, <2>5, StillWaits DEF SetJob
<1>9. CASE ~(r.cmd = "SAV" /\ Succeeded(res))
  <2>. DEFINE halt == r.cmd = "BYE" /\ Succeeded(res)
              u == Replying(res.msg, res.data)
              v == [u EXCEPT !.halt = halt]
  <2>1. SetJob(v)
    BY <1>6, <1>9
  <2>2. /\ JobShape(u) /\ u.pc = "reply" /\ u.c = c /\ u.ctx = job.ctx
        /\ u.out.text = Answer(res.msg, res.data)
    BY <1>2, ReplyingFields
  <2>. HIDE DEF u, halt
  <2>3. v.pc = "reply" /\ v.c = c /\ v.ctx = job.ctx
        /\ v.out.text = Answer(res.msg, res.data)
    BY <2>2 DEF JobShape
  <2>. HIDE DEF v
  <2>4. PICK o \in Service!Outcomes(r) :
          /\ o.msg = res.msg /\ o.data = res.data /\ o.dir = res.table /\ o.disk = diskBar
          /\ Answer(o.msg, o.data) \in Answers
    BY <1>3, <1>4, <1>5, <1>9, ServesOutcome DEF DialogueInv
  <2>5. Linked'
    BY <1>1, <1>2, <1>3, <2>1, <2>3, <2>4, JobLinks DEF Saving
  <2>6. job' = v /\ cl' = cl
    BY <1>1, <2>1 DEF SetJob
  <2>. QED BY <1>1, <1>2, <1>3, <1>6, <1>7, <2>3, <2>4, <2>5, <2>6, AnswerDecides DEF r
<1>. QED BY <1>8, <1>9

\* A request that cannot be parsed is refused.
LEMMA HandleMalformedImplements ==
  ASSUME DialogueInv, Linked, HandleMalformed
  PROVE  Linked' /\ Service!DirectoryNext
<1>1. job.pc = "handle" /\ UNCHANGED <<stubs, up, table, file, tmp, cl>>
      /\ SetJob(Replying("ERR_REQ_FMT", NoData))
  BY DEF HandleMalformed
<1>2. PICK c \in Clients : job.c = c
  BY <1>1, JobsClient
<1>3. Seals(job.ctx)
  BY <1>1 DEF Linked, JobLinked
<1>. DEFINE v == Replying("ERR_REQ_FMT", NoData)
<1>4. v.pc = "reply" /\ v.c = c /\ v.ctx = job.ctx /\ v.out.text = Answer("ERR_REQ_FMT", NoData)
  BY <1>2, ReplyingFields
<1>. HIDE DEF v
<1>. QED BY <1>1, <1>2, <1>3, <1>4, RefusalImplements DEF v

\* Saving: the rename decides the call, and a file that cannot be opened refuses it.
LEMMA SaveImplements ==
  ASSUME DialogueInv, Linked, OpenTmp \/ OpenTmpFails \/ CloseTmp \/ RenameTmp
  PROVE  Linked' /\ Service!DirectoryNext
<1>1. job.pc \in Saving /\ UNCHANGED <<stubs, up, table, cl>>
  BY DEF OpenTmp, OpenTmpFails, CloseTmp, RenameTmp, Saving
<1>2. PICK c \in Clients : job.c = c
  BY <1>1, JobsClient DEF Saving
<1>3. /\ up /\ Sender = cl[c] /\ cl[c].sent = 2 /\ Seals(job.ctx) /\ SavingOK
  <2>1. job.pc # "idle"
    BY <1>1 DEF Saving
  <2>2. JobLinked /\ Sender = cl[c]
    BY <1>2 DEF Linked, Sender
  <2>. QED BY <1>1, <2>1, <2>2 DEF JobLinked
<1>4. LoggedIn(Sender.req)'
  BY <1>1, <1>2, <1>3 DEF SavingOK, LoggedIn, Sender, OpenTmp, OpenTmpFails, CloseTmp, RenameTmp,
      SetJob, Replying, Busy, DialogueInv, JobOK, JobTyped, JobShape
<1>5. ASSUME NEW pc \in {"close tmp", "rename"}, SetJob([job EXCEPT !.pc = pc]),
             pc = "rename" => tmp' = table', file' = file
      PROVE  Linked' /\ Service!DirectoryNext
  <2>. DEFINE v == [job EXCEPT !.pc = pc]
  <2>1. SetJob(v) /\ v.pc = pc /\ v.c = c /\ v.ctx = job.ctx
    BY <1>2, <1>5 DEF DialogueInv, JobOK, JobTyped, JobShape
  <2>. HIDE DEF v
  <2>2. Linked'
    BY <1>1, <1>2, <1>3, <1>4, <1>5, <2>1, JobLinks DEF Saving, SavingOK
  <2>. QED BY <1>1, <1>2, <1>5, <2>1, <2>2, SameTables, StillWaits DEF SetJob, Saving
<1>6. CASE OpenTmp
  BY <1>5, <1>6 DEF OpenTmp
<1>7. CASE CloseTmp
  BY <1>1, <1>5, <1>7 DEF CloseTmp
<1>8. CASE OpenTmpFails
  <2>. DEFINE v == Replying("ERR_SERVER", NoData)
  <2>1. SetJob(v) /\ UNCHANGED <<file, tmp>>
    BY <1>8 DEF OpenTmpFails
  <2>2. v.pc = "reply" /\ v.c = c /\ v.ctx = job.ctx /\ v.out.text = Answer("ERR_SERVER", NoData)
    BY <1>2, ReplyingFields
  <2>. HIDE DEF v
  <2>3. cl[c].req.cmd = "SAV"
    BY <1>3 DEF SavingOK
  <2>. QED BY <1>1, <1>2, <1>3, <2>1, <2>2, <2>3, RefusalImplements DEF Saving
<1>9. CASE RenameTmp
  <2>. DEFINE v == Replying("OK", NoData)
              r == cl[c].req
  <2>1. SetJob(v) /\ job.pc = "rename" /\ file' = tmp
    BY <1>9 DEF RenameTmp
  <2>2. v.pc = "reply" /\ v.c = c /\ v.ctx = job.ctx /\ v.out.text = Answer("OK", NoData)
    BY <1>2, ReplyingFields
  <2>. HIDE DEF v
  <2>3. Answer("OK", NoData) \in Answers
    BY DEF Answer, Answers, Messages
  <2>4. dirBar = table /\ dirBar' = table /\ diskBar' = table
    BY <1>1, <1>3, <2>1, DialogueAssumption
    DEF dirBar, diskBar, Loaded, SavingOK, DialogueInv
  <2>5. Service!Verdict(r) = Service!Outcome("OK", NoData, table, table)
    BY <1>3, <2>4 DEF Service!Verdict, Service!Member, SavingOK, LoggedIn
  <2>6. Service!Outcome("OK", NoData, table, table) \in Service!Outcomes(r)
    BY <1>3, <2>5 DEF Service!Outcomes, SavingOK
  <2>. DEFINE o == Service!Outcome("OK", NoData, table, table)
  <2>7. o.msg = "OK" /\ o.data = NoData /\ o.dir = table /\ o.disk = table
    BY DEF Service!Outcome
  <2>8. Linked'
    BY <1>1, <1>2, <1>3, <2>1, <2>2, <2>3, JobLinks DEF Saving
  <2>9. job' = v /\ cl' = cl
    BY <1>1, <2>1 DEF SetJob
  <2>. HIDE DEF o
  <2>. QED
    BY <1>1, <1>2, <1>3, <2>1, <2>2, <2>3, <2>4, <2>6, <2>7, <2>8, <2>9, AnswerDecides
    DEF o
<1>. QED BY <1>6, <1>7, <1>8, <1>9

-----------------------------------------------------------------------------
(* The end of a request, and of the server.                                *)

\* What is sent is the answer, or nothing.
LEMMA SendsAnswer ==
  ASSUME job.out.sealed => Seals(job.ctx),
         NEW enc \in IF job.out.sealed
                     THEN aes_crypt_msg(Stub("my_crypto"), job.ctx, TRUE, job.out.text)
                     ELSE {Crypted(job.out.text, job.ctx)}
  PROVE  enc.out \in {Nothing, job.out.text}
<1>. DEFINE text == job.out.text
            ctx == job.ctx
<1>1. CASE ~job.out.sealed
  BY <1>1 DEF Crypted
<1>2. CASE job.out.sealed
  <2>1. enc \in aes_crypt_msg(Stub("my_crypto"), ctx, TRUE, text)
    BY <1>2
  <2>2. ctx = Context("ready", TRUE) \/ ctx.life = "cleaned"
    BY <1>2 DEF Seals
  <2>. HIDE DEF text, ctx
  <2>3. CASE Stub("my_crypto") \/ ctx.life = "cleaned" \/ text = Nothing
    <3>1. enc = Crypted(Nothing, ctx)
      BY <2>1, <2>3 DEF aes_crypt_msg, StubCrypt, SolutionCrypt
    <3>. QED BY <3>1 DEF Crypted
  <2>4. CASE ~(Stub("my_crypto") \/ ctx.life = "cleaned" \/ text = Nothing)
    <3>. DEFINE spent == [ctx EXCEPT !.life = "spent"]
    <3>. HIDE DEF spent
    <3>1. enc = Crypted(text, spent) \/ enc = Crypted(Nothing, spent)
      BY <2>1, <2>2, <2>4 DEF aes_crypt_msg, SolutionCrypt, Failure, spent
    <3>. QED BY <3>1 DEF Crypted, text
  <2>. QED BY <2>3, <2>4 DEF text
<1>. QED BY <1>1, <1>2

\* An answer that is sent stays what was decided; one that cannot be is lost.
LEMMA SendReplyImplements ==
  ASSUME DialogueInv, Linked, SendReply
  PROVE  Linked' /\ Service!DirectoryNext
<1>1. job.pc = "reply" /\ UNCHANGED <<stubs, up, table, file, tmp>>
  BY DEF SendReply
<1>2. PICK c \in Clients : job.c = c
  BY <1>1, JobsClient
<1>3. /\ up /\ Sender = cl[c] /\ cl[c].pc # "idle" /\ ~cl[c].hung /\ cl[c].reply = Silence
      /\ job.out.text \in Answers /\ (job.out.sealed => Seals(job.ctx))
      /\ ClientLinked(c) /\ ClientShape(cl[c]) /\ cl[c].pc \in {"open", "gone"}
  BY <1>1, <1>2 DEF Linked, JobLinked, Sender, DialogueInv, ClientsOK, ClientOK
<1>4. PICK enc \in IF job.out.sealed
                   THEN aes_crypt_msg(Stub("my_crypto"), job.ctx, TRUE, job.out.text)
                   ELSE {Crypted(job.out.text, job.ctx)} :
        /\ SetJob(Leaving(enc.ctx, job.halt))
        /\ SetClient(job.c, IF enc.out = Nothing \/ Sender.pc = "gone" THEN Sender
                            ELSE [Sender EXCEPT !.reply = Wired(job.out.sealed, enc.out)])
  BY DEF SendReply
<1>5. enc.out \in {Nothing, job.out.text}
  BY <1>3, <1>4, SendsAnswer
<1>6. job'.pc = "hangup" /\ job'.c = c
  <2>. DEFINE b == Busy("hangup", job.c, enc.ctx)
  <2>1. JobShape(b) /\ b.pc = "hangup" /\ b.c = job.c
    BY BusyFields
  <2>2. job' = [b EXCEPT !.halt = job.halt]
    BY <1>4 DEF SetJob, Leaving
  <2>. HIDE DEF b
  <2>. QED BY <1>2, <2>1, <2>2 DEF JobShape
<1>. DEFINE sent == ~(enc.out = Nothing \/ cl[c].pc = "gone")
            wire == Wired(job.out.sealed, enc.out)
            v == IF sent THEN [cl[c] EXCEPT !.reply = wire] ELSE cl[c]
<1>7. /\ wire.text = enc.out
      /\ sent => wire.text = job.out.text /\ wire # Silence
  BY <1>5, AnswerAssumption DEF Wired, Silence
<1>8. cl'[c] = v /\ \A d \in Clients \ {c} : cl'[d] = cl[d]
  BY <1>2, <1>3, <1>4 DEF SetClient, DialogueInv, ClientsOK
<1>. HIDE DEF wire
<1>9. /\ v.pc = cl[c].pc /\ v.hung = cl[c].hung /\ v.sent = cl[c].sent /\ v.req = cl[c].req
      /\ v.reply = IF sent THEN wire ELSE Silence
  BY <1>3 DEF ClientShape
<1>. HIDE DEF v, sent
<1>10. Linked'
  <2>1. JobLinked'
    BY <1>1, <1>3, <1>6, <1>8, <1>9 DEF JobLinked, Sender, Saving
  <2>2. ClientLinked(c)'
    BY <1>3, <1>6, <1>7, <1>8, <1>9 DEF ClientLinked
  <2>3. ASSUME NEW d \in Clients \ {c} PROVE ClientLinked(d)'
    BY <1>1, <1>2, <1>6, <1>8 DEF Linked, ClientLinked
  <2>. QED BY <2>1, <2>2, <2>3 DEF Linked
<1>11. \A d \in Clients \ {c} : CallOf(d)' = CallOf(d)
  BY <1>2, <1>6, <1>8, SameCall
<1>12. CallOf(c)' \in {CallOf(c), Service!NoCall}
  <2>1. ~Waits(c) /\ ~Waits(c)'
    BY <1>1, <1>2, <1>6 DEF Waits
  <2>2. CASE sent
    <3>1. cl[c].pc = "open"
      BY <1>3, <2>2 DEF sent
    <3>2. AnswerTo(c) = job.out.text /\ AnswerTo(c)' = job.out.text
      BY <1>1, <1>2, <1>6, <1>7, <1>8, <1>9, <2>2, <3>1 DEF AnswerTo
    <3>. QED BY <1>8, <1>9, <2>1, <3>2 DEF CallOf
  <2>3. CASE ~sent
    <3>1. AnswerTo(c)' = Nothing
      <4>1. v.reply.text = Nothing
        BY <1>9, <2>3 DEF Silence, Wired
      <4>. QED BY <1>6, <1>8, <4>1 DEF AnswerTo
    <3>. QED BY <2>1, <3>1 DEF CallOf, Service!NoCall
  <2>. QED BY <2>2, <2>3
<1>. QED BY <1>1, <1>10, <1>11, <1>12, SameTables, Loses

\* A client that hears the end of the stream: its part, and its call.
LEMMA HungUpFields ==
  ASSUME DialogueInv, Linked, NEW c \in Clients
  PROVE  /\ HungUp(cl[c]).hung => HungUp(cl[c]).pc = "open"
         /\ HungUp(cl[c]).pc = "open" \/ HungUp(cl[c]).sent = 2 =>
              HungUp(cl[c]).req \in Requests[c]
         /\ HungUp(cl[c]).reply = Silence \/ HungUp(cl[c]).reply.text \in Answers
         /\ HungUp(cl[c]).reply = Silence \/ HungUp(cl[c]).hung \/ HungUp(cl[c]).pc = "idle"
         /\ HungUp(cl[c]).pc \in {"open", "idle"}
         /\ HungUp(cl[c]).pc = "open" => HungUp(cl[c]).hung
<1>. DEFINE v == HungUp(cl[c])
<1>1. ClientLinked(c) /\ ClientShape(cl[c]) /\ cl[c].pc \in {"idle", "open", "gone"}
  BY DEF Linked, DialogueInv, ClientsOK, ClientOK
<1>2. CASE cl[c].pc = "gone"
  BY <1>2 DEF HungUp, Ended, Informed, Silence
<1>3. CASE cl[c].pc = "open"
  <2>1. v = [cl[c] EXCEPT !.hung = TRUE]
    BY <1>3 DEF HungUp
  <2>2. /\ v.pc = "open" /\ v.hung = TRUE /\ v.sent = cl[c].sent /\ v.req = cl[c].req
        /\ v.reply = cl[c].reply
    <3>. HIDE DEF v
    <3>. QED BY <1>1, <1>3, <2>1 DEF ClientShape
  <2>. QED BY <1>1, <1>3, <2>2 DEF ClientLinked
<1>4. CASE cl[c].pc = "idle"
  BY <1>1, <1>4 DEF HungUp, ClientLinked
<1>. QED BY <1>1, <1>2, <1>3, <1>4

\* Whoever is hung up on by a worker that is done, or by a server that ends, has
\* its answer in the socket, or has lost its call.
LEMMA HungUpCall ==
  ASSUME DialogueInv, Linked, NEW c \in Clients, cl'[c] = HungUp(cl[c]), job'.c # c
  PROVE  CallOf(c)' \in {CallOf(c), Service!NoCall}
<1>1. ClientLinked(c) /\ ClientShape(cl[c]) /\ cl[c].pc \in {"idle", "open", "gone"}
  BY DEF Linked, DialogueInv, ClientsOK, ClientOK
<1>2. CASE cl[c].pc = "gone"
  BY <1>2 DEF HungUp, Ended, Informed, Wired, CallOf, Waits, AnswerTo, Service!NoCall
<1>3. CASE cl[c].pc = "idle"
  <2>1. job.c # c
    BY <1>3, IdleCall
  <2>. QED BY <1>3, <2>1, SameCall DEF HungUp
<1>4. CASE cl[c].pc = "open"
  <2>. DEFINE v == [cl[c] EXCEPT !.hung = TRUE]
  <2>1. cl'[c] = v
    BY <1>4 DEF HungUp
  <2>2. /\ v.pc = "open" /\ v.hung = TRUE /\ v.req = cl[c].req /\ v.reply = cl[c].reply
    BY <1>1, <1>4 DEF ClientShape
  <2>. HIDE DEF v
  <2>3. ~Waits(c)' /\ AnswerTo(c)' = cl[c].reply.text
    BY <2>1, <2>2 DEF Waits, AnswerTo
  <2>4. CASE cl[c].reply = Silence
    <3>1. cl[c].reply.text = Nothing
      BY <2>4 DEF Silence, Wired
    <3>. QED BY <2>3, <3>1 DEF CallOf, Service!NoCall
  <2>5. CASE cl[c].reply # Silence
    <3>1. ~Waits(c) /\ AnswerTo(c) = cl[c].reply.text
      <4>1. job.c = c => job.pc = "hangup"
        BY <1>1, <1>4, <2>5, JobsClient DEF Linked, JobLinked, Sender
      <4>. QED BY <1>4, <2>5, <4>1 DEF Waits, AnswerTo
    <3>. QED BY <1>4, <2>1, <2>2, <2>3, <3>1 DEF CallOf
  <2>. QED BY <2>4, <2>5
<1>. QED BY <1>1, <1>2, <1>3, <1>4

\* A worker that hangs up is free for the next client.
LEMMA HangUpImplements ==
  ASSUME DialogueInv, Linked, HangUp
  PROVE  Linked' /\ Service!DirectoryNext
<1>1. job.pc = "hangup" /\ UNCHANGED <<stubs, up, table, file, tmp>>
  BY DEF HangUp
<1>2. PICK c \in Clients : job.c = c
  BY <1>1, JobsClient
<1>3. job'.pc = "idle" /\ job'.c = Nobody /\ Nobody \notin Clients
  BY BusyFields, DialogueAssumption DEF HangUp, SetJob, Free
<1>4. cl'[c] = HungUp(cl[c]) /\ \A d \in Clients \ {c} : cl'[d] = cl[d]
  BY <1>2 DEF HangUp, SetClient, Sender, DialogueInv, ClientsOK
<1>5. Linked'
  <2>1. ClientLinked(c)'
    BY <1>4, HungUpFields DEF ClientLinked
  <2>2. ASSUME NEW d \in Clients \ {c} PROVE ClientLinked(d)'
    BY <1>2, <1>4 DEF Linked, ClientLinked
  <2>. QED BY <1>3, <2>1, <2>2 DEF Linked, JobLinked
<1>6. CallOf(c)' \in {CallOf(c), Service!NoCall}
  BY <1>3, <1>4, HungUpCall
<1>7. \A d \in Clients \ {c} : CallOf(d)' = CallOf(d)
  BY <1>2, <1>3, <1>4, SameCall
<1>. QED BY <1>1, <1>5, <1>6, <1>7, SameTables, Loses

\* The end of the server loses the calls that nobody has heard the answer to, and
\* what was not saved.
LEMMA GoDownImplements ==
  ASSUME DialogueInv, Linked, GoDown
  PROVE  Linked' /\ Service!DirectoryNext
<1>1. job'.pc = "idle" /\ job'.c = Nobody /\ Nobody \notin Clients
  BY BusyFields, DialogueAssumption DEF GoDown, SetJob, Free
<1>2. \A c \in Clients : cl'[c] = HungUp(cl[c])
  BY DEF GoDown
<1>3. Linked'
  <2>1. ASSUME NEW c \in Clients PROVE ClientLinked(c)'
    BY <1>2, HungUpFields DEF ClientLinked
  <2>. QED BY <1>1, <2>1 DEF Linked, JobLinked
<1>4. \A c \in Clients : CallOf(c)' \in {CallOf(c), Service!NoCall}
  BY <1>1, <1>2, HungUpCall
<1>5. UNCHANGED <<stubs, diskBar>> /\ dirBar' = diskBar
  BY DEF GoDown, dirBar, diskBar, Loaded
<1>. QED BY <1>3, <1>4, <1>5, Loses

\* The stubs of the handlers lose the call, and with one that could not be
\* decrypted the server.
LEMMA HandleStubImplements ==
  ASSUME DialogueInv, Linked, HandleStub
  PROVE  Linked' /\ Service!DirectoryNext
<1>1. CASE job.in = Nothing
  BY <1>1, GoDownImplements DEF HandleStub
<1>2. CASE job.in # Nothing
  <2>1. PICK c \in Clients : job.c = c
    BY JobsClient DEF HandleStub
  <2>. QED BY <1>2, <2>1, LeavingImplements DEF HandleStub
<1>. QED BY <1>1, <1>2

\* A server that starts has the directory that was persisted.
LEMMA StartServerImplements ==
  ASSUME DialogueInv, Linked, StartServer
  PROVE  Linked' /\ Service!DirectoryNext
<1>1. job' = job /\ cl' = cl /\ UNCHANGED <<stubs, file, tmp>> /\ ~up /\ up' = TRUE
      /\ table' = Loaded(file)
  BY DEF StartServer, Loaded
<1>2. UNCHANGED <<dirBar, diskBar>>
  BY <1>1 DEF dirBar, diskBar
<1>3. job.pc = "idle"
  BY <1>1 DEF Linked, JobLinked
<1>4. Linked'
  BY <1>1, <1>3 DEF Linked, JobLinked, ClientLinked
<1>5. \A c \in Clients : CallOf(c)' = CallOf(c)
  BY <1>1, SameCall
<1>. QED BY <1>1, <1>2, <1>4, <1>5, Loses

-----------------------------------------------------------------------------
\* Every step of a dialogue keeps Linked and is a step of the directory.
LEMMA StepImplements ==
  ASSUME DialogueInv, Linked, [DialogueNext]_vars
  PROVE  Linked' /\ [Service!DirectoryNext]_Service!directoryVars
<1>1. CASE \E c \in Clients :
             StartClient(c) \/ ClientStep(c) \/ KillClient(c) \/ TakeConnection(c)
  BY <1>1, StartClientImplements, SendBlockImplements, EndClientImplements,
     KillClientImplements, TakeConnectionImplements DEF ClientStep
<1>2. CASE WorkerStep
  <2>1. CASE Halt
    BY <2>1, GoDownImplements DEF Halt
  <2>. QED
    BY <1>2, <2>1, ReadImplements, HandleImplements, HandleMalformedImplements,
       HandleStubImplements, SaveImplements, SendReplyImplements, HangUpImplements
    DEF WorkerStep
<1>3. CASE KillServer \/ StartServer
  BY <1>3, GoDownImplements, StartServerImplements DEF KillServer
<1>4. CASE UNCHANGED vars
  <2>1. Linked'
    BY <1>4 DEF vars, Linked, JobLinked, SavingOK, LoggedIn, Sender, ClientLinked
  <2>2. UNCHANGED Service!directoryVars
    BY <1>4 DEF vars, Service!directoryVars, callBar, CallOf, Waits, AnswerTo, Understood,
                dirBar, diskBar, Loaded
  <2>. QED BY <2>1, <2>2
<1>. QED BY <1>1, <1>2, <1>3, <1>4 DEF DialogueNext

\* Before the first server nobody has a call, and the directory is what is in the
\* data file.
LEMMA InitImplements == DialogueInit => Linked /\ Service!DirectoryInit
<1>. SUFFICES ASSUME DialogueInit PROVE Linked /\ Service!DirectoryInit
  OBVIOUS
<1>1. job.pc = "idle" /\ job.c = Nobody /\ Nobody \notin Clients
  BY BusyFields, DialogueAssumption DEF DialogueInit, Free
<1>2. ASSUME NEW c \in Clients
      PROVE  /\ cl[c].pc = "idle" /\ cl[c].pc # "open" /\ ~cl[c].hung
             /\ cl[c].sent # 2
             /\ cl[c].reply = Silence /\ cl[c].reply.text = Nothing
  <2>. DEFINE e == Ended(NoContext)
  <2>1. cl[c] = e
    BY DEF DialogueInit
  <2>2. e.hung = FALSE /\ e.sent = 0
    BY DEF Ended, Informed
  <2>3. e.pc = "idle" /\ e.reply = Silence /\ Silence.text = Nothing
    BY DEF Ended, Informed, Silence, Wired
  <2>. HIDE DEF e
  <2>. QED BY <2>1, <2>2, <2>3
<1>3. Linked
  <2>1. JobLinked
    BY <1>1 DEF JobLinked
  <2>2. ASSUME NEW c \in Clients
        PROVE  ClientLinked(c)
    BY <1>2, <2>2 DEF ClientLinked
  <2>. QED BY <2>1, <2>2 DEF Linked
<1>4. callBar = [c \in Clients |-> Service!NoCall]
  BY <1>1, <1>2 DEF callBar, CallOf, Waits, AnswerTo, Service!NoCall
<1>5. dirBar = diskBar
  BY DEF DialogueInit, dirBar
<1>. QED BY <1>3, <1>4, <1>5 DEF Service!DirectoryInit

\* Linked holds in every state: the worker's client is there and waits, its request
\* is the one in the worker's hands, and what it saves is the table it logged into.
THEOREM LinkedAlways == DialogueSpec => []Linked
<1>. QED
  BY InitImplements, StepImplements, DialogueInvariant, PTL DEF DialogueSpec

\* Every build, with its OpenSSL failing and its processes dying at any point, keeps
\* the promises of the directory.
THEOREM DirectoryImplemented == DialogueSpec => ImplementsDirectory
<1>. QED
  BY InitImplements, StepImplements, DialogueInvariant, LinkedAlways, PTL
  DEF DialogueSpec, ImplementsDirectory, Service!DirectorySpec

-----------------------------------------------------------------------------
(* What users can rely on while a server runs.                              *)

\* The request in r is one that a client may be typed with, and it has sent it
\* to the worker in full.
Requested(r) ==
  /\ job.c \in Clients /\ cl[job.c].sent = 2
  /\ r = cl[job.c].req /\ r \in Requests[job.c]

\* Nobody has the name that r registers, and r's user gets an entry without a
\* profile.
Registers(u, r) ==
  /\ r.cmd = "REG" /\ r.user = u /\ table[u] = Absent
  /\ table'[u] = [pass |-> r.pass, content |-> NoData]

\* r comes with the entry's password, and sets its profile to one that is not
\* too long.
Writes(u, r) ==
  /\ r.cmd = "SET" /\ r.user = u /\ LoggedIn(r) /\ r.arg \in Profiles
  /\ table'[u] = [table[u] EXCEPT !.content = r.arg]

\* An entry of a running server changes only as its owner asked in a request
\* that a client has sent in full.
OwnersWrite ==
  [][up /\ up' => \A u \in Users : table'[u] # table[u] =>
        \E r : Requested(r) /\ (Registers(u, r) \/ Writes(u, r))]_vars

\* The data file changes only to the whole table of the running server, for a
\* user who asked for it with a password that fits.
UsersSave ==
  [][file' # file =>
        /\ up /\ up' /\ file' = table /\ table' = table
        /\ \E r : Requested(r) /\ r.cmd = "SAV" /\ LoggedIn(r)]_vars

\* Nobody loses an account, or the password to it, while the server runs.
AccountsStay ==
  [][up /\ up' => \A u \in Users : table[u] # Absent =>
        table'[u] # Absent /\ table'[u].pass = table[u].pass]_vars

\* Storage changes no entry but that of the request's user.
LEMMA ServeChanges ==
  ASSUME table \in Tables, NEW r, Legal(r), NEW res \in Serve(r),
         NEW u \in Users, res.table[u] # table[u]
  PROVE  \/ /\ r.cmd = "REG" /\ r.user = u /\ table[u] = Absent
            /\ res.table[u] = [pass |-> r.pass, content |-> NoData]
         \/ /\ r.cmd = "SET" /\ r.user = u /\ LoggedIn(r)
            /\ res.table[u] = [table[u] EXCEPT !.content = r.arg]
<1>. DEFINE map == Stub("map")
<1>1. r.user \in Users
  BY DEF Legal, RequestRecords
<1>2. res.table # table
  OBVIOUS
<1>3. \/ r.cmd = "REG" /\ res = add_user(map, table, r.user, r.pass)
      \/ r.cmd = "SET" /\ res = set_user_data(map, table, r.user, r.pass, r.arg)
  BY <1>2 DEF Serve, SolutionServe, Unimplemented, Failure, get_user_data, get_all_users,
              Authenticate, IfAuth, Result
<1>4. CASE r.cmd = "REG" /\ res = add_user(map, table, r.user, r.pass)
  <2>. DEFINE e == [pass |-> r.pass, content |-> NoData]
  <2>1. res.table = insert(map, table, r.user, e).table
    BY <1>4 DEF add_user, Result
  <2>. HIDE DEF e
  <2>2. table[r.user] = Absent /\ res.table = [table EXCEPT ![r.user] = e]
    BY <1>2, <2>1 DEF insert, StubMap, Mapped
  <2>. QED
    BY <1>1, <1>4, <2>2 DEF Tables, e
<1>5. CASE r.cmd = "SET" /\ res = set_user_data(map, table, r.user, r.pass, r.arg)
  <2>1. auth(map, table, r.user, r.pass)
        /\ res.table = do_with(map, table, r.user, r.arg).table
    BY <1>2, <1>5 DEF set_user_data, IfAuth, Result
  <2>2. LoggedIn(r) /\ res.table = [table EXCEPT ![r.user].content = r.arg]
    BY <2>1 DEF auth, do_with_readonly, do_with, Mapped, LoggedIn
  <2>. QED
    BY <1>1, <1>5, <2>2 DEF Tables
<1>. QED
  BY <1>3, <1>4, <1>5

\* Only a handler changes the table of a server that keeps running.
LEMMA OnlyHandleWrites ==
  ASSUME DialogueNext, up, up', table' # table
  PROVE  Handle
BY DEF DialogueNext, StartClient, ClientStep, SendBlock, EndClient, KillClient, TakeConnection,
       WorkerStep, ReadRBlock, ReadShort, ReadABlock, HandleMalformed, HandleStub, OpenTmp,
       OpenTmpFails, CloseTmp, RenameTmp, SendReply, HangUp, Halt, KillServer, GoDown,
       StartServer

\* Only the rename of a save changes the data file.
LEMMA OnlyRenameWrites ==
  ASSUME DialogueNext, file' # file
  PROVE  RenameTmp
BY DEF DialogueNext, StartClient, ClientStep, SendBlock, EndClient, KillClient, TakeConnection,
       WorkerStep, ReadRBlock, ReadShort, ReadABlock, Handle, HandleMalformed, HandleStub,
       OpenTmp, OpenTmpFails, CloseTmp, SendReply, HangUp, Halt, KillServer, GoDown,
       StartServer

\* What the worker handles or saves was sent to it in full.
LEMMA WorkersRequest ==
  ASSUME DialogueInv, Linked, job.pc \in {"handle"} \cup Saving
  PROVE  /\ Requested(Sender.req) /\ Legal(Sender.req) /\ up
         /\ job.pc = "handle" => job.in \in {Nothing, Garbled, Sender.req}
<1>1. job.c \in Clients
  BY JobsClient DEF Saving
<1>2. Sender = cl[job.c] /\ Sender.sent = 2 /\ up
      /\ (job.pc = "handle" => job.in \in {Nothing, Garbled, Sender.req})
  BY DEF Linked, JobLinked, Sender, Saving
<1>. QED
  BY <1>1, <1>2, RequestLegal DEF Requested

\* Entries change only for their owners.
THEOREM OwnersWriteAlone == DialogueSpec => OwnersWrite
<1>1. ASSUME DialogueInv, Linked, DialogueNext, up, up', NEW u \in Users, table'[u] # table[u]
      PROVE  \E r : Requested(r) /\ (Registers(u, r) \/ Writes(u, r))
  <2>. DEFINE r == Sender.req
  <2>1. Handle
    BY <1>1, OnlyHandleWrites
  <2>2. Requested(r) /\ Legal(r) /\ job.in \in {Nothing, Garbled, r}
    BY <1>1, <2>1, WorkersRequest DEF Handle
  <2>. HIDE DEF r
  <2>3. r.arg # Oversize /\ \E res \in Serve(r) : table' = res.table
    BY <2>1, <2>2 DEF Handle, WellFormed
  <2>4. PICK res \in Serve(r) : table' = res.table
    BY <2>3
  <2>5. Registers(u, r) \/ Writes(u, r)
    BY <1>1, <2>2, <2>3, <2>4, ServeChanges DEF DialogueInv, Registers, Writes, Legal
  <2>. QED
    BY <2>2, <2>5
<1>2. DialogueInv /\ Linked /\ [DialogueNext]_vars =>
        [up /\ up' => \A u \in Users : table'[u] # table[u] =>
           \E r : Requested(r) /\ (Registers(u, r) \/ Writes(u, r))]_vars
  BY <1>1
<1>. QED
  BY <1>2, DialogueInvariant, LinkedAlways, PTL DEF DialogueSpec, OwnersWrite

\* Whoever has an account keeps it, with its password, until the server stops.
THEOREM AccountsAreKept == DialogueSpec => AccountsStay
<1>1. ASSUME DialogueInv, NEW u \in Users, table[u] # Absent,
             table'[u] # table[u] => \E r : Requested(r) /\ (Registers(u, r) \/ Writes(u, r))
      PROVE  table'[u] # Absent /\ table'[u].pass = table[u].pass
  <2>1. table[u] \in Entries
    BY <1>1 DEF DialogueInv, Tables
  <2>2. CASE table'[u] = table[u]
    BY <1>1, <2>2
  <2>3. ASSUME NEW r, Writes(u, r)
        PROVE  table'[u] # Absent /\ table'[u].pass = table[u].pass
    <3>1. [table[u] EXCEPT !.content = r.arg] \in Entries
      BY <2>1, <2>3 DEF Writes, Entries
    <3>2. [table[u] EXCEPT !.content = r.arg].pass = table[u].pass
      BY <2>1 DEF Entries
    <3>. QED
      BY <2>3, <3>1, <3>2, AbsentAssumption DEF Writes
  <2>. QED
    BY <1>1, <2>2, <2>3 DEF Registers
<1>2. DialogueInv /\ [up /\ up' => \A u \in Users : table'[u] # table[u] =>
                         \E r : Requested(r) /\ (Registers(u, r) \/ Writes(u, r))]_vars
        => [up /\ up' => \A u \in Users : table[u] # Absent =>
              table'[u] # Absent /\ table'[u].pass = table[u].pass]_vars
  BY <1>1
<1>. QED
  BY <1>2, DialogueInvariant, OwnersWriteAlone, PTL DEF OwnersWrite, AccountsStay

\* The data file is the table of a user's save, and nothing else.
THEOREM UsersSaveAlone == DialogueSpec => UsersSave
<1>1. ASSUME DialogueInv, Linked, DialogueNext, file' # file
      PROVE  /\ up /\ up' /\ file' = table /\ table' = table
             /\ \E r : Requested(r) /\ r.cmd = "SAV" /\ LoggedIn(r)
  <2>1. RenameTmp
    BY <1>1, OnlyRenameWrites
  <2>2. Requested(Sender.req) /\ up
    BY <1>1, <2>1, WorkersRequest DEF RenameTmp, Saving
  <2>3. Sender.req.cmd = "SAV" /\ LoggedIn(Sender.req) /\ tmp = table
    BY <1>1, <2>1 DEF RenameTmp, Linked, JobLinked, Saving, SavingOK
  <2>. QED
    BY <2>1, <2>2, <2>3 DEF RenameTmp
<1>2. DialogueInv /\ Linked /\ [DialogueNext]_vars =>
        [file' # file =>
           /\ up /\ up' /\ file' = table /\ table' = table
           /\ \E r : Requested(r) /\ r.cmd = "SAV" /\ LoggedIn(r)]_vars
  BY <1>1
<1>. QED
  BY <1>2, DialogueInvariant, LinkedAlways, PTL DEF DialogueSpec, UsersSave

-----------------------------------------------------------------------------
(* What a build with a stub cannot do.                                     *)

IsOK(text) == text \in Answers /\ text.msg = "OK"

\* Whichever modules are missing, nobody is ever told that a request was done.
StubsNeverSucceed == stubs # {} => \A c \in Clients : ~IsOK(cl[c].reply.text)

\* Nor is anything done: the data file stays as it was found, and so does the
\* table of a server that runs.
StubsChangeNothing ==
  [][stubs # {} => file' = file /\ (up /\ up' => table' = table)]_vars

\* Without the code to make a request, or to encrypt it, none is sent.
NothingSent == {"requests", "my_crypto"} \cap stubs # {}

ClientRefused(v) ==
  /\ NothingSent => v.pc # "open" /\ v.sent = 0
  /\ ~IsOK(v.reply.text)

\* The worker has no success in its hands, and does not come to a save.
JobRefuses(v) ==
  /\ "parsing" \in stubs => v.pc \in {"idle", "hangup"}
  /\ v.pc \notin Saving
  /\ v.pc = "reply" => ~IsOK(v.out.text)

StubInv ==
  stubs # {} => JobRefuses(job) /\ \A c \in Clients : ClientRefused(cl[c])

\* Losing an answer, or garbling it, does not make a success of it.
LEMMA UselessIsNotOK == ~IsOK(Nothing) /\ ~IsOK(Garbled) /\ ~IsOK(Silence.text)
BY AnswerAssumption DEF IsOK, Silence, Wired

\* A step of one client keeps StubInv if it leaves the client without a success.
LEMMA RefusedAlone ==
  ASSUME DialogueInv, StubInv, NEW c \in Clients, NEW v, SetClient(c, v),
         UNCHANGED serverVars, stubs # {} => ClientRefused(v)
  PROVE  StubInv'
<1>1. cl'[c] = v /\ \A d \in Clients \ {c} : cl'[d] = cl[d]
  BY DEF SetClient, DialogueInv, ClientsOK
<1>2. stubs' = stubs /\ job' = job
  BY DEF serverVars
<1>. QED
  BY <1>1, <1>2 DEF StubInv, JobRefuses, ClientRefused, NothingSent

\* Neither does a step of the worker that gives it no success, whatever it
\* leaves of the clients.
LEMMA RefusingAlone ==
  ASSUME StubInv, NEW v, SetJob(v), stubs' = stubs, stubs # {} => JobRefuses(v),
         \A c \in Clients : stubs # {} /\ ClientRefused(cl[c]) => ClientRefused(cl'[c])
  PROVE  StubInv'
BY DEF StubInv, SetJob, JobRefuses, ClientRefused, NothingSent

\* A client that is closed on is told nothing.
LEMMA EndedRefused ==
  /\ ClientRefused(Ended(NoContext)) /\ ClientRefused(Opened(Nothing, NoContext, "gone"))
  /\ \A v : ClientRefused(v) => ClientRefused(HungUp(v))
<1>1. /\ ClientRefused(Ended(NoContext)) /\ ClientRefused(Opened(Nothing, NoContext, "gone"))
  BY UselessIsNotOK DEF ClientRefused, Ended, Informed, Opened, Silence, Wired
<1>2. ASSUME NEW v, ClientRefused(v) PROVE ClientRefused(HungUp(v))
  <2>1. CASE v.pc = "gone"
    BY <2>1, UselessIsNotOK DEF HungUp, ClientRefused, Ended, Informed, Silence, Wired
  <2>2. CASE v.pc # "gone"
    BY <1>2, <2>2 DEF HungUp, ClientRefused
  <2>. QED BY <2>1, <2>2
<1>. QED BY <1>1, <1>2

\* A client that is started in a build that cannot send ends at once.
LEMMA StartRefused ==
  ASSUME DialogueInv, StubInv, NEW c \in Clients, StartClient(c)
  PROVE  StubInv'
<1>1. UNCHANGED serverVars
  BY DEF StartClient, serverVars
<1>. DEFINE Starts(v) ==
       \/ v = Opened(Nothing, NoContext, "gone")
       \/ ~NothingSent /\ \E r, ctx : v = Opened(r, ctx, "open")
<1>2. \E v : SetClient(c, v) /\ Starts(v)
  <2>1. PICK r \in Requests[c] : IF Stub("requests") THEN StartStub(c) ELSE StartSolution(c, r)
    BY DEF StartClient
  <2>2. CASE Stub("requests")
    BY <2>1, <2>2 DEF StartStub
  <2>3. CASE ~Stub("requests")
    <3>1. PICK made :
            IF made = NoContext THEN SetClient(c, Opened(Nothing, made, "gone"))
            ELSE \E enc \in aes_crypt_msg(Stub("my_crypto"), made, TRUE, r) :
                   SetClient(c, IF enc.out = Nothing
                                THEN Opened(Nothing, reclaim_aes_context(enc.ctx), "gone")
                                ELSE Opened(r, enc.ctx, "open"))
      BY <2>1, <2>3 DEF StartSolution
    <3>2. CASE made = NoContext
      BY <3>1, <3>2
    <3>3. CASE made # NoContext
      <4>1. PICK enc \in aes_crypt_msg(Stub("my_crypto"), made, TRUE, r) :
              SetClient(c, IF enc.out = Nothing
                           THEN Opened(Nothing, reclaim_aes_context(enc.ctx), "gone")
                           ELSE Opened(r, enc.ctx, "open"))
        BY <3>1, <3>3
      <4>2. CASE enc.out = Nothing
        BY <4>1, <4>2 DEF reclaim_aes_context
      <4>3. CASE enc.out # Nothing
        <5>1. ASSUME Stub("my_crypto") PROVE FALSE
          <6>1. enc = Crypted(Nothing, made)
            BY <4>1, <5>1 DEF aes_crypt_msg, StubCrypt
          <6>. QED BY <4>3, <6>1 DEF Crypted
        <5>2. ~NothingSent
          BY <2>3, <5>1 DEF NothingSent, Stub
        <5>. QED BY <4>1, <4>3, <5>2
      <4>. QED BY <4>2, <4>3
    <3>. QED BY <3>2, <3>3
  <2>. QED BY <2>2, <2>3
<1>3. PICK v : SetClient(c, v) /\ Starts(v)
  BY <1>2
<1>4. ClientRefused(v)
  BY <1>3, EndedRefused, UselessIsNotOK DEF ClientRefused, Opened
<1>. QED BY <1>1, <1>3, <1>4, RefusedAlone

\* A client makes no success of what it was sent, nor of nothing.
LEMMA ClientStepRefused ==
  ASSUME DialogueInv, StubInv, NEW c \in Clients, ClientStep(c) \/ KillClient(c)
  PROVE  StubInv'
<1>1. UNCHANGED serverVars /\ ClientShape(cl[c])
  BY DEF ClientStep, SendBlock, EndClient, KillClient, serverVars, DialogueInv, ClientsOK,
         ClientOK
<1>2. stubs # {} => ~NothingSent /\ ~IsOK(cl[c].reply.text)
  BY DEF ClientStep, SendBlock, EndClient, KillClient, StubInv, ClientRefused
<1>3. CASE SendBlock(c)
  <2>. DEFINE v == [cl[c] EXCEPT !.sent = @ + 1]
  <2>1. v.reply = cl[c].reply
    BY <1>1 DEF ClientShape
  <2>2. SetClient(c, v) /\ (stubs # {} => ClientRefused(v))
    BY <1>2, <1>3, <2>1 DEF SendBlock, ClientRefused
  <2>. HIDE DEF v
  <2>. QED BY <1>1, <2>2, RefusedAlone
<1>4. CASE EndClient(c)
  <2>1. CASE SetClient(c, Ended(reclaim_aes_context(cl[c].ctx)))
    BY <1>1, <2>1, EndedRefused, RefusedAlone DEF reclaim_aes_context
  <2>2. CASE ReadReply(c)
    <3>. PICK ctx \in reset_aes_context(cl[c].ctx, FALSE) :
           \E got \in Received(c, ctx) : Hear(c, got)
      BY <2>2 DEF ReadReply
    <3>1. PICK got \in Received(c, ctx) : Hear(c, got)
      OBVIOUS
    <3>2. got.out \in {Nothing, cl[c].reply.text}
      BY HearsReply
    <3>. DEFINE v == Informed(cl[c].req, got.out, NoContext)
    <3>3. stubs # {} => ClientRefused(v)
      BY <1>2, <3>2, UselessIsNotOK DEF ClientRefused, Informed, Wired
    <3>4. SetClient(c, Ended(NoContext)) \/ SetClient(c, v)
      BY <3>1 DEF Hear, reclaim_aes_context
    <3>. HIDE DEF v
    <3>. QED BY <1>1, <3>3, <3>4, EndedRefused, RefusedAlone
  <2>. QED BY <1>4, <2>1, <2>2 DEF EndClient
<1>5. CASE KillClient(c)
  <2>. DEFINE r == IF cl[c].sent = 2 THEN cl[c].req ELSE Nothing
              w == Opened(r, NoContext, "gone")
              v == [w EXCEPT !.sent = cl[c].sent]
  <2>1. v.reply = Silence
    BY DEF Opened
  <2>2. stubs # {} => ClientRefused(v)
    BY <1>2, <2>1, UselessIsNotOK DEF ClientRefused
  <2>3. SetClient(c, Ended(NoContext)) \/ SetClient(c, v)
    BY <1>5 DEF KillClient
  <2>. HIDE DEF v
  <2>. QED BY <1>1, <2>2, <2>3, EndedRefused, RefusedAlone
<1>. QED BY <1>3, <1>4, <1>5 DEF ClientStep

-----------------------------------------------------------------------------
\* The fields of the jobs that StubInv is about.
LEMMA JobsRefuse ==
  /\ \A c, ctx : JobRefuses(Busy("hangup", c, ctx)) /\ JobRefuses(Busy("idle", c, ctx))
  /\ \A ctx, halt : JobRefuses(Leaving(ctx, halt))
  /\ "parsing" \notin stubs => \A c, ctx :
       /\ JobRefuses(Busy("rblock", c, ctx)) /\ JobRefuses(Busy("ablock", c, ctx))
       /\ \A in : JobRefuses([Busy("handle", c, ctx) EXCEPT !.in = in])
       /\ \A out : ~IsOK(out.text) =>
            JobRefuses([Busy("reply", c, ctx) EXCEPT !.out = out])
BY DEF JobRefuses, Busy, Leaving, Saving

\* Nothing that Storage says in a build where it, or its map, is a stub is a
\* success, and nothing is changed.
LEMMA StubServes ==
  ASSUME NEW r, NEW res \in Serve(r), {"my_storage", "map"} \cap stubs # {}
  PROVE  res.msg # "OK" /\ res.table = table
<1>1. CASE Stub("my_storage")
  BY <1>1 DEF Serve, Unimplemented, Result
<1>2. CASE ~Stub("my_storage")
  <2>1. Stub("map") = TRUE
    BY <1>2 DEF Stub
  <2>2. res \in SolutionServe(r)
    BY <1>2 DEF Serve
  <2>3. \/ res \in {Result("ERR_SERVER", NoData, table), Result("ERR_LOGIN", NoData, table)}
        \/ res = add_user(TRUE, table, r.user, r.pass)
    BY <2>1, <2>2
    DEF SolutionServe, Failure, set_user_data, get_user_data, get_all_users, Authenticate,
        IfAuth, auth, do_with_readonly
  <2>. QED
    BY <2>3 DEF Result, add_user, insert, StubMap, Mapped
<1>. QED BY <1>1, <1>2

\* What the worker handles in a build with a stub, Storage refuses.
LEMMA StubHandles ==
  ASSUME DialogueInv, Linked, StubInv, stubs # {}, job.pc = "handle"
  PROVE  "responses" \in stubs \/ {"my_storage", "map"} \cap stubs # {}
<1>1. job.c \in Clients /\ cl[job.c].sent = 2
  BY JobsClient DEF Linked, JobLinked, Sender
<1>2. "parsing" \notin stubs /\ ~NothingSent
  BY <1>1 DEF StubInv, JobRefuses, ClientRefused
<1>3. stubs \subseteq Modules
  BY DEF DialogueInv, Builds, Modules
<1>. QED BY <1>2, <1>3 DEF NothingSent, Modules

\* The worker reads a request, in a build that can, without deciding it.
LEMMA ReadRefused ==
  ASSUME StubInv,
         (\E c \in Clients : TakeConnection(c)) \/ ReadRBlock \/ ReadShort \/ ReadABlock
  PROVE  StubInv'
<1>1. cl' = cl /\ stubs' = stubs
  BY DEF TakeConnection, ReadRBlock, ReadShort, ReadABlock
<1>2. CASE \E c \in Clients : TakeConnection(c)
  <2>1. PICK c \in Clients : TakeConnection(c)
    BY <1>2
  <2>. DEFINE v == Busy(IF Stub("parsing") THEN "hangup" ELSE "rblock", c, NoContext)
  <2>2. JobRefuses(v)
    BY JobsRefuse DEF Stub
  <2>. HIDE DEF v
  <2>3. SetJob(v)
    BY <2>1 DEF TakeConnection, v
  <2>. QED BY <1>1, <2>2, <2>3, RefusingAlone
<1>3. CASE ReadShort
  BY <1>1, <1>3, JobsRefuse, RefusingAlone DEF ReadShort
<1>4. CASE ReadRBlock \/ ReadABlock
  <2>1. stubs # {} => "parsing" \notin stubs
    BY <1>4 DEF StubInv, JobRefuses, ReadRBlock, ReadABlock
  <2>2. \E v : SetJob(v) /\ (stubs # {} => JobRefuses(v))
    <3>1. CASE ReadRBlock
      <4>. DEFINE bad == [Busy("reply", job.c, NoContext)
                           EXCEPT !.out = Wired(FALSE, Answer("ERR_CRYPTO", NoData))]
      <4>1. \E ctx : SetJob(Busy("ablock", job.c, ctx)) \/ SetJob(bad)
        BY <3>1 DEF ReadRBlock
      <4>2. stubs # {} => JobRefuses(bad) /\ \A ctx : JobRefuses(Busy("ablock", job.c, ctx))
        <5>1. ~IsOK(Wired(FALSE, Answer("ERR_CRYPTO", NoData)).text)
          BY DEF IsOK, Wired, Answer
        <5>. QED BY <2>1, <5>1, JobsRefuse
      <4>. HIDE DEF bad
      <4>. QED BY <4>1, <4>2
    <3>2. CASE ReadABlock
      <4>1. \E ctx, in : SetJob([Busy("handle", job.c, ctx) EXCEPT !.in = in])
        BY <3>2 DEF ReadABlock
      <4>. QED BY <2>1, <4>1, JobsRefuse
    <3>. QED BY <1>4, <3>1, <3>2
  <2>. QED BY <1>1, <2>2, RefusingAlone
<1>. QED BY <1>2, <1>3, <1>4

\* What the worker answers is an error, and it does not come to a save.
LEMMA HandleRefused ==
  ASSUME DialogueInv, Linked, StubInv, Handle \/ HandleMalformed
  PROVE  StubInv' /\ (stubs # {} => table' = table)
<1>1. cl' = cl /\ stubs' = stubs /\ job.pc = "handle" /\ "responses" \notin stubs
  BY DEF Handle, HandleMalformed, Stub
<1>2. CASE stubs = {}
  BY <1>1, <1>2 DEF StubInv
<1>3. CASE stubs # {}
  <2>1. {"my_storage", "map"} \cap stubs # {} /\ "parsing" \notin stubs
    BY <1>1, <1>3, StubHandles DEF StubInv, JobRefuses
  <2>2. \A msg, data : msg # "OK" => JobRefuses(Replying(msg, data))
    <3>1. \A msg, data : msg # "OK" => ~IsOK(Wired(TRUE, Answer(msg, data)).text)
      BY DEF IsOK, Wired, Answer
    <3>. QED BY <2>1, <3>1, JobsRefuse DEF Replying
  <2>3. CASE HandleMalformed
    <3>1. SetJob(Replying("ERR_REQ_FMT", NoData)) /\ table' = table
      BY <2>3 DEF HandleMalformed
    <3>2. JobRefuses(Replying("ERR_REQ_FMT", NoData))
      BY <2>2
    <3>. QED BY <1>1, <3>1, <3>2, RefusingAlone
  <2>4. CASE Handle
    <3>1. PICK res \in Serve(job.in) :
            /\ table' = res.table
            /\ SetJob(IF job.in.cmd = "SAV" /\ Succeeded(res) THEN [job EXCEPT !.pc = "open tmp"]
                      ELSE [Replying(res.msg, res.data) EXCEPT
                              !.halt = job.in.cmd = "BYE" /\ Succeeded(res)])
      BY <2>4 DEF Handle
    <3>2. res.msg # "OK" /\ res.table = table
      BY <2>1, StubServes
    <3>. DEFINE w == Replying(res.msg, res.data)
                h == job.in.cmd = "BYE" /\ Succeeded(res)
                v == [w EXCEPT !.halt = h]
    <3>3. SetJob(v)
      BY <3>1, <3>2 DEF Succeeded
    <3>4. JobRefuses(w)
      BY <2>2, <3>2
    <3>5. v.pc = w.pc /\ v.out = w.out
      BY DEF Replying, Busy
    <3>. HIDE DEF v, w
    <3>6. JobRefuses(v)
      BY <3>4, <3>5 DEF JobRefuses
    <3>. QED BY <1>1, <3>1, <3>2, <3>3, <3>6, RefusingAlone
  <2>. QED BY <2>3, <2>4
<1>. QED BY <1>2, <1>3

\* A worker without a success in its hands sends none.
LEMMA SendReplyRefused ==
  ASSUME DialogueInv, Linked, StubInv, SendReply
  PROVE  StubInv'
<1>1. /\ job.pc = "reply" /\ stubs' = stubs /\ job.c \in Clients /\ Sender = cl[job.c]
      /\ (job.out.sealed => Seals(job.ctx))
  BY JobsClient DEF SendReply, Linked, JobLinked, Sender
<1>2. PICK enc \in IF job.out.sealed
                   THEN aes_crypt_msg(Stub("my_crypto"), job.ctx, TRUE, job.out.text)
                   ELSE {Crypted(job.out.text, job.ctx)} :
        /\ SetJob(Leaving(enc.ctx, job.halt))
        /\ SetClient(job.c, IF enc.out = Nothing \/ Sender.pc = "gone" THEN Sender
                            ELSE [Sender EXCEPT !.reply = Wired(job.out.sealed, enc.out)])
  BY DEF SendReply
<1>3. enc.out \in {Nothing, job.out.text}
  BY <1>1, <1>2, SendsAnswer
<1>. DEFINE wire == Wired(job.out.sealed, enc.out)
            u == cl[job.c]
            v == [u EXCEPT !.reply = wire]
<1>4. stubs # {} => ~IsOK(wire.text)
  BY <1>1, <1>3, UselessIsNotOK DEF Wired, StubInv, JobRefuses
<1>5. ClientShape(u)
  BY <1>1 DEF DialogueInv, ClientsOK, ClientOK
<1>. HIDE DEF wire, u
<1>6. v.reply = wire /\ v.pc = u.pc /\ v.sent = u.sent
  BY <1>5 DEF ClientShape
<1>7. cl'[job.c] \in {u, v} /\ \A d \in Clients \ {job.c} : cl'[d] = cl[d]
  <2>1. SetClient(job.c, u) \/ SetClient(job.c, v)
    BY <1>1, <1>2 DEF wire, u
  <2>. HIDE DEF v
  <2>. QED BY <1>1, <2>1 DEF SetClient, DialogueInv, ClientsOK
<1>. HIDE DEF v
<1>8. \A c \in Clients : stubs # {} /\ ClientRefused(cl[c]) => ClientRefused(cl'[c])
  BY <1>4, <1>6, <1>7 DEF ClientRefused, u
<1>. QED BY <1>1, <1>2, <1>8, JobsRefuse, RefusingAlone

\* The end of a request, or of the server, tells nobody anything.
LEMMA EndRefused ==
  ASSUME DialogueInv, StubInv, HandleStub \/ HangUp \/ GoDown
  PROVE  StubInv'
<1>1. CASE GoDown
  <2>1. \A c \in Clients : ClientRefused(cl[c]) => ClientRefused(cl'[c])
    BY <1>1, EndedRefused DEF GoDown
  <2>. QED BY <1>1, <2>1, JobsRefuse, RefusingAlone DEF GoDown, Free
<1>2. CASE HandleStub /\ ~GoDown
  <2>1. SetJob(Leaving(job.ctx, FALSE)) /\ stubs' = stubs /\ cl' = cl
    BY <1>2 DEF HandleStub
  <2>. QED BY <2>1, JobsRefuse, RefusingAlone
<1>3. CASE HangUp
  <2>1. cl'[job.c] = HungUp(cl[job.c]) /\ \A d \in Clients \ {job.c} : cl'[d] = cl[d]
    BY <1>3, JobsClient DEF HangUp, SetClient, Sender, DialogueInv, ClientsOK
  <2>2. \A c \in Clients : ClientRefused(cl[c]) => ClientRefused(cl'[c])
    BY <2>1, EndedRefused
  <2>. QED BY <1>3, <2>2, JobsRefuse, RefusingAlone DEF HangUp, Free
<1>. QED BY <1>1, <1>2, <1>3

\* Every step of a build with a stub keeps StubInv, and changes nothing.
LEMMA StubStep ==
  ASSUME DialogueInv, Linked, StubInv, DialogueNext
  PROVE  StubInv' /\ (stubs # {} => file' = file /\ (up /\ up' => table' = table))
<1>1. CASE \E c \in Clients : StartClient(c) \/ ClientStep(c) \/ KillClient(c)
  <2>1. StubInv'
    BY <1>1, StartRefused, ClientStepRefused
  <2>. QED
    BY <1>1, <2>1 DEF StartClient, ClientStep, SendBlock, EndClient, KillClient
<1>2. CASE (\E c \in Clients : TakeConnection(c)) \/ ReadRBlock \/ ReadShort \/ ReadABlock
  BY <1>2, ReadRefused DEF TakeConnection, ReadRBlock, ReadShort, ReadABlock
<1>3. CASE Handle \/ HandleMalformed
  BY <1>3, HandleRefused DEF Handle, HandleMalformed
<1>4. CASE HandleStub \/ HangUp \/ Halt \/ KillServer
  <2>1. StubInv'
    BY <1>4, EndRefused DEF Halt, KillServer
  <2>. QED BY <1>4, <2>1 DEF HandleStub, HangUp, Halt, KillServer, GoDown
<1>5. CASE SendReply
  BY <1>5, SendReplyRefused DEF SendReply
<1>6. CASE OpenTmp \/ OpenTmpFails \/ CloseTmp \/ RenameTmp
  <2>1. stubs = {} /\ stubs' = stubs
    BY <1>6 DEF StubInv, JobRefuses, Saving, OpenTmp, OpenTmpFails, CloseTmp, RenameTmp
  <2>. QED BY <2>1 DEF StubInv
<1>7. CASE StartServer
  BY <1>7 DEF StartServer, StubInv, JobRefuses, ClientRefused, NothingSent
<1>. QED
  BY <1>1, <1>2, <1>3, <1>4, <1>5, <1>6, <1>7 DEF DialogueNext, WorkerStep

\* StubInv holds from the start.
LEMMA StubsAlways == DialogueSpec => []StubInv
<1>1. DialogueInit => StubInv
  BY JobsRefuse, EndedRefused DEF DialogueInit, StubInv, Free
<1>2. DialogueInv /\ Linked /\ StubInv /\ UNCHANGED vars => StubInv'
  BY DEF vars, StubInv, JobRefuses, ClientRefused, NothingSent
<1>3. DialogueInv /\ Linked /\ StubInv /\ [DialogueNext]_vars => StubInv'
  BY <1>2, StubStep
<1>. QED
  BY <1>1, <1>3, DialogueInvariant, LinkedAlways, PTL DEF DialogueSpec

\* No user of a build with a stub is ever told that a request was done.
THEOREM StubsAreFound == DialogueSpec => []StubsNeverSucceed
<1>1. StubInv => StubsNeverSucceed
  BY DEF StubInv, ClientRefused, StubsNeverSucceed
<1>. QED BY <1>1, StubsAlways, PTL

\* No build with a stub changes the table it has loaded, or the data file.
THEOREM StubsAreHarmless == DialogueSpec => StubsChangeNothing
<1>1. DialogueInv /\ Linked /\ StubInv /\ [DialogueNext]_vars =>
        [stubs # {} => file' = file /\ (up /\ up' => table' = table)]_vars
  BY StubStep
<1>. QED
  BY <1>1, DialogueInvariant, LinkedAlways, StubsAlways, PTL
  DEF DialogueSpec, StubsChangeNothing

-----------------------------------------------------------------------------
(* A call is never stuck: the part of EveryCallReturns that is not liveness. *)

\* The client has a block to send, or an end of the stream to read.
ClientMayGoOn(c) == cl[c].pc = "open" /\ (cl[c].hung \/ cl[c].sent < 2)

\* The worker has all that it waits for: what it reads is there, or will not come.
WorkerMayGoOn ==
  \/ job.pc \in {"handle", "reply", "hangup"} \cup Saving
  \/ job.pc = "rblock" /\ (Sender.sent > 0 \/ Sender.pc = "gone")
  \/ job.pc = "ablock" /\ (Sender.sent = 2 \/ Sender.pc = "gone")

\* A call that is under way waits for nobody who waits for it: its client can go
\* on, or the worker can, or take its connection, or the client can that the
\* worker waits for.
CallIsNeverStuck ==
  \A c \in Clients : cl[c].pc # "idle" =>
    \/ ClientMayGoOn(c)
    \/ WorkerMayGoOn
    \/ job.pc = "idle" /\ up /\ ~cl[c].hung
    \/ job.pc # "idle" /\ ClientMayGoOn(job.c)

\* A connection that has not been closed has a server at its other end.
HasServer(c) == cl[c].pc # "idle" /\ ~cl[c].hung => up

\* Connections come to be while a server runs, and end with it.
LEMMA NextHasServer ==
  ASSUME DialogueInv, Linked, \A c \in Clients : HasServer(c), [DialogueNext]_vars
  PROVE  \A c \in Clients : HasServer(c)'
<1>1. CASE GoDown
  <2>1. \A c \in Clients : cl'[c] = HungUp(cl[c])
    BY <1>1 DEF GoDown
  <2>. QED BY <2>1, HungUpFields DEF HasServer
<1>2. CASE up'
  BY <1>2 DEF HasServer
<1>3. CASE ~GoDown /\ ~up'
  <2>1. ~up /\ job.pc = "idle"
    <3>1. ~up
      BY <1>3 DEF DialogueNext, StartClient, ClientStep, SendBlock, EndClient, KillClient,
                  TakeConnection, WorkerStep, ReadRBlock, ReadShort, ReadABlock, Handle,
                  HandleMalformed, HandleStub, OpenTmp, OpenTmpFails, CloseTmp, RenameTmp,
                  SendReply, HangUp, Halt, KillServer, StartServer, vars
    <3>. QED BY <3>1 DEF Linked, JobLinked
  <2>2. UNCHANGED cl \/ \E c \in Clients : EndClient(c) \/ KillClient(c)
    <3>1. \A c \in Clients : ~SendBlock(c)
      BY <2>1 DEF SendBlock, HasServer
    <3>. QED
      BY <1>3, <2>1, <3>1
      DEF DialogueNext, StartClient, ClientStep, TakeConnection, WorkerStep, ReadRBlock,
          ReadShort, ReadABlock, Handle, HandleMalformed, HandleStub, OpenTmp, OpenTmpFails,
          CloseTmp, RenameTmp, SendReply, HangUp, Halt, KillServer, StartServer, vars
  <2>3. CASE UNCHANGED cl
    BY <2>1, <2>3, <1>3 DEF HasServer
  <2>4. ASSUME NEW c \in Clients, EndClient(c) \/ KillClient(c)
        PROVE  \A d \in Clients : HasServer(d)'
    <3>1. cl[c].hung
      BY <2>1, <2>4 DEF EndClient, KillClient, HasServer
    <3>2. \E v : SetClient(c, v) /\ v.pc = "idle"
      <4>1. CASE EndClient(c)
        <5>1. CASE SetClient(c, Ended(reclaim_aes_context(cl[c].ctx)))
          BY <5>1 DEF Ended, Informed
        <5>2. CASE ReadReply(c)
          <6>1. PICK ctx, got : Hear(c, got)
            BY <5>2 DEF ReadReply
          <6>. QED BY <6>1 DEF Hear, Ended, Informed
        <5>. QED BY <4>1, <5>1, <5>2 DEF EndClient
      <4>2. CASE KillClient(c)
        BY <3>1, <4>2 DEF KillClient, Ended, Informed
      <4>. QED BY <2>4, <4>1, <4>2
    <3>3. PICK v : SetClient(c, v) /\ v.pc = "idle"
      BY <3>2
    <3>4. cl'[c] = v /\ \A d \in Clients \ {c} : cl'[d] = cl[d]
      BY <3>3 DEF SetClient, DialogueInv, ClientsOK
    <3>. QED BY <2>1, <3>3, <3>4 DEF HasServer
  <2>. QED BY <2>2, <2>3, <2>4
<1>. QED BY <1>1, <1>2, <1>3

\* A worker that cannot go on reads from a client that runs, and has to send yet.
LEMMA SomeoneMayGoOn ==
  ASSUME DialogueInv, Linked, \A c \in Clients : HasServer(c)
  PROVE  CallIsNeverStuck
<1>. SUFFICES ASSUME NEW c \in Clients, cl[c].pc # "idle", ~ClientMayGoOn(c), ~WorkerMayGoOn
              PROVE  \/ job.pc = "idle" /\ up /\ ~cl[c].hung
                     \/ job.pc # "idle" /\ ClientMayGoOn(job.c)
  BY DEF CallIsNeverStuck
<1>1. \A d \in Clients : cl[d].pc \in {"idle", "open", "gone"} /\ cl[d].sent \in 0 .. 2
  BY DEF DialogueInv, ClientsOK, ClientOK
<1>2. ~cl[c].hung
  BY DEF ClientMayGoOn, Linked, ClientLinked
<1>3. CASE job.pc = "idle"
  BY <1>2, <1>3 DEF HasServer
<1>4. CASE job.pc # "idle"
  <2>1. job.c \in Clients /\ Sender = cl[job.c] /\ Sender.pc # "idle"
    BY <1>4, JobsClient DEF Linked, JobLinked, Sender
  <2>2. job.pc \in {"rblock", "ablock"}
    BY <1>4 DEF WorkerMayGoOn, DialogueInv, JobOK, JobTyped, JobPlaces, Saving
  <2>3. Sender.pc = "open" /\ Sender.sent < 2
    BY <1>1, <2>1, <2>2 DEF WorkerMayGoOn
  <2>. QED BY <1>4, <2>1, <2>3 DEF ClientMayGoOn
<1>. QED BY <1>3, <1>4

\* From its start to its end, a call always has somebody who can bring it on.
THEOREM CallsGoOn == DialogueSpec => []CallIsNeverStuck
<1>. DEFINE Served == \A c \in Clients : HasServer(c)
<1>1. DialogueInit => Served
  BY DEF DialogueInit, HasServer, Ended, Informed
<1>2. DialogueInv /\ Linked /\ Served /\ [DialogueNext]_vars => Served'
  BY NextHasServer
<1>3. DialogueInv /\ Linked /\ Served => CallIsNeverStuck
  BY SomeoneMayGoOn
<1>. QED
  BY <1>1, <1>2, <1>3, DialogueInvariant, LinkedAlways, PTL DEF DialogueSpec
=============================================================================

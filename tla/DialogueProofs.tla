---------------------------- MODULE DialogueProofs ----------------------------
(***************************************************************************)
(* Dialogue's invariants, for every number of clients, users and requests, *)
(* in every build.                                                         *)
(***************************************************************************)
EXTENDS DialogueProps, TLAPS

-----------------------------------------------------------------------------
(* The AES contexts and the Storage.                                       *)

\* A call on an AES context leaves a context, and what comes out is nothing, the
\* text that went in, or garbled.
LEMMA Crypts ==
  ASSUME NEW stub, NEW ctx \in Contexts, NEW encrypt \in BOOLEAN, NEW text,
         NEW o \in aes_crypt_msg(stub, ctx, encrypt, text)
  PROVE  o.ctx \in Contexts /\ o.out \in {Nothing, Garbled, text}
<1>. DEFINE spent == [ctx EXCEPT !.life = "spent"]
<1>1. spent \in Contexts
  BY DEF Contexts, Lives
<1>2. CASE stub \/ ctx.life = "cleaned" \/ text = Nothing
  BY <1>2 DEF aes_crypt_msg, StubCrypt, SolutionCrypt, Crypted
<1>3. CASE ~(stub \/ ctx.life = "cleaned" \/ text = Nothing)
  <2>1. \/ o = Crypted(IF ctx = Context("ready", encrypt) THEN text ELSE Garbled, spent)
        \/ o = Crypted(Nothing, spent)
    BY <1>3 DEF aes_crypt_msg, SolutionCrypt, Failure
  <2>. QED BY <1>1, <2>1 DEF Crypted
<1>. QED BY <1>2, <1>3

\* The context of somebody who has none is one.
LEMMA NoContextIs == NoContext \in Contexts
BY DEF NoContext, Context, Contexts, Lives

\* Contexts that are made and reset are contexts.
LEMMA Makes ==
  ASSUME NEW encrypt \in BOOLEAN, NEW ctx
  PROVE  /\ create_aes_context(encrypt) \subseteq Contexts
         /\ reset_aes_context(ctx, encrypt) \subseteq Contexts
<1>1. \A life \in Lives, e \in BOOLEAN : Context(life, e) \in Contexts
  BY DEF Contexts, Context
<1>2. {"none", "ready", "cleaned"} \subseteq Lives
  BY DEF Lives
<1>. QED
  BY <1>1, <1>2 DEF NoContext, create_aes_context, reset_aes_context, Failure

\* A request as a user may have typed it.
Legal(r) ==
  /\ r \in RequestRecords
  /\ r.cmd = "SET" => r.arg \in Profiles \cup {Oversize}

\* Whatever modules are stubs, a request leaves a table.
LEMMA ServesTables ==
  ASSUME table \in Tables, NEW r, Legal(r), r.arg # Oversize, NEW res \in Serve(r)
  PROVE  res.table \in Tables
<1>. DEFINE map == Stub("map")
<1>1. r.user \in Users /\ r.pass \in Passwords
  BY DEF Legal, RequestRecords
<1>2. CASE res.table = table
  BY <1>2
<1>3. CASE res = add_user(map, table, r.user, r.pass)
  <2>1. [pass |-> r.pass, content |-> NoData] \in Entries
    BY <1>1 DEF Entries
  <2>2. insert(map, table, r.user, [pass |-> r.pass, content |-> NoData]).table \in Tables
    BY <1>1, <2>1 DEF insert, StubMap, Mapped, Tables
  <2>. QED BY <1>3, <2>2 DEF add_user, Result
<1>4. CASE r.cmd = "SET" /\ res = set_user_data(map, table, r.user, r.pass, r.arg)
  <2>1. r.arg \in Profiles
    BY <1>4 DEF Legal
  <2>2. do_with(map, table, r.user, r.arg).table \in Tables
    <3>1. CASE map \/ table[r.user] = Absent
      BY <3>1 DEF do_with, StubMap, Mapped
    <3>2. CASE ~map /\ table[r.user] # Absent
      <4>1. table[r.user] \in Entries
        BY <1>1, <3>2 DEF Tables
      <4>2. [table[r.user] EXCEPT !.content = r.arg] \in Entries
        BY <2>1, <4>1 DEF Entries
      <4>. QED BY <1>1, <3>2, <4>2 DEF do_with, Mapped, Tables
    <3>. QED BY <3>1, <3>2
  <2>. QED BY <1>4, <2>2 DEF set_user_data, IfAuth, Result
<1>. QED
  BY <1>2, <1>3, <1>4
  DEF Serve, SolutionServe, Unimplemented, Failure, get_user_data, get_all_users,
      Authenticate, IfAuth, Result

-----------------------------------------------------------------------------
(* The inductive invariant.                                                *)

\* What is decrypted is a request, or useless.
Decrypted(text) == text \in {Nothing, Garbled} \/ Legal(text)

JobShape(v) ==
  v = [pc |-> v.pc, c |-> v.c, ctx |-> v.ctx, in |-> v.in, out |-> v.out, halt |-> v.halt]

\* What is handled came out of a client's request.
JobTyped(v) ==
  /\ JobShape(v)
  /\ v.pc \in JobPlaces /\ v.ctx \in Contexts
  /\ IF v.pc = "idle" THEN v.c = Nobody ELSE v.c \in Clients
  /\ v.pc = "idle" => v.ctx = NoContext
  /\ v.pc = "handle" => Decrypted(v.in)

\* The worker's file is written in full when it comes to be renamed.
JobOK == JobTyped(job) /\ (job.pc = "rename" => tmp \in Tables)

ClientShape(v) ==
  v = [pc |-> v.pc, req |-> v.req, ctx |-> v.ctx, sent |-> v.sent, reply |-> v.reply,
       hung |-> v.hung]

ClientOK(v) ==
  /\ ClientShape(v)
  /\ v.pc \in {"idle", "open", "gone"} /\ v.ctx \in Contexts
  /\ v.req = Nothing \/ Legal(v.req)
  /\ v.sent \in 0 .. 2
  /\ v.pc # "open" => v.ctx = NoContext

ClientsOK == cl = [c \in Clients |-> cl[c]] /\ \A c \in Clients : ClientOK(cl[c])

DialogueInv ==
  /\ stubs \in Builds
  /\ up \in BOOLEAN
  /\ table \in Tables
  /\ file \in Tables \cup {NoFile}
  /\ tmp \in Tables \cup {NoFile, Torn}
  /\ JobOK
  /\ ClientsOK

\* An empty table is a table.
LEMMA EmptyIsTable == EmptyTable \in Tables
BY DEF EmptyTable, Tables

\* The fields of a job.
LEMMA BusyIs ==
  ASSUME NEW pc \in JobPlaces \ {"idle", "handle"}, NEW c \in Clients, NEW ctx \in Contexts
  PROVE  JobTyped(Busy(pc, c, ctx)) /\ Busy(pc, c, ctx).pc = pc
BY DEF Busy, JobTyped, JobShape

\* A client that has closed, or has ended, keeps no context.
LEMMA EndedOK == ClientOK(Ended(NoContext))
BY NoContextIs DEF ClientOK, ClientShape, Ended, Informed

\* Setting one client to a state that is right keeps all of them right.
LEMMA SetClientOK ==
  ASSUME ClientsOK, NEW c \in Clients, NEW v, ClientOK(v), SetClient(c, v)
  PROVE  ClientsOK'
BY DEF ClientsOK, SetClient, ClientOK, ClientShape, Legal, RequestRecords

\* A client whose connection the server closes is still one.
LEMMA HungUpOK == ASSUME NEW v, ClientOK(v) PROVE ClientOK(HungUp(v))
<1>1. CASE v.pc = "gone"
  BY <1>1, EndedOK DEF HungUp, ClientOK
<1>2. CASE v.pc = "open"
  BY <1>2 DEF HungUp, ClientOK, ClientShape
<1>3. CASE v.pc = "idle"
  BY <1>3 DEF HungUp
<1>. QED BY <1>1, <1>2, <1>3 DEF ClientOK

\* The invariant holds before the first server is started.
LEMMA DialogueInvInit == DialogueInit => DialogueInv
<1>. SUFFICES ASSUME DialogueInit PROVE DialogueInv
  OBVIOUS
<1>1. JobOK
  BY NoContextIs DEF DialogueInit, JobOK, JobTyped, JobShape, JobPlaces, Free, Busy
<1>2. ClientsOK
  BY EndedOK DEF DialogueInit, ClientsOK
<1>. QED
  BY <1>1, <1>2, EmptyIsTable, DialogueAssumption DEF DialogueInit, DialogueInv

\* The variables that only the server changes.
serverVars == <<stubs, up, table, file, tmp, job>>

\* A step of a client alone keeps the invariant if it keeps the client right.
LEMMA ClientAlone ==
  ASSUME DialogueInv, NEW c \in Clients, NEW v, ClientOK(v), SetClient(c, v),
         UNCHANGED serverVars
  PROVE  DialogueInv'
<1>1. ClientsOK'
  BY SetClientOK DEF DialogueInv
<1>2. JobOK'
  BY DEF DialogueInv, JobOK, serverVars
<1>. QED BY <1>1, <1>2 DEF DialogueInv, serverVars

\* What a client starts as, after each of the failures that may come before its
\* first block.
LEMMA OpenedOK ==
  ASSUME NEW r, r = Nothing \/ Legal(r), NEW ctx \in Contexts,
         NEW pc \in {"open", "gone"}, pc = "gone" => ctx = NoContext
  PROVE  ClientOK(Opened(r, ctx, pc))
BY DEF Opened, ClientOK, ClientShape

\* Starting a client keeps the invariant.
LEMMA StartClientKeeps ==
  ASSUME DialogueInv, NEW c \in Clients, StartClient(c)
  PROVE  DialogueInv'
<1>1. PICK r \in Requests[c] : IF Stub("requests") THEN StartStub(c) ELSE StartSolution(c, r)
  BY DEF StartClient
<1>2. Legal(r)
  BY DialogueAssumption DEF Legal
<1>3. UNCHANGED serverVars
  BY DEF StartClient, serverVars
<1>4. ClientOK(Opened(Nothing, NoContext, "gone"))
  BY OpenedOK, NoContextIs
<1>5. CASE Stub("requests")
  BY <1>1, <1>3, <1>4, <1>5, ClientAlone DEF StartStub
<1>6. CASE ~Stub("requests")
  <2>1. PICK key \in create_aes_key :
          \E made \in IF key THEN create_aes_context(TRUE) ELSE {NoContext} :
            IF made = NoContext THEN SetClient(c, Opened(Nothing, made, "gone"))
            ELSE \E enc \in aes_crypt_msg(Stub("my_crypto"), made, TRUE, r) :
                   SetClient(c, IF enc.out = Nothing
                                THEN Opened(Nothing, reclaim_aes_context(enc.ctx), "gone")
                                ELSE Opened(r, enc.ctx, "open"))
    BY <1>1, <1>6 DEF StartSolution
  <2>2. PICK made \in IF key THEN create_aes_context(TRUE) ELSE {NoContext} :
            IF made = NoContext THEN SetClient(c, Opened(Nothing, made, "gone"))
            ELSE \E enc \in aes_crypt_msg(Stub("my_crypto"), made, TRUE, r) :
                   SetClient(c, IF enc.out = Nothing
                                THEN Opened(Nothing, reclaim_aes_context(enc.ctx), "gone")
                                ELSE Opened(r, enc.ctx, "open"))
    BY <2>1
  <2>3. made \in Contexts
    BY Makes, NoContextIs
  <2>4. CASE made = NoContext
    BY <1>3, <1>4, <2>2, <2>4, ClientAlone
  <2>5. CASE made # NoContext
    <3>1. PICK enc \in aes_crypt_msg(Stub("my_crypto"), made, TRUE, r) :
            SetClient(c, IF enc.out = Nothing
                         THEN Opened(Nothing, reclaim_aes_context(enc.ctx), "gone")
                         ELSE Opened(r, enc.ctx, "open"))
      BY <2>2, <2>5
    <3>2. ClientOK(Opened(r, enc.ctx, "open"))
      BY <1>2, <2>3, Crypts, OpenedOK
    <3>. QED BY <1>3, <1>4, <3>1, <3>2, ClientAlone DEF reclaim_aes_context
  <2>. QED BY <2>4, <2>5
<1>. QED BY <1>5, <1>6

\* What a client hears leaves it ended, without a context.
LEMMA HearOK ==
  ASSUME NEW c \in Clients, ClientOK(cl[c]), NEW text
  PROVE  ClientOK(Informed(cl[c].req, text, NoContext))
BY NoContextIs DEF Informed, ClientOK, ClientShape

\* So do the other steps of a client, and its death.
LEMMA ClientStepKeeps ==
  ASSUME DialogueInv, NEW c \in Clients, ClientStep(c) \/ KillClient(c)
  PROVE  DialogueInv'
<1>1. ClientOK(cl[c])
  BY DEF DialogueInv, ClientsOK
<1>2. CASE SendBlock(c)
  <2>1. ClientOK([cl[c] EXCEPT !.sent = @ + 1])
    BY <1>1, <1>2 DEF SendBlock, ClientOK, ClientShape
  <2>. QED BY <1>2, <2>1, ClientAlone DEF SendBlock, serverVars
<1>3. CASE EndClient(c)
  <2>1. CASE SetClient(c, Ended(reclaim_aes_context(cl[c].ctx)))
    BY <1>3, <2>1, EndedOK, ClientAlone DEF EndClient, serverVars, reclaim_aes_context
  <2>2. CASE ReadReply(c)
    <3>1. PICK ctx, got : Hear(c, got)
      BY <2>2 DEF ReadReply
    <3>. QED
      BY <1>1, <1>3, <3>1, EndedOK, HearOK, ClientAlone
      DEF Hear, EndClient, serverVars, reclaim_aes_context
  <2>. QED BY <1>3, <2>1, <2>2 DEF EndClient
<1>4. CASE KillClient(c)
  <2>. DEFINE r == IF cl[c].sent = 2 THEN cl[c].req ELSE Nothing
              n == cl[c].sent
  <2>1. (r = Nothing \/ Legal(r)) /\ n \in 0 .. 2
    BY <1>1 DEF ClientOK
  <2>. DEFINE v == Opened(r, NoContext, "gone")
  <2>2. ClientOK([v EXCEPT !.sent = n])
    <3>1. ClientOK(v)
      BY <2>1, NoContextIs, OpenedOK
    <3>. HIDE DEF v, r, n
    <3>. QED BY <2>1, <3>1 DEF ClientOK, ClientShape
  <2>. QED BY <1>4, <2>2, EndedOK, ClientAlone DEF KillClient, serverVars
<1>. QED BY <1>2, <1>3, <1>4 DEF ClientStep

-----------------------------------------------------------------------------
(* The worker.                                                             *)

\* A step of the worker alone keeps the invariant if it keeps the job right and
\* does not come to rename anything.
LEMMA JobAlone ==
  ASSUME DialogueInv, NEW v, JobTyped(v), v.pc # "rename", SetJob(v),
         UNCHANGED <<stubs, up, table, file, tmp, cl>>
  PROVE  DialogueInv'
<1>1. JobOK'
  BY DEF JobOK, SetJob, JobTyped, JobShape, Decrypted, Legal, RequestRecords
<1>2. ClientsOK'
  BY DEF DialogueInv, ClientsOK, ClientOK, ClientShape, Legal, RequestRecords
<1>. QED BY <1>1, <1>2 DEF DialogueInv

\* A worker that leaves, or has an answer, has a job that is right.
LEMMA LeavingOK ==
  ASSUME JobTyped(job), job.pc # "idle", NEW ctx \in Contexts, NEW halt
  PROVE  JobTyped(Leaving(ctx, halt)) /\ Leaving(ctx, halt).pc = "hangup"
<1>. DEFINE v == Busy("hangup", job.c, ctx)
<1>1. JobTyped(v) /\ v.pc = "hangup"
  <2>1. job.c \in Clients
    BY DEF JobTyped
  <2>2. "hangup" \in JobPlaces \ {"idle", "handle"}
    BY DEF JobPlaces
  <2>. QED BY <2>1, <2>2, BusyIs
<1>2. Leaving(ctx, halt) = [v EXCEPT !.halt = halt]
  BY DEF Leaving
<1>. HIDE DEF v
<1>. QED BY <1>1, <1>2 DEF JobTyped, JobShape

\* A worker with an answer in its hands.
LEMMA AnsweringOK ==
  ASSUME JobTyped(job), job.pc # "idle", NEW ctx \in Contexts, NEW out
  PROVE  LET v == [Busy("reply", job.c, ctx) EXCEPT !.out = out]
         IN  JobTyped(v) /\ v.pc = "reply"
<1>. DEFINE b == Busy("reply", job.c, ctx)
            v == [b EXCEPT !.out = out]
<1>1. JobTyped(b) /\ b.pc = "reply"
  <2>1. job.c \in Clients
    BY DEF JobTyped
  <2>2. "reply" \in JobPlaces \ {"idle", "handle"}
    BY DEF JobPlaces
  <2>. QED BY <2>1, <2>2, BusyIs
<1>2. JobTyped(v) /\ v.pc = "reply"
  <2>. HIDE DEF b
  <2>. QED BY <1>1 DEF JobTyped, JobShape
<1>. QED BY <1>2

\* A worker with an answer made of a message and its data.
LEMMA ReplyingOK ==
  ASSUME JobTyped(job), job.pc # "idle", NEW msg, NEW data
  PROVE  JobTyped(Replying(msg, data)) /\ Replying(msg, data).pc = "reply"
<1>1. job.ctx \in Contexts
  BY DEF JobTyped
<1>. QED BY <1>1, AnsweringOK DEF Replying

\* A job that only changes its place, and a job that is in the middle of a request.
LEMMA MovedOK ==
  ASSUME JobTyped(job), job.pc # "idle", NEW pc \in JobPlaces \ {"idle", "handle"}
  PROVE  JobTyped([job EXCEPT !.pc = pc]) /\ [job EXCEPT !.pc = pc].pc = pc
BY DEF JobTyped, JobShape

\* Reading a request keeps the invariant: a connection is taken, the blocks are
\* read, or the stream ends early.
LEMMA ReadKeeps ==
  ASSUME DialogueInv,
         (\E c \in Clients : TakeConnection(c)) \/ ReadRBlock \/ ReadShort \/ ReadABlock
  PROVE  DialogueInv'
<1>1. JobTyped(job)
  BY DEF DialogueInv, JobOK
<1>2. CASE \E c \in Clients : TakeConnection(c)
  <2>1. PICK c \in Clients : TakeConnection(c)
    BY <1>2
  <2>2. (IF Stub("parsing") THEN "hangup" ELSE "rblock") \in JobPlaces \ {"idle", "handle", "rename"}
    BY DEF JobPlaces
  <2>. QED BY <2>1, <2>2, BusyIs, NoContextIs, JobAlone DEF TakeConnection
<1>3. CASE ReadRBlock
  <2>1. PICK opens \in {TRUE} \cup Failure(FALSE), ctx \in create_aes_context(FALSE) :
          SetJob(IF opens /\ ctx # NoContext THEN Busy("ablock", job.c, ctx)
                 ELSE [Busy("reply", job.c, NoContext)
                         EXCEPT !.out = Wired(FALSE, Answer("ERR_CRYPTO", NoData))])
    BY <1>3 DEF ReadRBlock
  <2>2. ctx \in Contexts
    BY Makes
  <2>3. job.c \in Clients /\ job.pc # "idle"
    BY <1>1, <1>3 DEF ReadRBlock, JobTyped
  <2>4. CASE opens /\ ctx # NoContext
    <3>1. "ablock" \in JobPlaces \ {"idle", "handle"}
      BY DEF JobPlaces
    <3>. QED BY <1>3, <2>1, <2>2, <2>3, <2>4, <3>1, BusyIs, JobAlone DEF ReadRBlock
  <2>5. CASE ~(opens /\ ctx # NoContext)
    BY <1>1, <1>3, <2>1, <2>3, <2>5, AnsweringOK, NoContextIs, JobAlone DEF ReadRBlock
  <2>. QED BY <2>4, <2>5
<1>4. CASE ReadShort
  BY <1>1, <1>4, LeavingOK, JobAlone DEF ReadShort, JobTyped
<1>5. CASE ReadABlock
  <2>1. PICK dec \in aes_crypt_msg(Stub("my_crypto"), job.ctx, FALSE, Sender.req) :
          \E ctx \in reset_aes_context(dec.ctx, TRUE) :
          SetJob([Busy("handle", job.c, ctx) EXCEPT !.in = dec.out])
    BY <1>5 DEF ReadABlock
  <2>0. PICK ctx \in reset_aes_context(dec.ctx, TRUE) :
          SetJob([Busy("handle", job.c, ctx) EXCEPT !.in = dec.out])
    BY <2>1
  <2>2. ctx \in Contexts
    BY Makes
  <2>3. job.c \in Clients /\ job.ctx \in Contexts
    BY <1>1, <1>5 DEF ReadABlock, JobTyped
  <2>4. dec.out \in {Nothing, Garbled, Sender.req}
    BY <2>3, Crypts
  <2>5. Decrypted(dec.out)
    BY <2>3, <2>4 DEF DialogueInv, ClientsOK, ClientOK, Decrypted, Sender
  <2>. DEFINE b == Busy("handle", job.c, ctx)
  <2>6. JobShape(b) /\ b.pc = "handle" /\ b.c = job.c /\ b.ctx = ctx
    BY DEF Busy, JobShape
  <2>7. JobTyped([b EXCEPT !.in = dec.out]) /\ [b EXCEPT !.in = dec.out].pc = "handle"
    <3>. HIDE DEF b
    <3>1. "handle" \in JobPlaces
      BY DEF JobPlaces
    <3>2. b.pc \in JobPlaces /\ b.ctx \in Contexts /\ b.c \in Clients /\ b.pc # "idle"
      BY <2>2, <2>3, <2>6, <3>1
    <3>3. PICK out : out = dec.out
      OBVIOUS
    <3>4. JobTyped([b EXCEPT !.in = out])
      BY <2>5, <2>6, <3>2, <3>3 DEF JobTyped, JobShape
    <3>5. [b EXCEPT !.in = out].pc = "handle"
      BY <2>6 DEF JobShape
    <3>. QED BY <3>3, <3>4, <3>5
  <2>. QED BY <1>5, <2>0, <2>7, JobAlone DEF ReadABlock
<1>. QED BY <1>2, <1>3, <1>4, <1>5

\* The end of a server, by a halt or a kill, keeps the invariant.
LEMMA GoDownKeeps == ASSUME DialogueInv, GoDown PROVE DialogueInv'
<1>1. \A c \in Clients : ClientOK(HungUp(cl[c]))
  BY HungUpOK DEF DialogueInv, ClientsOK
<1>2. ClientsOK'
  <2>. DEFINE w == [c \in Clients |-> HungUp(cl[c])]
  <2>1. w = [c \in Clients |-> w[c]] /\ \A c \in Clients : ClientOK(w[c])
    BY <1>1
  <2>2. cl' = w
    BY DEF GoDown
  <2>. HIDE DEF w
  <2>. QED BY <2>1, <2>2 DEF ClientsOK, ClientOK, ClientShape, Legal, RequestRecords
<1>3. JobOK'
  BY NoContextIs DEF GoDown, SetJob, JobOK, JobTyped, JobShape, JobPlaces, Free, Busy
<1>. QED BY <1>2, <1>3, EmptyIsTable DEF DialogueInv, GoDown

\* Handling a request keeps the invariant, with any modules as stubs.
LEMMA HandleKeeps ==
  ASSUME DialogueInv, Handle \/ HandleMalformed \/ HandleStub
  PROVE  DialogueInv'
<1>1. JobTyped(job) /\ job.pc = "handle"
  BY DEF DialogueInv, JobOK, Handle, HandleMalformed, HandleStub
<1>2. CASE Handle
  <2>1. PICK res \in Serve(job.in) :
          /\ table' = res.table
          /\ SetJob(IF job.in.cmd = "SAV" /\ Succeeded(res) THEN [job EXCEPT !.pc = "open tmp"]
                    ELSE [Replying(res.msg, res.data) EXCEPT
                            !.halt = job.in.cmd = "BYE" /\ Succeeded(res)])
    BY <1>2 DEF Handle
  <2>2. Legal(job.in) /\ job.in.arg # Oversize
    BY <1>1, <1>2 DEF JobTyped, Decrypted, Handle, WellFormed
  <2>3. res.table \in Tables
    BY <2>2, ServesTables DEF DialogueInv
  <2>4. PICK v : JobTyped(v) /\ v.pc # "rename" /\ SetJob(v)
    <3>1. CASE job.in.cmd = "SAV" /\ Succeeded(res)
      <4>1. "open tmp" \in JobPlaces \ {"idle", "handle"}
        BY DEF JobPlaces
      <4>2. JobTyped([job EXCEPT !.pc = "open tmp"])
            /\ [job EXCEPT !.pc = "open tmp"].pc = "open tmp"
        BY <1>1, <4>1, MovedOK
      <4>. QED BY <2>1, <3>1, <4>2
    <3>2. CASE ~(job.in.cmd = "SAV" /\ Succeeded(res))
      <4>. DEFINE halt == job.in.cmd = "BYE" /\ Succeeded(res)
                  r == Replying(res.msg, res.data)
                  v == [r EXCEPT !.halt = halt]
      <4>1. JobTyped(v) /\ v.pc = "reply"
        <5>1. JobTyped(r) /\ r.pc = "reply"
          BY <1>1, ReplyingOK
        <5>. HIDE DEF halt, r
        <5>. QED BY <5>1 DEF JobTyped, JobShape
      <4>2. SetJob(v)
        BY <2>1, <3>2
      <4>. HIDE DEF v
      <4>. QED BY <4>1, <4>2
    <3>. QED BY <3>1, <3>2
  <2>5. JobOK'
    BY <2>4 DEF JobOK, SetJob, JobTyped, JobShape, Decrypted, Legal, RequestRecords
  <2>6. ClientsOK'
    BY <1>2 DEF Handle, DialogueInv, ClientsOK, ClientOK, ClientShape, Legal, RequestRecords
  <2>. QED BY <1>2, <2>1, <2>3, <2>5, <2>6 DEF DialogueInv, Handle
<1>3. CASE HandleMalformed
  BY <1>1, <1>3, ReplyingOK, JobAlone DEF HandleMalformed
<1>4. CASE HandleStub
  <2>1. CASE job.in = Nothing
    BY <1>4, <2>1, GoDownKeeps DEF HandleStub
  <2>2. CASE job.in # Nothing
    <3>1. job.ctx \in Contexts
      BY <1>1 DEF JobTyped
    <3>. QED BY <1>1, <1>4, <2>2, <3>1, LeavingOK, JobAlone DEF HandleStub
  <2>. QED BY <2>1, <2>2
<1>. QED BY <1>2, <1>3, <1>4

\* Saving keeps the invariant: a file that is renamed has its content.
LEMMA SaveKeeps ==
  ASSUME DialogueInv, OpenTmp \/ OpenTmpFails \/ CloseTmp \/ RenameTmp
  PROVE  DialogueInv'
<1>1. JobTyped(job) /\ job.pc # "idle"
  BY DEF DialogueInv, JobOK, OpenTmp, OpenTmpFails, CloseTmp, RenameTmp
<1>2. ASSUME UNCHANGED cl PROVE ClientsOK'
  BY <1>2 DEF DialogueInv, ClientsOK, ClientOK, ClientShape, Legal, RequestRecords
<1>3. ASSUME NEW v, JobTyped(v), SetJob(v), v.pc = "rename" => tmp' \in Tables PROVE JobOK'
  BY <1>3 DEF JobOK, SetJob, JobTyped, JobShape, Decrypted, Legal, RequestRecords
<1>4. {"close tmp", "rename"} \subseteq JobPlaces \ {"idle", "handle"}
  BY DEF JobPlaces
<1>5. CASE OpenTmp
  <2>1. JobOK'
    BY <1>1, <1>3, <1>4, <1>5, MovedOK DEF OpenTmp
  <2>. QED BY <1>2, <1>5, <2>1 DEF OpenTmp, DialogueInv
<1>6. CASE OpenTmpFails
  BY <1>1, <1>6, ReplyingOK, JobAlone DEF OpenTmpFails
<1>7. CASE CloseTmp
  <2>1. tmp' \in Tables
    BY <1>7 DEF CloseTmp, DialogueInv
  <2>2. JobOK'
    BY <1>1, <1>3, <1>4, <1>7, <2>1, MovedOK DEF CloseTmp
  <2>. QED BY <1>2, <1>7, <2>1, <2>2 DEF CloseTmp, DialogueInv
<1>8. CASE RenameTmp
  <2>1. file' \in Tables
    BY <1>8 DEF RenameTmp, DialogueInv, JobOK
  <2>2. JobOK'
    BY <1>1, <1>3, <1>8, ReplyingOK DEF RenameTmp
  <2>. QED BY <1>2, <1>8, <2>1, <2>2 DEF RenameTmp, DialogueInv
<1>. QED BY <1>5, <1>6, <1>7, <1>8

\* The end of a request keeps the invariant.
LEMMA EndKeeps ==
  ASSUME DialogueInv, SendReply \/ HangUp
  PROVE  DialogueInv'
<1>1. JobTyped(job) /\ job.pc # "idle"
  BY DEF DialogueInv, JobOK, SendReply, HangUp
<1>2. job.c \in Clients /\ job.ctx \in Contexts /\ ClientOK(Sender)
  BY <1>1 DEF JobTyped, DialogueInv, ClientsOK, Sender
<1>3. ASSUME NEW v, JobTyped(v), SetJob(v), v.pc # "rename" PROVE JobOK'
  BY <1>3 DEF JobOK, SetJob, JobTyped, JobShape, Decrypted, Legal, RequestRecords
<1>4. CASE SendReply
  <2>1. PICK enc \in IF job.out.sealed
                     THEN aes_crypt_msg(Stub("my_crypto"), job.ctx, TRUE, job.out.text)
                     ELSE {Crypted(job.out.text, job.ctx)} :
          /\ SetJob(Leaving(enc.ctx, job.halt))
          /\ SetClient(job.c, IF enc.out = Nothing \/ Sender.pc = "gone" THEN Sender
                              ELSE [Sender EXCEPT !.reply = Wired(job.out.sealed, enc.out)])
    BY <1>4 DEF SendReply
  <2>2. enc.ctx \in Contexts
    <3>1. CASE job.out.sealed
      BY <1>2, <2>1, <3>1, Crypts
    <3>2. CASE ~job.out.sealed
      BY <1>2, <2>1, <3>2 DEF Crypted
    <3>. QED BY <3>1, <3>2
  <2>3. JobOK'
    BY <1>1, <1>3, <2>1, <2>2, LeavingOK
  <2>4. ClientOK([Sender EXCEPT !.reply = Wired(job.out.sealed, enc.out)])
    BY <1>2 DEF ClientOK, ClientShape
  <2>5. ClientsOK'
    BY <1>2, <2>1, <2>4, SetClientOK DEF DialogueInv
  <2>. QED BY <1>4, <2>3, <2>5 DEF SendReply, DialogueInv
<1>5. CASE HangUp
  <2>1. JobOK'
    BY <1>5, NoContextIs
    DEF HangUp, SetJob, JobOK, JobTyped, JobShape, JobPlaces, Free, Busy, reclaim_aes_context
  <2>2. ClientsOK'
    BY <1>2, <1>5, HungUpOK, SetClientOK DEF HangUp, DialogueInv
  <2>. QED BY <1>5, <2>1, <2>2 DEF HangUp, DialogueInv
<1>. QED BY <1>4, <1>5

\* Starting a server, which loads the data file, keeps the invariant.
LEMMA StartServerKeeps == ASSUME DialogueInv, StartServer PROVE DialogueInv'
<1>1. table' \in Tables
  BY EmptyIsTable DEF StartServer
<1>2. JobOK'
  BY DEF StartServer, DialogueInv, JobOK
<1>3. ClientsOK'
  BY DEF StartServer, DialogueInv, ClientsOK
<1>. QED BY <1>1, <1>2, <1>3 DEF StartServer, DialogueInv

-----------------------------------------------------------------------------
(* The theorems.                                                           *)

\* DialogueInv holds in every state: what is handled is a request as a client was
\* given it, and what is renamed over the data file has been written in full.
THEOREM DialogueInvariant == DialogueSpec => []DialogueInv
<1>1. ASSUME DialogueInv, [DialogueNext]_vars PROVE DialogueInv'
  <2>1. CASE \E c \in Clients :
               StartClient(c) \/ ClientStep(c) \/ KillClient(c) \/ TakeConnection(c)
    BY <1>1, <2>1, StartClientKeeps, ClientStepKeeps, ReadKeeps
  <2>2. CASE WorkerStep
    <3>1. CASE Halt
      BY <1>1, <3>1, GoDownKeeps DEF Halt
    <3>. QED BY <1>1, <2>2, <3>1, ReadKeeps, HandleKeeps, SaveKeeps, EndKeeps DEF WorkerStep
  <2>3. CASE KillServer \/ StartServer
    BY <1>1, <2>3, GoDownKeeps, StartServerKeeps DEF KillServer
  <2>4. CASE UNCHANGED vars
    BY <1>1, <2>4 DEF vars, DialogueInv, JobOK, ClientsOK
  <2>. QED BY <1>1, <2>1, <2>2, <2>3, <2>4 DEF DialogueNext
<1>. QED BY DialogueInvInit, <1>1, PTL DEF DialogueSpec

\* The states of a dialogue, and with them that a server which is killed while
\* it saves leaves the old data file or the new one, never a torn one.
THEOREM DialogueTypeCorrect == DialogueSpec => []DialogueTypeOK
<1>1. DialogueInv => DialogueTypeOK
  BY DEF DialogueInv, DialogueTypeOK, JobOK, JobTyped, ClientsOK, ClientOK
<1>. QED BY DialogueInvariant, <1>1, PTL

\* No AES context outlives its connection, however OpenSSL fails, whoever dies.
THEOREM NoContextLeaks == DialogueSpec => []ContextsReclaimed
<1>1. DialogueInv => ContextsReclaimed
  BY DEF DialogueInv, ContextsReclaimed, JobOK, JobTyped, ClientsOK, ClientOK
<1>. QED BY DialogueInvariant, <1>1, PTL
=============================================================================

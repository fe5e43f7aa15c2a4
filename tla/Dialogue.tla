------------------------------- MODULE Dialogue -------------------------------
(***************************************************************************)
(* One request and its answer, from end to end: the clients, the server's  *)
(* worker, its Storage and the data file, in every build of the makefiles. *)
(* Each build links some modules from their stubs in the repository and    *)
(* the others from solutions/.  The server has one thread, its default.    *)
(* Clients and server die at any point; the connection is NetIO's, the     *)
(* queue in front of the worker AcceptLoop's, the server's key Client's.   *)
(***************************************************************************)
EXTENDS AesContext, Storage

CONSTANTS
  Clients,     \* client processes, each with one connection at a time
  Nobody,
  Requests,    \* the records [cmd, user, pass, arg] each client may be typed with
  Oversize,    \* a profile that is longer than LEN_PROFILE_FILE
  OldFiles,    \* what an earlier server may have left in the data file
  NoFile, Torn \* no file; a file that does not have its content yet

Cmds == {"REG", "BYE", "SAV", "SET", "GET", "ALL"}

RequestRecords ==
  [cmd : Cmds, user : Users, pass : Passwords, arg : Users \cup Profiles \cup {Oversize, NoData}]

ASSUME DialogueAssumption ==
  /\ Requests \in [Clients -> SUBSET RequestRecords]
  /\ \A c \in Clients : \A r \in Requests[c] :
       /\ r.cmd = "SET" => r.arg \in Profiles \cup {Oversize}
       /\ r.cmd = "GET" => r.arg \in Users
  /\ Nobody \notin Clients
  /\ Nothing \notin RequestRecords
  /\ OldFiles \subseteq Tables
  /\ NoFile \notin Tables /\ Torn \notin Tables /\ NoFile # Torn

VARIABLES
  stubs,   \* which modules of this build are stubs
  up,      \* whether the server runs
  table,   \* its authentication table
  file,    \* the data file
  tmp,     \* the file that is to replace it, while a save writes it
  job,     \* the worker: its place, its connection, the AES context, the text
           \* it decrypted, its answer, and whether it then halts the pool
  cl       \* each client: its place, request, AES context, how many of its two
           \* blocks are sent, what came back, and whether the server hung up

vars == <<stubs, up, table, file, tmp, job, cl>>

\* The builds: Makefile, p1.aes.mk, p1.file.mk, p1.nocrypt.mk, p1.rsa.mk, the
\* six just_my_*.mk, and the executables that are provided.
Modules == {"requests", "responses", "parsing", "my_storage", "map", "my_crypto"}
Builds ==
  {{}, Modules, {"my_storage", "map"}, {"responses", "my_storage", "map"},
   {"requests", "parsing"}} \cup {{m} : m \in Modules}

Stub(m) == m \in stubs

\* What the server sends: an answer, under the request's AES key or plain.
Answer(msg, data) == [msg |-> msg, data |-> data]
Wired(sealed, text) == [sealed |-> sealed, text |-> text]
Silence == Wired(FALSE, Nothing)

\* The results of protocol.h with what they carry; losing or garbling an answer is
\* something else than any of them.
Messages == {"OK", "ERR_CRYPTO", "ERR_REQ_FMT", "ERR_SERVER", "ERR_LOGIN", "ERR_USER_EXISTS",
             "ERR_NO_USER", "ERR_NO_DATA", "ERR_UNIMPLEMENTED"}
Answers == [msg : Messages, data : Profiles \cup {NoData} \cup SUBSET Users]
ASSUME AnswerAssumption == Nothing \notin Answers /\ Garbled \notin Answers

\* A worker with a connection, and without one.
Busy(pc, c, ctx) == [pc |-> pc, c |-> c, ctx |-> ctx, in |-> Nothing,
                     out |-> Silence, halt |-> FALSE]
Free(ctx) == Busy("idle", Nobody, ctx)

\* A client that is not running, with what the last one heard on its request.
Informed(r, text, ctx) == [pc |-> "idle", req |-> r, ctx |-> ctx, sent |-> 0,
                           reply |-> Wired(FALSE, text), hung |-> FALSE]
Ended(ctx) == Informed(Nothing, Nothing, ctx)

DialogueInit ==
  /\ stubs \in Builds
  /\ up = FALSE
  /\ table = EmptyTable
  /\ file \in {NoFile} \cup OldFiles
  /\ tmp = NoFile
  /\ job = Free(NoContext)
  /\ cl = [c \in Clients |-> Ended(NoContext)]

-----------------------------------------------------------------------------
(* The client: send_cmd, which every req_ function ends in.                *)

SetClient(c, v) == cl' = [cl EXCEPT ![c] = v]

\* "open": it waits for the rest; "gone": it has closed its end early, and the
\* server has not noticed yet.
Opened(r, ctx, pc) == [pc |-> pc, req |-> r, ctx |-> ctx, sent |-> 0,
                       reply |-> Silence, hung |-> FALSE]

\* The stubs of requests.cc send nothing.
StartStub(c) == SetClient(c, Opened(Nothing, NoContext, "gone"))

\* Key, context and encryption come before the first byte is sent.
StartSolution(c, r) ==
  \E key \in create_aes_key : \E made \in IF key THEN create_aes_context(TRUE) ELSE {NoContext} :
    IF made = NoContext THEN SetClient(c, Opened(Nothing, made, "gone"))
    ELSE \E enc \in aes_crypt_msg(Stub("my_crypto"), made, TRUE, r) :
           SetClient(c, IF enc.out = Nothing
                        THEN Opened(Nothing, reclaim_aes_context(enc.ctx), "gone")
                        ELSE Opened(r, enc.ctx, "open"))

StartClient(c) ==
  /\ up /\ cl[c].pc = "idle"
  /\ \E r \in Requests[c] : IF Stub("requests") THEN StartStub(c) ELSE StartSolution(c, r)
  /\ UNCHANGED <<stubs, up, table, file, tmp, job>>

\* The RSA block, then the AES block.
SendBlock(c) ==
  /\ cl[c].pc = "open" /\ ~cl[c].hung /\ cl[c].sent < 2
  /\ SetClient(c, [cl[c] EXCEPT !.sent = @ + 1])
  /\ UNCHANGED <<stubs, up, table, file, tmp, job>>

\* What a client makes of the bytes that came before the end of the stream.
Received(c, ctx) ==
  IF ctx.life = "cleaned" THEN {Crypted(Nothing, ctx)}
  ELSE IF ~cl[c].reply.sealed THEN {Crypted(cl[c].reply.text, ctx)}
  ELSE aes_crypt_msg(Stub("my_crypto"), ctx, FALSE, cl[c].reply.text)

Hear(c, got) ==
  SetClient(c, IF got.out = Nothing THEN Ended(reclaim_aes_context(got.ctx))
               ELSE Informed(cl[c].req, got.out, reclaim_aes_context(got.ctx)))

ReadReply(c) ==
  \E ctx \in reset_aes_context(cl[c].ctx, FALSE) : \E got \in Received(c, ctx) :
    Hear(c, got)

EndClient(c) ==
  /\ cl[c].pc = "open" /\ cl[c].hung
  /\ IF cl[c].reply = Silence
       THEN SetClient(c, Ended(reclaim_aes_context(cl[c].ctx)))
       ELSE ReadReply(c)
  /\ UNCHANGED <<stubs, up, table, file, tmp, job>>

\* What it has sent in full the server can still read.
KillClient(c) ==
  /\ cl[c].pc = "open"
  /\ SetClient(c, IF cl[c].hung THEN Ended(NoContext)
                  ELSE [Opened(IF cl[c].sent = 2 THEN cl[c].req ELSE Nothing, NoContext, "gone")
                          EXCEPT !.sent = cl[c].sent])
  /\ UNCHANGED <<stubs, up, table, file, tmp, job>>

\* The server closes the connection of a client.
HungUp(v) == IF v.pc = "gone" THEN Ended(v.ctx)
             ELSE IF v.pc = "open" THEN [v EXCEPT !.hung = TRUE] ELSE v

-----------------------------------------------------------------------------
(* The worker: parse_request.                                              *)

SetJob(v) == job' = v

\* The stub of parsing.cc looks at nothing and returns false.
TakeConnection(c) ==
  /\ up /\ job.pc = "idle"
  /\ cl[c].pc # "idle" /\ ~cl[c].hung
  /\ SetJob(Busy(IF Stub("parsing") THEN "hangup" ELSE "rblock", c, NoContext))
  /\ UNCHANGED <<stubs, up, table, file, tmp, cl>>

Sender == cl[job.c]

\* The worker is done with the request, whose answer has been sent if there is one.
Leaving(ctx, halt) == [Busy("hangup", job.c, ctx) EXCEPT !.halt = halt]

\* RSA_private_decrypt fails, or there is no context: the one answer that is
\* not encrypted.
ReadRBlock ==
  /\ job.pc = "rblock" /\ Sender.sent > 0
  /\ \E opens \in {TRUE} \cup Failure(FALSE), ctx \in create_aes_context(FALSE) :
       SetJob(IF opens /\ ctx # NoContext THEN Busy("ablock", job.c, ctx)
              ELSE [Busy("reply", job.c, NoContext)
                      EXCEPT !.out = Wired(FALSE, Answer("ERR_CRYPTO", NoData))])
  /\ UNCHANGED <<stubs, up, table, file, tmp, cl>>

\* Fault: a stream that ends before the AES block does is read again.
ReadAgain ==
  /\ job.pc = "rblock" /\ Sender.sent = 0 /\ Sender.pc = "gone"
  /\ SetJob(Leaving(job.ctx, FALSE))
  /\ UNCHANGED <<stubs, up, table, file, tmp, cl>>

\* The stream ends before the block does.
ReadShort ==
  /\ \/ job.pc = "rblock" /\ Sender.sent = 0
     \/ job.pc = "ablock" /\ Sender.sent < 2
  /\ Sender.pc = "gone"
  /\ SetJob(Leaving(job.ctx, FALSE))
  /\ UNCHANGED <<stubs, up, table, file, tmp, cl>>

\* Neither what aes_crypt_msg nor what reset_aes_context returns is looked at.
ReadABlock ==
  /\ job.pc = "ablock" /\ Sender.sent = 2
  /\ \E dec \in aes_crypt_msg(Stub("my_crypto"), job.ctx, FALSE, Sender.req) :
     \E ctx \in reset_aes_context(dec.ctx, TRUE) :
       SetJob([Busy("handle", job.c, ctx) EXCEPT !.in = dec.out])
  /\ UNCHANGED <<stubs, up, table, file, tmp, cl>>

-----------------------------------------------------------------------------
(* The handlers of responses.cc.                                           *)

Replying(msg, data) ==
  [Busy("reply", job.c, job.ctx) EXCEPT !.out = Wired(TRUE, Answer(msg, data))]

\* What Storage says to a request.
SolutionServe(r) ==
  LET map == Stub("map") IN
  IF r.cmd = "REG" THEN {add_user(map, table, r.user, r.pass)}
                          \cup Failure(Result("ERR_SERVER", NoData, table))
  ELSE IF r.cmd = "SET" THEN {set_user_data(map, table, r.user, r.pass, r.arg)}
  ELSE IF r.cmd = "GET" THEN {get_user_data(map, table, r.user, r.pass, r.arg)}
  ELSE IF r.cmd = "ALL" THEN {get_all_users(map, table, r.user, r.pass)}
  ELSE {Authenticate(map, table, r.user, r.pass)}

Serve(r) == IF Stub("my_storage") THEN {Unimplemented(table)} ELSE SolutionServe(r)

WellFormed(text) == text \notin {Nothing, Garbled} /\ text.arg # Oversize

\* handle_sav saves once the user is known; handle_bye returns what the
\* authentication said.
Handle ==
  /\ job.pc = "handle" /\ ~Stub("responses") /\ WellFormed(job.in)
  /\ \E res \in Serve(job.in) :
       /\ table' = res.table
       /\ SetJob(IF job.in.cmd = "SAV" /\ Succeeded(res) THEN [job EXCEPT !.pc = "open tmp"]
                 ELSE [Replying(res.msg, res.data) EXCEPT
                         !.halt = job.in.cmd = "BYE" /\ Succeeded(res)])
  /\ UNCHANGED <<stubs, up, file, tmp, cl>>

HandleMalformed ==
  /\ job.pc = "handle" /\ ~Stub("responses") /\ ~WellFormed(job.in)
  /\ SetJob(Replying("ERR_REQ_FMT", NoData))
  /\ UNCHANGED <<stubs, up, table, file, tmp, cl>>

-----------------------------------------------------------------------------
(* save_file.                                                              *)

OpenTmp ==
  /\ job.pc = "open tmp"
  /\ tmp' = Torn
  /\ SetJob([job EXCEPT !.pc = "close tmp"])
  /\ UNCHANGED <<stubs, up, table, file, cl>>

OpenTmpFails ==
  /\ job.pc = "open tmp"
  /\ SetJob(Replying("ERR_SERVER", NoData))
  /\ UNCHANGED <<stubs, up, table, file, tmp, cl>>

\* Fault: the file is renamed before it is closed, that is, written.
RenameEarly ==
  /\ job.pc = "close tmp"
  /\ file' = tmp /\ tmp' = table
  /\ SetJob([job EXCEPT !.pc = "rename"])
  /\ UNCHANGED <<stubs, up, table, cl>>

CloseTmp ==
  /\ job.pc = "close tmp"
  /\ tmp' = table
  /\ SetJob([job EXCEPT !.pc = "rename"])
  /\ UNCHANGED <<stubs, up, table, file, cl>>

RenameTmp ==
  /\ job.pc = "rename"
  /\ file' = tmp /\ tmp' = NoFile
  /\ SetJob(Replying("OK", NoData))
  /\ UNCHANGED <<stubs, up, table, cl>>

-----------------------------------------------------------------------------
(* The end of a request, and of the server.                                *)

SendReply ==
  /\ job.pc = "reply"
  /\ \E enc \in IF job.out.sealed
                THEN aes_crypt_msg(Stub("my_crypto"), job.ctx, TRUE, job.out.text)
                ELSE {Crypted(job.out.text, job.ctx)} :
       /\ SetJob(Leaving(enc.ctx, job.halt))
       /\ SetClient(job.c, IF enc.out = Nothing \/ Sender.pc = "gone" THEN Sender
                           ELSE [Sender EXCEPT !.reply = Wired(job.out.sealed, enc.out)])
  /\ UNCHANGED <<stubs, up, table, file, tmp>>

\* The process ends, and with it its table, its contexts and its connections.
\* What it leaves of tmp nobody reads, and the next save starts it anew.
GoDown ==
  /\ up' = FALSE
  /\ table' = EmptyTable
  /\ SetJob(Free(NoContext))
  /\ cl' = [c \in Clients |-> HungUp(cl[c])]
  /\ tmp' = NoFile
  /\ UNCHANGED <<stubs, file>>

\* The stubs of responses.cc send nothing.  They assert that there is a
\* request, which there is not if it could not be decrypted.
HandleStub ==
  /\ job.pc = "handle" /\ Stub("responses")
  /\ IF job.in = Nothing THEN GoDown
     ELSE /\ SetJob(Leaving(job.ctx, FALSE))
          /\ UNCHANGED <<stubs, up, table, file, tmp, cl>>

\* Fault: the context is not reclaimed.
HangUpOnly ==
  /\ job.pc = "hangup" /\ ~job.halt
  /\ SetJob(Free(job.ctx))
  /\ SetClient(job.c, HungUp(Sender))
  /\ UNCHANGED <<stubs, up, table, file, tmp>>

HangUp ==
  /\ job.pc = "hangup" /\ ~job.halt
  /\ SetJob(Free(reclaim_aes_context(job.ctx)))
  /\ SetClient(job.c, HungUp(Sender))
  /\ UNCHANGED <<stubs, up, table, file, tmp>>

Halt == job.pc = "hangup" /\ job.halt /\ GoDown

KillServer == up /\ GoDown

\* load_file: no file is an empty table.  The stub cannot load a file, and no
\* file can be loaded into a stub of the map: then main returns at once.
StartServer ==
  /\ ~up
  /\ file \in {NoFile} \cup Tables
  /\ file = NoFile \/ {"my_storage", "map"} \cap stubs = {}
  /\ up' = TRUE
  /\ table' = IF file = NoFile THEN EmptyTable ELSE file
  /\ UNCHANGED <<stubs, file, tmp, job, cl>>

ClientStep(c) == SendBlock(c) \/ EndClient(c)

WorkerStep ==
  \/ ReadRBlock \/ ReadShort \/ ReadABlock
  \/ Handle \/ HandleMalformed \/ HandleStub
  \/ OpenTmp \/ OpenTmpFails \/ CloseTmp \/ RenameTmp
  \/ SendReply \/ HangUp \/ Halt

DialogueNext ==
  \/ \E c \in Clients : StartClient(c) \/ ClientStep(c) \/ KillClient(c) \/ TakeConnection(c)
  \/ WorkerStep
  \/ KillServer
  \/ StartServer

DialogueSpec == DialogueInit /\ [][DialogueNext]_vars

\* Processes that can go on do; the pool's queue is first in, first out, so
\* that no connection is passed over for ever.
FairDialogue ==
  /\ DialogueSpec
  /\ WF_vars(WorkerStep)
  /\ \A c \in Clients : WF_vars(ClientStep(c)) /\ SF_vars(TakeConnection(c))
=============================================================================

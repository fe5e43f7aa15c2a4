------------------------------ MODULE Directory ------------------------------
(***************************************************************************)
(* What the company user directory promises its clients, whatever keys,    *)
(* buffers and files it uses (common/protocol.h, server/storage.h): a call *)
(* takes effect at one moment, or is refused and has no effect; a client   *)
(* hears what was decided on its own call, or nothing; and a stop takes    *)
(* the directory back to exactly what was last persisted.                  *)
(***************************************************************************)
CONSTANTS
  Clients, Requests, Users, Profiles,
  Absent, NoData,
  Oversize    \* a profile that is longer than LEN_PROFILE_FILE

VARIABLES
  intact, \* whether no part of the program is a stub
  dir,    \* the directory
  disk,   \* what was last persisted
  call    \* the last call of each client

directoryVars == <<intact, dir, disk, call>>

NoCall == [state |-> "none"]
Asked(r) == [state |-> "asked", req |-> r]
Answered(state, r, msg, data) ==
  [state |-> state, req |-> r, msg |-> msg, data |-> data]

Member(r) == dir[r.user] # Absent /\ dir[r.user].pass = r.pass

-----------------------------------------------------------------------------
(* What may come of a request: an answer, and what it does to the directory *)
(* and to what is persisted.                                                *)

Outcome(msg, data, d, k) == [msg |-> msg, data |-> data, dir |-> d, disk |-> k]
Unchanged(msg, data) == Outcome(msg, data, dir, disk)
Error(msg) == Unchanged(msg, NoData)

Register(r) ==
  IF dir[r.user] # Absent THEN Error("ERR_USER_EXISTS")
  ELSE Outcome("OK", NoData, [dir EXCEPT ![r.user] = [pass |-> r.pass, content |-> NoData]], disk)

Set(r) == Outcome("OK", NoData, [dir EXCEPT ![r.user].content = r.arg], disk)

Get(r) ==
  IF dir[r.arg] = Absent THEN Error("ERR_NO_USER")
  ELSE IF dir[r.arg].content = NoData THEN Error("ERR_NO_DATA")
  ELSE Unchanged("OK", dir[r.arg].content)

Verdict(r) ==
  IF r.cmd = "REG" THEN Register(r)
  ELSE IF ~Member(r) THEN Error("ERR_LOGIN")
  ELSE IF r.cmd = "SET" THEN Set(r)
  ELSE IF r.cmd = "GET" THEN Get(r)
  ELSE IF r.cmd = "ALL" THEN Unchanged("OK", {u \in Users : dir[u] # Absent})
  ELSE IF r.cmd = "SAV" THEN Outcome("OK", NoData, dir, dir)
  ELSE Unchanged("OK", NoData)

\* The cipher or the request is at fault, or the server's disk or its source of
\* random bits; what a stub says may be anything but a success.
Refusals(r) ==
  {"ERR_CRYPTO", "ERR_REQ_FMT"}
    \cup (IF r.cmd \in {"REG", "SAV"} THEN {"ERR_SERVER"} ELSE {})
    \cup (IF intact THEN {} ELSE {"ERR_UNIMPLEMENTED", "ERR_USER_EXISTS", "ERR_LOGIN"})

Outcomes(r) ==
  {Error(msg) : msg \in Refusals(r)} \cup IF r.arg = Oversize THEN {} ELSE {Verdict(r)}

-----------------------------------------------------------------------------
DirectoryInit ==
  /\ intact \in BOOLEAN
  /\ dir = disk
  /\ call = [c \in Clients |-> NoCall]

Ask(c) ==
  /\ call[c].state \in {"none", "heard"}
  /\ UNCHANGED <<dir, disk>>
  /\ \E r \in Requests[c] : call' = [call EXCEPT ![c] = Asked(r)]

Decide(c) ==
  /\ call[c].state = "asked"
  /\ \E o \in Outcomes(call[c].req) :
       /\ dir' = o.dir
       /\ disk' = o.disk
       /\ call' = [call EXCEPT ![c] = Answered("decided", call[c].req, o.msg, o.data)]

Hear(c) ==
  /\ call[c].state = "decided"
  /\ call' = [call EXCEPT ![c].state = "heard"]
  /\ UNCHANGED <<dir, disk>>

\* Calls are lost with the client, the connection, or the server; and when the
\* server stops, so is what was not persisted.
Lose ==
  /\ \A c \in Clients : call'[c] \in {call[c], NoCall}
  /\ dir' \in {dir, disk}
  /\ UNCHANGED disk

DirectoryNext ==
  /\ UNCHANGED intact
  /\ \/ Lose
     \/ \E c \in Clients : Ask(c) \/ Decide(c) \/ Hear(c)

DirectorySpec == DirectoryInit /\ [][DirectoryNext]_directoryVars
=============================================================================

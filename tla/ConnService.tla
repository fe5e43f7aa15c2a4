----------------------------- MODULE ConnService -----------------------------
(***************************************************************************)
(* What the server promises a connection, whatever threads, queues and     *)
(* locks it uses: a connection is served at most once, a connection that   *)
(* is being served is never dropped, and connections that wait are dropped *)
(* only after the server has finished a request that tells it to stop.     *)
(* Once the server is down nothing is served and nothing is left waiting.  *)
(***************************************************************************)
CONSTANTS Conns, ByeConns

VARIABLES
  status,  \* the fate of each connection
  up       \* whether the server process is running

serviceVars == <<status, up>>

StatusTypeOK ==
  /\ status \in [Conns -> {"new", "waiting", "serving", "served", "lost"}]
  /\ up \in BOOLEAN

ServiceInit ==
  /\ status = [c \in Conns |-> "new"]
  /\ up = TRUE

StopRequested == \E c \in ByeConns : status[c] = "served"

Arrive(c) ==
  /\ up
  /\ status[c] = "new"
  /\ status' = [status EXCEPT ![c] = "waiting"]
  /\ UNCHANGED up

Begin(c) ==
  /\ up
  /\ status[c] = "waiting"
  /\ status' = [status EXCEPT ![c] = "serving"]
  /\ UNCHANGED up

Finish(c) ==
  /\ up
  /\ status[c] = "serving"
  /\ status' = [status EXCEPT ![c] = "served"]
  /\ UNCHANGED up

DropWaiting(S) ==
  status' = [c \in Conns |-> IF c \in S THEN "lost" ELSE status[c]]

\* The stop has been requested; some of those that wait are turned away.
TurnAway(S) ==
  /\ up
  /\ StopRequested
  /\ S \subseteq {c \in Conns : status[c] = "waiting"}
  /\ DropWaiting(S)
  /\ UNCHANGED up

\* The process ends when nobody is being served.
Stop ==
  /\ up
  /\ StopRequested
  /\ \A c \in Conns : status[c] # "serving"
  /\ DropWaiting({c \in Conns : status[c] = "waiting"})
  /\ up' = FALSE

ServiceNext ==
  \/ \E c \in Conns : Arrive(c) \/ Begin(c) \/ Finish(c)
  \/ \E S \in SUBSET Conns : TurnAway(S)
  \/ Stop

ServiceSpec == ServiceInit /\ [][ServiceNext]_serviceVars
=============================================================================

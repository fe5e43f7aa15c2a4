------------------------------ MODULE ClientMain ------------------------------
(***************************************************************************)
(* The command line of the client: arg_t, usage() and main() of            *)
(* client/client.cc, connect_to_server() of common/net.cc, and the request *)
(* functions of client/requests.cc as far as they look at their arguments. *)
(* The client has the server's key (Client models how it gets one).        *)
(***************************************************************************)
EXTENDS Integers

CONSTANTS
  PortTexts,   \* what the user may type after -p
  PortAtoi     \* what atoi() makes of each text

ASSUME ClientAssumption == PortAtoi \in [PortTexts -> Int]

VARIABLES
  cplace,    \* where the client is, or how it ended
  cport,     \* arg_t's port
  command,   \* arg_t's command
  given,     \* which of -u, -w, -1 and -2 have a text that is not empty
  ran        \* the entries of main's list of functions that were called

clientVars == <<cplace, cport, command, given, ran>>

\* The table of commands that usage() prints, in the order of client.cc:20.
commands == <<"BYE", "SAV", "REG", "SET", "GET", "ALL">>

Commands == {commands[i] : i \in DOMAIN commands}
NoCommand == "something else"

ClientPlaces == {"options", "usage", "connect", "run",
                 "done", "refused", "aborted", "overrun"}

ClientTypeOK ==
  /\ cplace \in ClientPlaces
  /\ cport \in Int
  /\ command \in Commands \cup {NoCommand}
  /\ given \subseteq {"u", "w", "1", "2"}
  /\ ran \subseteq 1 .. 6

ClientInit ==
  /\ cplace = "options"
  /\ cport = 0
  /\ command = NoCommand
  /\ given = {}
  /\ ran = {}

ClientGoto(l) == cplace' = l

-----------------------------------------------------------------------------
(* arg_t.                                                                  *)

args0 == {"BYE", "SAV", "REG"}
args1 == {"SET", "GET", "ALL"}

\* Fault: GET is listed with the commands that take no argument.
AcceptsShifted(com, opts) ==
  \/ com \in args0 \cup {"GET"} /\ {"1", "2"} \cap opts = {}
  \/ com \in args1 \ {"GET"} /\ {"1", "2"} \cap opts = {"1"}

\* args2 is empty: no command takes two arguments.
Accepts(com, opts) ==
  \/ com \in args0 /\ {"1", "2"} \cap opts = {}
  \/ com \in args1 /\ {"1", "2"} \cap opts = {"1"}

\* The options come in any order, each as often as it was typed, and the last
\* one wins; then the command and its arguments are looked at.
ParseClientOptions ==
  /\ cplace = "options"
  /\ cport' \in {cport} \cup {PortAtoi[t] : t \in PortTexts}
  /\ command' \in Commands
  /\ given' \in SUBSET {"u", "w", "1", "2"}
  /\ Accepts(command', given')
  /\ ClientGoto("connect")
  /\ UNCHANGED ran

\* -h, an option getopt() does not know, a command that is none, too many
\* arguments or too few: the constructor throws.
RefuseClientOptions ==
  /\ cplace = "options"
  /\ ClientGoto("usage")
  /\ UNCHANGED <<cport, command, given, ran>>

-----------------------------------------------------------------------------
(* usage() prints the entries 0 to 13 of the table.                        *)

UsagePrints == 1 .. 14

\* To read past the end of a vector is undefined: junk is printed, or the
\* process ends.
ClientUsage ==
  /\ cplace = "usage"
  /\ \/ ClientGoto("refused")
     \/ ~(UsagePrints \subseteq DOMAIN commands) /\ ClientGoto("overrun")
  /\ UNCHANGED <<cport, command, given, ran>>

-----------------------------------------------------------------------------
(* The command.  Nothing looks at what connect_to_server returned.         *)

ClientConnect ==
  /\ cplace = "connect"
  /\ ClientGoto("run")
  /\ UNCHANGED <<cport, command, given, ran>>

\* The two lists of main: func[i] is called for each cmd[i] that was typed.
cmd == <<"REG", "BYE", "SET", "GET", "ALL", "SAV">>

func == <<"REG", "BYE", "SET", "GET", "ALL", "SAV">>

\* What the request function f asserts of its arguments.
AssertsHold(f) ==
  /\ {"u", "w"} \subseteq given
  /\ f \in {"SET", "GET", "ALL"} => "1" \in given

Hits == {i \in DOMAIN cmd : cmd[i] = command}

RunFunctions ==
  /\ cplace = "run"
  /\ ran' = Hits
  /\ ClientGoto(IF \A i \in Hits : AssertsHold(func[i]) THEN "done" ELSE "aborted")
  /\ UNCHANGED <<cport, command, given>>

ClientStep ==
  \/ ParseClientOptions \/ RefuseClientOptions \/ ClientUsage
  \/ ClientConnect \/ RunFunctions
=============================================================================

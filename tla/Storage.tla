------------------------------- MODULE Storage -------------------------------
(***************************************************************************)
(* The server's Storage (server/storage.h) over its authentication table   *)
(* (server/map.h), as functions from a table to a result and a table: the  *)
(* stubs of server/my_storage.cc and server/sequentialmap.h, and what      *)
(* solutions/my_storage.o does over a map that works.                      *)
(***************************************************************************)
CONSTANTS
  Users, Passwords, Profiles,
  Absent,    \* no entry in the table
  NoData     \* an entry's zero-byte content; a result without data

ASSUME StorageAssumption == NoData \notin Profiles

\* A salted hash is as good as the password.
Entries == [pass : Passwords, content : Profiles \cup {NoData}]
ASSUME AbsentAssumption == Absent \notin Entries

Tables == [Users -> Entries \cup {Absent}]

\* What storage_factory and authtable_factory start with.
EmptyTable == [u \in Users |-> Absent]

UsersOf(t) == {u \in Users : t[u] # Absent}

\* result_t of storage.h, without succeeded, which is msg = "OK", and with the
\* table after the call.
Result(msg, data, t) == [msg |-> msg, data |-> data, table |-> t]

Succeeded(res) == res.msg = "OK"

-----------------------------------------------------------------------------
(* The map.                                                                *)

Mapped(done, t) == [done |-> done, table |-> t]

\* Every method of the stub: false, and no code that was passed in is run.
StubMap(t) == Mapped(FALSE, t)

\* Fault: the entry that is there is replaced.
Overwrite(stub, t, k, e) ==
  IF stub THEN StubMap(t) ELSE Mapped(TRUE, [t EXCEPT ![k] = e])

insert(stub, t, k, e) ==
  IF stub THEN StubMap(t)
  ELSE IF t[k] # Absent THEN Mapped(FALSE, t)
  ELSE Mapped(TRUE, [t EXCEPT ![k] = e])

\* do_with with a function that sets the entry's content.
do_with(stub, t, k, content) ==
  IF stub THEN StubMap(t)
  ELSE IF t[k] = Absent THEN Mapped(FALSE, t)
  ELSE Mapped(TRUE, [t EXCEPT ![k].content = content])

do_with_readonly(stub, t, k) == ~stub /\ t[k] # Absent

\* The keys do_all_readonly visits.
do_all_readonly(stub, t) == IF stub THEN {} ELSE UsersOf(t)

-----------------------------------------------------------------------------
(* The Storage.                                                            *)

\* Every request to the stub.
Unimplemented(t) == Result("ERR_UNIMPLEMENTED", NoData, t)

auth(map, t, user, pass) == do_with_readonly(map, t, user) /\ t[user].pass = pass

\* Run the request if the password fits.
IfAuth(map, t, user, pass, res) ==
  IF auth(map, t, user, pass) THEN res ELSE Result("ERR_LOGIN", NoData, t)

add_user(map, t, user, pass) ==
  LET ins == insert(map, t, user, [pass |-> pass, content |-> NoData])
  IN  Result(IF ins.done THEN "OK" ELSE "ERR_USER_EXISTS", NoData, ins.table)

set_user_data(map, t, user, pass, content) ==
  LET upd == do_with(map, t, user, content)
  IN  IfAuth(map, t, user, pass, Result("OK", NoData, upd.table))

get_user_data(map, t, user, pass, who) ==
  IfAuth(map, t, user, pass,
    IF ~do_with_readonly(map, t, who) THEN Result("ERR_NO_USER", NoData, t)
    ELSE IF t[who].content = NoData THEN Result("ERR_NO_DATA", NoData, t)
    ELSE Result("OK", t[who].content, t))

get_all_users(map, t, user, pass) ==
  IfAuth(map, t, user, pass, Result("OK", do_all_readonly(map, t), t))

\* What the handlers of BYE and SAV ask before anything else.
Authenticate(map, t, user, pass) == IfAuth(map, t, user, pass, Result("OK", NoData, t))
=============================================================================

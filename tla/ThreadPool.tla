----------------------------- MODULE ThreadPool -----------------------------
(***************************************************************************)
(* The thread pool behind common/pool.h.  The repository holds only its    *)
(* interface; the implementation that every build links is the object file *)
(* solutions/my_pool.o, and this module models what that object does: a    *)
(* FIFO of socket descriptors guarded by one mutex, worker threads that    *)
(* wait on a condition variable, and an atomic "halted" flag that a worker *)
(* sets when the handler it ran returns TRUE.                              *)
(*                                                                         *)
(* The module has the pool's state and one action per step of a worker     *)
(* between two points at which another thread can observe it.  It has no   *)
(* specification of its own: AcceptLoop composes it with the thread that   *)
(* feeds it, and says what the handler and the shutdown handler do to the  *)
(* sockets.                                                                *)
(***************************************************************************)
EXTENDS Sequences

CONSTANTS
  Workers,    \* the threads created by pool_factory(size, handler)
  Conns,      \* the connections clients open
  ByeConns,   \* the connections whose request makes the handler return TRUE
  InvalidSd,  \* the descriptor -1
  NoOne       \* the owner of an unlocked mutex

ASSUME PoolAssumption ==
  /\ ByeConns \subseteq Conns
  /\ InvalidSd \notin Conns
  /\ NoOne \notin Workers

VARIABLES
  halted,  \* set once, by the first worker whose handler returned TRUE
  lock,    \* the owner of the pool's mutex, or NoOne
  queue,   \* the descriptors that wait for a worker
  worker,  \* where each worker is in its loop
  held     \* the descriptor each worker took in this turn of its loop

poolVars == <<halted, lock, queue, worker, held>>

Descriptors == Conns \cup {InvalidSd}

WorkerPCs == {"top", "lock", "locked", "tosleep", "asleep", "wakeup",
              "handle", "halt", "notify", "announce", "shutdown", "done"}

PoolTypeOK ==
  /\ halted \in BOOLEAN
  /\ lock \in Workers \cup {NoOne}
  /\ queue \in Seq(Descriptors)
  /\ worker \in [Workers -> WorkerPCs]
  /\ held \in [Workers -> Descriptors]

PoolInit ==
  /\ halted = FALSE
  /\ lock = NoOne
  /\ queue = <<>>
  /\ worker = [w \in Workers |-> "top"]
  /\ held = [w \in Workers |-> InvalidSd]

-----------------------------------------------------------------------------
(* What the thread that owns the pool calls.                               *)

check_active == ~halted

Asleep == {w \in Workers : worker[w] = "asleep"}

\* The workers that notify_one wakes: any one sleeper, none if nobody sleeps.
NotifyOne ==
  \/ Asleep = {} /\ UNCHANGED worker
  \/ \E w \in Asleep : worker' = [worker EXCEPT ![w] = "wakeup"]

\* Fault: notify only when the queue was empty.
NotifyIfEmpty(sd) ==
  /\ lock = NoOne
  /\ queue' = Append(queue, sd)
  /\ IF queue = <<>> THEN NotifyOne ELSE UNCHANGED worker
  /\ UNCHANGED <<halted, lock, held>>

\* Fault: no notification at all.
NeverNotify(sd) ==
  /\ lock = NoOne
  /\ queue' = Append(queue, sd)
  /\ UNCHANGED <<halted, lock, held, worker>>

\* Neither the halted flag nor the descriptor is looked at.
service_connection(sd) ==
  /\ lock = NoOne
  /\ queue' = Append(queue, sd)
  /\ NotifyOne
  /\ UNCHANGED <<halted, lock, held>>

\* await_shutdown joins the threads one after the other.
AllDone == \A w \in Workers : worker[w] = "done"

-----------------------------------------------------------------------------
(* One turn of a worker's loop.                                            *)

Goto(w, pc) == worker' = [worker EXCEPT ![w] = pc]

\* The loop's condition; the turn starts with no descriptor in hand.
Top(w) ==
  /\ worker[w] = "top"
  /\ Goto(w, IF halted THEN "done" ELSE "lock")
  /\ held' = [held EXCEPT ![w] = InvalidSd]
  /\ UNCHANGED <<halted, lock, queue>>

Acquire(w) ==
  /\ worker[w] = "lock"
  /\ lock = NoOne
  /\ lock' = w
  /\ Goto(w, "locked")
  /\ UNCHANGED <<halted, queue, held>>

\* Fault: read the front of the queue and leave it there.
PopNothing(w) ==
  /\ worker[w] = "locked"
  /\ queue # <<>>
  /\ held' = [held EXCEPT ![w] = Head(queue)]
  /\ lock' = NoOne
  /\ Goto(w, IF Head(queue) = InvalidSd THEN "top" ELSE "handle")
  /\ UNCHANGED <<halted, queue>>

\* Fault: hand every descriptor to the handler.
PopUnchecked(w) ==
  /\ worker[w] = "locked"
  /\ queue # <<>>
  /\ held' = [held EXCEPT ![w] = Head(queue)]
  /\ queue' = Tail(queue)
  /\ lock' = NoOne
  /\ Goto(w, "handle")
  /\ UNCHANGED halted

\* Take the oldest descriptor.  A negative one is never given to the handler.
Pop(w) ==
  /\ worker[w] = "locked"
  /\ queue # <<>>
  /\ held' = [held EXCEPT ![w] = Head(queue)]
  /\ queue' = Tail(queue)
  /\ lock' = NoOne
  /\ Goto(w, IF Head(queue) = InvalidSd THEN "top" ELSE "handle")
  /\ UNCHANGED halted

\* The queue is empty and the pool is halted: no wait.
SkipWait(w) ==
  /\ worker[w] = "locked"
  /\ queue = <<>>
  /\ halted
  /\ lock' = NoOne
  /\ Goto(w, "top")
  /\ UNCHANGED <<halted, queue, held>>

\* Fault: release the mutex before the wait instead of by the wait.
DecideUnlocked(w) ==
  /\ worker[w] = "locked"
  /\ queue = <<>>
  /\ ~halted
  /\ lock' = NoOne
  /\ Goto(w, "tosleep")
  /\ UNCHANGED <<halted, queue, held>>

\* The queue is empty and the pool is active: wait.  The flag is read here
\* and the mutex released in Sleep, so a halt can fall between the two.
DecideToWait(w) ==
  /\ worker[w] = "locked"
  /\ queue = <<>>
  /\ ~halted
  /\ Goto(w, "tosleep")
  /\ UNCHANGED <<halted, lock, queue, held>>

Sleep(w) ==
  /\ worker[w] = "tosleep"
  /\ lock' = NoOne
  /\ Goto(w, "asleep")
  /\ UNCHANGED <<halted, queue, held>>

\* A condition variable may return from wait without a notification.
SpuriousWakeup(w) ==
  /\ worker[w] = "asleep"
  /\ Goto(w, "wakeup")
  /\ UNCHANGED <<halted, lock, queue, held>>

\* wait reacquires the mutex; the worker releases it at once, with no second
\* look at the queue, and starts a new turn.
Resume(w) ==
  /\ worker[w] = "wakeup"
  /\ lock = NoOne
  /\ Goto(w, "top")
  /\ UNCHANGED <<halted, lock, queue, held>>

\* The handler returns and the worker closes the descriptor.
Return(w) ==
  /\ worker[w] = "handle"
  /\ Goto(w, IF held[w] \in ByeConns THEN "halt" ELSE "top")
  /\ UNCHANGED <<halted, lock, queue, held>>

Halt(w) ==
  /\ worker[w] = "halt"
  /\ halted' = TRUE
  /\ Goto(w, "notify")
  /\ UNCHANGED <<lock, queue, held>>

\* notify_all, under the mutex; then the shutdown handler is called.
NotifyAll(w) ==
  /\ worker[w] = "notify"
  /\ lock = NoOne
  /\ worker' = [v \in Workers |-> IF v = w THEN "announce"
                                  ELSE IF v \in Asleep THEN "wakeup" ELSE worker[v]]
  /\ UNCHANGED <<halted, lock, queue, held>>

\* The steps of a worker that touch nothing but the pool.
PoolStep(w) ==
  \/ Top(w)
  \/ Acquire(w)
  \/ Pop(w)
  \/ SkipWait(w)
  \/ DecideToWait(w)
  \/ Sleep(w)
  \/ SpuriousWakeup(w)
  \/ Resume(w)
  \/ Halt(w)
  \/ NotifyAll(w)
=============================================================================

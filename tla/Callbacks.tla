----------------------------- MODULE Callbacks -----------------------------
(***************************************************************************)
(* callbacks.cpp: the functions Pin calls on the threads of the            *)
(* application, each of which evaluates lock_id++, takes mapLock, works    *)
(* and releases it.  lock_id++ comes before the lock, so threads race on   *)
(* it.  The work is two steps, one that reads shared state and one that    *)
(* writes it back, so that the lock and not the model makes it atomic.     *)
(*                                                                         *)
(* Pin is outside: it runs a thread's thread_attach before the thread's    *)
(* first instruction and thread_detach after its last, uses the number of  *)
(* a thread that ended again, and calls Fini when no thread is left.       *)
(*                                                                         *)
(* The controller is a counter per processor of the accesses it profiled,  *)
(* of CountMod values (made is the true number).                           *)
(***************************************************************************)
EXTENDS Integers

CONSTANTS
  Threads,         \* the numbers PIN_ThreadId gives
  NumProcessors,   \* l1_config.total_processors
  IdMax,           \* the largest value of the int lock_id
  CountMod         \* the width of a profile counter

ASSUME CallbacksAssumption ==
  /\ NumProcessors \in Nat \ {0}
  /\ IdMax \in Nat \ {0}
  /\ CountMod \in Nat \ {0, 1}

Tool == "tool"     \* the thread that runs main and Fini of the tool

Proc  == 0 .. NumProcessors - 1
NoPid == -1
Free  == "free"

ASSUME NamesAssumption == Tool \notin Threads /\ Free \notin Threads

Contexts == Threads \cup {Tool}
Ids      == -IdMax - 1 .. IdMax
Counts   == 0 .. CountMod - 1

VARIABLES
  lock_id, next_pid, num_processors, t_map, mapLock, controller,
  counted,    \* per processor: the accesses the controller has profiled
  report,     \* per processor: what process_detach printed
  op,         \* per context: the callback it is in
  pc,         \* per context: how far it is
  label,      \* per context: the lock_id it read
  seen,       \* per context: what it read under the lock
  running,    \* the threads between thread_attach and thread_detach
  made,       \* per processor: the accesses whose callback has returned
  failed      \* an assertion failed or there was no controller to call

vars == <<lock_id, next_pid, num_processors, t_map, mapLock, controller,
          counted, report, op, pc, label, seen, running, made, failed>>

shared == <<next_pid, num_processors, t_map, controller, counted, report, failed>>

Ops == {"process_attach", "process_detach", "thread_attach", "thread_detach", "access"}

TypeOK ==
  /\ lock_id \in Ids
  /\ next_pid \in 0 .. NumProcessors
  /\ num_processors \in {0, NumProcessors}
  /\ t_map \in [Threads -> Proc \cup {NoPid}]
  /\ mapLock \in Contexts \cup {Free}
  /\ controller \in {"null", "live", "deleted"}
  /\ counted \in [Proc -> Counts]
  /\ report \in [Proc -> Counts]
  /\ op \in [Contexts -> Ops \cup {"none"}]
  /\ pc \in [Contexts -> {"idle", "incr", "wait", "look", "update", "unlock"}]
  /\ label \in [Contexts -> Ids]
  /\ seen \in [Contexts -> Nat]
  /\ running \in SUBSET Threads
  /\ made \in [Proc -> Counts]
  /\ failed \in BOOLEAN

Init ==
  /\ lock_id = 1
  /\ next_pid = 0
  /\ num_processors = 0
  /\ t_map = [t \in Threads |-> NoPid]
  /\ mapLock = Free
  /\ controller = "null"
  /\ counted = [p \in Proc |-> 0]
  /\ report = [p \in Proc |-> 0]
  /\ op = [c \in Contexts |-> "none"]
  /\ pc = [c \in Contexts |-> "idle"]
  /\ label = [c \in Contexts |-> 0]
  /\ seen = [c \in Contexts |-> 0]
  /\ running = {}
  /\ made = [p \in Proc |-> 0]
  /\ failed = FALSE

-----------------------------------------------------------------------------
(* When Pin calls.  main calls process_attach before PIN_StartProgram.      *)

\* Fault: the program is started before process_attach has run.
CallsOf_StartFirst(c) ==
  IF c = Tool
  THEN IF controller = "null" THEN {"process_attach"} ELSE {}
  ELSE IF c \in running THEN {"access", "thread_detach"} ELSE {"thread_attach"}

CallsOf(c) ==
  IF c = Tool
  THEN IF controller = "null" THEN {"process_attach"}
       ELSE IF controller = "live" /\ \A t \in Threads : t \notin running /\ pc[t] = "idle"
            THEN {"process_detach"} ELSE {}
  ELSE IF c \in running THEN {"access", "thread_detach"}
       ELSE IF controller = "live" /\ pc[Tool] = "idle" THEN {"thread_attach"} ELSE {}

WrapId(i) == IF i > IdMax THEN -IdMax - 1 ELSE i

\* lock_id++ is a read and a write, with every other thread in between.
Call(c) ==
  /\ pc[c] = "idle"
  /\ \E o \in CallsOf(c) : op' = [op EXCEPT ![c] = o]
  /\ label' = [label EXCEPT ![c] = lock_id]
  /\ pc' = [pc EXCEPT ![c] = "incr"]
  /\ UNCHANGED <<shared, lock_id, mapLock, seen, running, made>>

IncrementId(c) ==
  /\ pc[c] = "incr"
  /\ lock_id' = WrapId(label[c] + 1)
  /\ label' = [label EXCEPT ![c] = 0]
  /\ pc' = [pc EXCEPT ![c] = "wait"]
  /\ UNCHANGED <<shared, mapLock, op, seen, running, made>>

\* Fault: the lock is taken while another thread holds it.
GetLock_NoLock(c) ==
  /\ pc[c] = "wait"
  /\ mapLock' = c
  /\ pc' = [pc EXCEPT ![c] = "look"]
  /\ UNCHANGED <<shared, lock_id, op, label, seen, running, made>>

GetLock(c) ==
  /\ pc[c] = "wait"
  /\ mapLock = Free
  /\ mapLock' = c
  /\ pc' = [pc EXCEPT ![c] = "look"]
  /\ UNCHANGED <<shared, lock_id, op, label, seen, running, made>>

-----------------------------------------------------------------------------
(* The work under the lock.                                                 *)

\* assert(t_map.find(tid) != t_map.end()), and a controller to call.
Fails(c) ==
  \/ op[c] = "access"         /\ (t_map[c] = NoPid \/ controller # "live")
  \/ op[c] = "thread_detach"  /\ t_map[c] = NoPid
  \/ op[c] = "process_detach" /\ controller # "live"

Look(c) ==
  /\ pc[c] = "look"
  /\ failed' = Fails(c)
  /\ seen' = IF Fails(c) THEN seen
             ELSE IF op[c] = "access" THEN [seen EXCEPT ![c] = counted[t_map[c]]]
             ELSE IF op[c] = "thread_attach" THEN [seen EXCEPT ![c] = next_pid]
             ELSE seen
  /\ pc' = IF Fails(c) THEN pc ELSE [pc EXCEPT ![c] = "update"]
  /\ UNCHANGED <<next_pid, num_processors, t_map, controller, counted, report,
                 lock_id, mapLock, op, label, running, made>>

process_attach ==
  /\ num_processors' = NumProcessors
  /\ controller' = "live"
  /\ UNCHANGED <<next_pid, t_map, counted, report>>

process_detach ==
  /\ report' = counted
  /\ controller' = "deleted"
  /\ UNCHANGED <<next_pid, num_processors, t_map, counted>>

\* Fault: numbers start again at 0 as soon as there is no new one.
get_next_pid_Wrap(next) == [pid |-> next % NumProcessors, next |-> (next + 1) % NumProcessors]

\* The number handed out and next_pid after it: 0 for ever once they are used up.
get_next_pid(next) ==
  IF next = num_processors THEN [pid |-> 0, next |-> next] ELSE [pid |-> next, next |-> next + 1]

thread_attach(c) ==
  LET got == get_next_pid(seen[c]) IN
  /\ next_pid' = got.next
  /\ t_map' = [t_map EXCEPT ![c] = got.pid]
  /\ UNCHANGED <<num_processors, controller, counted, report>>

thread_detach(c) ==
  /\ t_map' = [t_map EXCEPT ![c] = NoPid]
  /\ UNCHANGED <<next_pid, num_processors, controller, counted, report>>

OneMore(count) == (count + 1) % CountMod

\* cache_load and cache_store: the handlers end in a counter of the profile.
Access(c) ==
  /\ counted' = [counted EXCEPT ![t_map[c]] = OneMore(seen[c])]
  /\ UNCHANGED <<next_pid, num_processors, t_map, controller, report>>

Update(c) ==
  /\ pc[c] = "update"
  /\ \/ op[c] = "process_attach" /\ process_attach
     \/ op[c] = "process_detach" /\ process_detach
     \/ op[c] = "thread_attach"  /\ thread_attach(c)
     \/ op[c] = "thread_detach"  /\ thread_detach(c)
     \/ op[c] = "access"         /\ Access(c)
  /\ seen' = [seen EXCEPT ![c] = 0]
  /\ pc' = [pc EXCEPT ![c] = "unlock"]
  /\ UNCHANGED <<lock_id, mapLock, op, label, running, made, failed>>

\* Fault: a callback returns with the lock held.
ReleaseLock_Keep(c) ==
  /\ pc[c] = "unlock"
  /\ pc' = [pc EXCEPT ![c] = "idle"]
  /\ op' = [op EXCEPT ![c] = "none"]
  /\ running' = running \cup {t \in {c} : op[c] = "thread_attach"}
  /\ made' = made
  /\ UNCHANGED <<shared, lock_id, mapLock, label, seen>>

ReleaseLock(c) ==
  /\ pc[c] = "unlock"
  /\ mapLock' = Free
  /\ pc' = [pc EXCEPT ![c] = "idle"]
  /\ op' = [op EXCEPT ![c] = "none"]
  /\ running' = IF op[c] = "thread_attach" THEN running \cup {c}
                ELSE IF op[c] = "thread_detach" THEN running \ {c} ELSE running
  /\ made' = IF op[c] = "access" THEN [made EXCEPT ![t_map[c]] = OneMore(@)] ELSE made
  /\ UNCHANGED <<shared, lock_id, label, seen>>

\* What a thread does inside a callback, apart from waiting for the lock.
Work(c) == IncrementId(c) \/ Look(c) \/ Update(c) \/ ReleaseLock(c)

Next == \E c \in Contexts : Call(c) \/ GetLock(c) \/ Work(c)

\* A thread inside a callback is not stopped for ever, and PIN_GetLock lets no
\* thread wait for ever while the lock keeps being released.  Nothing is assumed
\* of Call: the application may run for ever, or stop, anywhere else.
Fairness == \A c \in Contexts : WF_vars(Work(c)) /\ SF_vars(GetLock(c))

Spec == Init /\ [][Next]_vars /\ Fairness

-----------------------------------------------------------------------------
(* Safety.                                                                  *)

\* No assertion of get_pid and thread_detach fails and no callback finds the
\* controller missing: whatever the order of calls and the race on lock_id, an
\* access comes after its thread's thread_attach and before Fini.
NothingFails == ~failed

\* The controller indexes its vectors with the number of a processor: no thread
\* ever has one that does not exist, however many threads came and went.  Two
\* threads are on the same processor only when the numbers are used up, and then
\* it is processor 0: as long as there are numbers, threads have caches of their
\* own.  Numbers are not returned, so it may happen with idle processors.
Attached == {t \in Threads : t_map[t] # NoPid}
SharingMeansUsedUp ==
  /\ \A t \in Attached : t_map[t] \in 0 .. num_processors - 1
  /\ \A t, u \in Attached :
       t # u /\ t_map[t] = t_map[u] => t_map[t] = 0 /\ next_pid = num_processors

\* No access is lost, counted twice or counted for another processor, although the
\* handlers read and write unprotected counters and threads race for lock_id.
Unreturned(p) == \E c \in Threads : op[c] = "access" /\ pc[c] = "unlock" /\ t_map[c] = p
NoAccessIsLost == \A p \in Proc : counted[p] = IF Unreturned(p) THEN OneMore(made[p]) ELSE made[p]

-----------------------------------------------------------------------------
(* Liveness.                                                                *)

\* A thread that entered a callback gets out of it, however often the others
\* call: mapLock is the only thing it waits for and is always released.
EveryCallbackReturns == \A c \in Contexts : (pc[c] # "idle") ~> (pc[c] = "idle")

=============================================================================

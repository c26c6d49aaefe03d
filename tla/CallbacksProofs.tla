-------------------------- MODULE CallbacksProofs --------------------------
(***************************************************************************)
(* Proofs about Callbacks for any number of threads and processors and any *)
(* width of lock_id and of the counters.  One invariant proves everything: *)
(* it says who holds mapLock, which callback follows which on a thread,    *)
(* when main's two callbacks run, and what a handler still remembers.      *)
(***************************************************************************)
EXTENDS Callbacks, TLAPS

\* Between its GetLock and its ReleaseLock a callback owns mapLock.
HasLock(c) == pc[c] \in {"look", "update", "unlock"}
LockInv == \A c \in Contexts : HasLock(c) => mapLock = c

\* A thread is attached, then accesses, then is detached; main attaches and detaches.
OpInv ==
  /\ \A c \in Contexts : pc[c] = "idle" <=> op[c] = "none"
  /\ op[Tool] \in {"none", "process_attach", "process_detach"}
  /\ \A t \in Threads :
       op[t] \in (IF t \in running THEN {"none", "access", "thread_detach"} ELSE {"none", "thread_attach"})

\* A thread has a processor from its thread_attach to its thread_detach, and the
\* processors in use are among those handed out.
AttachInv ==
  /\ \A t \in running : t_map[t] = NoPid => op[t] = "thread_detach" /\ pc[t] = "unlock"
  /\ \A t \in Threads : op[t] = "thread_attach" /\ pc[t] = "unlock" => t_map[t] # NoPid
  /\ \A t \in Attached : t_map[t] \in 0 .. next_pid - 1

\* The callbacks of main come before and after all of those of the threads.
Active(t) == t \in running \/ pc[t] # "idle"
MainInv ==
  /\ num_processors = IF controller = "null" THEN 0 ELSE NumProcessors
  /\ controller = "null" => next_pid = 0
  /\ \A t \in Threads : Active(t) => controller = "live" /\ pc[Tool] = "idle"
  /\ op[Tool] = "process_attach" /\ pc[Tool] # "unlock" => controller = "null"
  /\ op[Tool] = "process_detach" /\ pc[Tool] # "unlock" => controller = "live"

\* What a handler has read is still so when it writes.
SeenInv ==
  \A t \in Threads : pc[t] = "update" =>
    /\ op[t] = "access" => t_map[t] # NoPid /\ seen[t] = counted[t_map[t]]
    /\ op[t] = "thread_attach" => seen[t] = next_pid

IInv ==
  /\ TypeOK /\ LockInv /\ OpInv /\ AttachInv /\ MainInv /\ SeenInv
  /\ NothingFails /\ SharingMeansUsedUp /\ NoAccessIsLost

-----------------------------------------------------------------------------
(* Counters and names.                                                      *)

\* A counter that is counted up stays a counter.
LEMMA OneMoreCounts == \A count \in Counts : OneMore(count) \in Counts
  BY CallbacksAssumption DEF OneMore, Counts

\* The names of the tool and of the free lock are nobody else's.
LEMMA Names == Tool \in Contexts /\ Tool \notin Threads /\ Free \notin Contexts /\ Tool # Free
  BY NamesAssumption DEF Tool, Free, Contexts

\* No number of a processor says that there is none.
LEMMA NoPidIsNone == NoPid \notin Proc /\ 0 \in Proc
  BY CallbacksAssumption DEF NoPid, Proc

\* Nobody but the owner works under the lock.
LEMMA Alone ==
  ASSUME LockInv, NEW c \in Contexts, HasLock(c), NEW d \in Contexts, d # c
  PROVE  ~HasLock(d)
  BY DEF LockInv

-----------------------------------------------------------------------------
\* At first nothing has happened.
LEMMA Start == Init => IInv
  <1> SUFFICES ASSUME Init PROVE IInv
    OBVIOUS
  <1> USE CallbacksAssumption DEF Init
  <1>1. 0 \in Counts /\ 0 \in Ids /\ 0 \in 0 .. NumProcessors /\ 1 \in Ids
    BY DEF Counts, Ids
  <1>2. TypeOK
    BY <1>1, Zenon DEF TypeOK
  <1>3. LockInv /\ OpInv
    BY DEF LockInv, HasLock, OpInv, Contexts
  <1>4. AttachInv /\ SharingMeansUsedUp
    BY DEF AttachInv, SharingMeansUsedUp, Attached, Contexts
  <1>5. MainInv /\ SeenInv
    BY DEF MainInv, Active, SeenInv, Contexts
  <1>6. NothingFails /\ NoAccessIsLost
    BY Zenon DEF NothingFails, NoAccessIsLost, Unreturned, Contexts
  <1>7. QED
    BY <1>2, <1>3, <1>4, <1>5, <1>6 DEF IInv

\* A thread enters a callback.
LEMMA CallKeeps == ASSUME IInv, NEW c \in Contexts, Call(c) PROVE IInv'
  <1> USE Names DEF IInv, Call, shared
  <1>1. PICK o \in CallsOf(c) : op' = [op EXCEPT ![c] = o]
    OBVIOUS
  <1>2. o \in Ops /\ (c = Tool => o \in {"process_attach", "process_detach"})
    BY DEF CallsOf, Ops
  <1>3. TypeOK'
    BY <1>1, <1>2 DEF TypeOK
  <1>4. LockInv'
    BY DEF LockInv, HasLock, TypeOK
  <1>5. OpInv'
    BY <1>1, <1>2 DEF OpInv, CallsOf, TypeOK, Contexts, Ops
  <1>6. AttachInv'
    BY <1>1 DEF AttachInv, Attached, OpInv, TypeOK, Contexts
  <1>7. MainInv'
    BY <1>1 DEF MainInv, Active, CallsOf, TypeOK, Contexts
  <1>8. SeenInv'
    BY <1>1 DEF SeenInv, TypeOK, Contexts
  <1>9. NothingFails' /\ SharingMeansUsedUp'
    BY DEF NothingFails, SharingMeansUsedUp, Attached
  <1>10. NoAccessIsLost'
    BY <1>1 DEF NoAccessIsLost, Unreturned, TypeOK, Contexts
  <1>11. QED
    BY <1>3, <1>4, <1>5, <1>6, <1>7, <1>8, <1>9, <1>10

\* It writes lock_id back.
LEMMA IncrementKeeps == ASSUME IInv, NEW c \in Contexts, IncrementId(c) PROVE IInv'
  <1> USE Names DEF IInv, IncrementId, shared
  <1>1. WrapId(label[c] + 1) \in Ids
    BY CallbacksAssumption DEF WrapId, Ids, TypeOK
  <1>2. TypeOK'
    BY <1>1, CallbacksAssumption DEF TypeOK, Ids
  <1>3. LockInv'
    BY DEF LockInv, HasLock, TypeOK
  <1>4. OpInv' /\ AttachInv' /\ MainInv' /\ SeenInv'
    BY DEF OpInv, AttachInv, Attached, MainInv, Active, SeenInv, TypeOK, Contexts
  <1>5. NothingFails' /\ SharingMeansUsedUp'
    BY DEF NothingFails, SharingMeansUsedUp, Attached
  <1>6. NoAccessIsLost'
    BY DEF NoAccessIsLost, Unreturned, TypeOK, Contexts
  <1>7. QED
    BY <1>2, <1>3, <1>4, <1>5, <1>6

\* It gets the lock: nobody had it.
LEMMA GetLockKeeps == ASSUME IInv, NEW c \in Contexts, GetLock(c) PROVE IInv'
  <1> USE Names DEF IInv, GetLock, shared
  <1>1. TypeOK'
    BY DEF TypeOK
  <1>2. LockInv'
    BY DEF LockInv, HasLock, TypeOK
  <1>3. OpInv' /\ AttachInv' /\ MainInv' /\ SeenInv'
    BY DEF OpInv, AttachInv, Attached, MainInv, Active, SeenInv, TypeOK, Contexts
  <1>4. NothingFails' /\ SharingMeansUsedUp'
    BY DEF NothingFails, SharingMeansUsedUp, Attached
  <1>5. NoAccessIsLost'
    BY DEF NoAccessIsLost, Unreturned, TypeOK, Contexts
  <1>6. QED
    BY <1>1, <1>2, <1>3, <1>4, <1>5

\* What it looks for is there, whatever the callback.
LEMMA LookFinds == ASSUME IInv, NEW c \in Contexts, pc[c] = "look" PROVE ~Fails(c)
  <1>1. CASE c = Tool
    BY <1>1 DEF IInv, OpInv, MainInv, Fails
  <1>2. CASE c \in Threads
    <2>1. controller = "live"
      BY <1>2 DEF IInv, MainInv, Active
    <2>2. op[c] \in {"access", "thread_detach"} => t_map[c] # NoPid
      BY <1>2 DEF IInv, OpInv, AttachInv
    <2>3. op[c] # "process_detach"
      BY <1>2 DEF IInv, OpInv
    <2>4. QED
      BY <2>1, <2>2, <2>3 DEF Fails
  <1>3. QED
    BY <1>1, <1>2 DEF Contexts

\* It reads the counter or the number it is going to change.
LEMMA LookKeeps == ASSUME IInv, NEW c \in Contexts, Look(c) PROVE IInv'
  <1> USE Names DEF IInv
  <1>1. pc[c] = "look" /\ ~Fails(c)
    BY LookFinds DEF Look
  <1>2. /\ ~failed'
        /\ pc' = [pc EXCEPT ![c] = "update"]
        /\ UNCHANGED <<next_pid, num_processors, t_map, controller, counted, report,
                       lock_id, mapLock, op, label, running, made>>
    BY <1>1 DEF Look
  <1>3. /\ op[c] = "access" => seen' = [seen EXCEPT ![c] = counted[t_map[c]]]
        /\ op[c] = "thread_attach" => seen' = [seen EXCEPT ![c] = next_pid]
        /\ op[c] \notin {"access", "thread_attach"} => seen' = seen
    BY <1>1 DEF Look
  <1>4. op[c] = "access" => c \in Threads /\ t_map[c] \in Proc /\ t_map[c] # NoPid
    BY <1>1 DEF Fails, OpInv, TypeOK, Contexts
  <1>5. seen' \in [Contexts -> Nat]
    BY <1>3, <1>4 DEF TypeOK, Counts
  <1>6. TypeOK'
    <2>1. pc' \in [Contexts -> {"idle", "incr", "wait", "look", "update", "unlock"}]
      BY <1>2 DEF TypeOK
    <2>2. failed' \in BOOLEAN
      BY DEF Look, Fails
    <2>3. UNCHANGED <<next_pid, num_processors, t_map, controller, counted, report, lock_id, mapLock, op, label, running, made>>
      BY <1>2
    <2>4. QED
      BY <1>5, <2>1, <2>2, <2>3 DEF TypeOK
  <1>7. LockInv'
    BY <1>1, <1>2 DEF LockInv, HasLock, TypeOK
  <1>8. OpInv' /\ AttachInv' /\ MainInv'
    BY <1>1, <1>2 DEF OpInv, AttachInv, Attached, MainInv, Active, TypeOK, Contexts
  <1>9. SeenInv'
    BY <1>1, <1>2, <1>3, <1>4 DEF SeenInv, TypeOK, Contexts
  <1>10. NothingFails' /\ SharingMeansUsedUp'
    BY <1>2 DEF NothingFails, SharingMeansUsedUp, Attached
  <1>11. NoAccessIsLost'
    BY <1>1, <1>2 DEF NoAccessIsLost, Unreturned, TypeOK, Contexts
  <1>12. QED
    BY <1>6, <1>7, <1>8, <1>9, <1>10, <1>11

-----------------------------------------------------------------------------
(* The work of the five callbacks.                                          *)

\* What they have in common: the one under the lock is c, and the others wait.
LEMMA UpdateFrame ==
  ASSUME IInv, NEW c \in Contexts, Update(c)
  PROVE  /\ pc[c] = "update" /\ pc' = [pc EXCEPT ![c] = "unlock"]
         /\ UNCHANGED <<lock_id, mapLock, op, label, running, made, failed>>
         /\ \A d \in Contexts : pc[d] \in {"update", "unlock"} => d = c
         /\ LockInv' /\ OpInv' /\ SeenInv' /\ NothingFails'
         /\ pc' \in [Contexts -> {"idle", "incr", "wait", "look", "update", "unlock"}]
         /\ seen' \in [Contexts -> Nat]
         /\ (op[c] \in {"process_attach", "process_detach"} <=> c = Tool)
  <1> USE DEF IInv
  <1>1. /\ pc[c] = "update"
        /\ pc' = [pc EXCEPT ![c] = "unlock"]
        /\ UNCHANGED <<lock_id, mapLock, op, label, running, made, failed>>
        /\ seen' = [seen EXCEPT ![c] = 0]
    BY DEF Update
  <1>2. \A d \in Contexts : pc[d] \in {"update", "unlock"} => d = c
    BY <1>1, Alone DEF HasLock
  <1>3. LockInv'
    BY <1>1 DEF LockInv, HasLock, TypeOK
  <1>4. OpInv' /\ NothingFails'
    BY <1>1 DEF OpInv, NothingFails, TypeOK, Contexts
  <1>5. SeenInv'
    BY <1>1, <1>2 DEF SeenInv, TypeOK, Contexts
  <1>6. pc' \in [Contexts -> {"idle", "incr", "wait", "look", "update", "unlock"}] /\ seen' \in [Contexts -> Nat]
    BY <1>1 DEF TypeOK
  <1>7. op[c] \in {"process_attach", "process_detach"} <=> c = Tool
    BY <1>1, Names DEF OpInv, Contexts, TypeOK
  <1>8. QED
    BY <1>1, <1>2, <1>3, <1>4, <1>5, <1>6, <1>7

\* The controller is there from now on; there was no thread.
LEMMA ProcessAttachKeeps ==
  ASSUME IInv, NEW c \in Contexts, Update(c), op[c] = "process_attach" PROVE IInv'
  <1> USE Names, UpdateFrame DEF IInv
  <1>1. c = Tool /\ process_attach
    BY DEF Update
  <1>2. controller = "null" /\ Attached = {} /\ \A t \in Threads : ~Active(t)
    BY <1>1 DEF MainInv, AttachInv
  <1>3. TypeOK'
    BY <1>1 DEF process_attach, TypeOK
  <1>4. AttachInv' /\ SharingMeansUsedUp'
    <2>1. Attached' = {} /\ running' = {}
      BY <1>1, <1>2 DEF process_attach, Attached, Active, TypeOK
    <2>2. \A t \in Threads : op'[t] # "thread_attach"
      BY <1>2 DEF OpInv, Active, Contexts
    <2>3. QED
      BY <2>1, <2>2 DEF AttachInv, SharingMeansUsedUp
  <1>5. MainInv'
    <2>1. \A t \in Threads : ~Active(t)'
      BY <1>1, <1>2 DEF Active, TypeOK, Contexts
    <2>2. pc'[Tool] = "unlock"
      BY <1>1 DEF TypeOK
    <2>3. QED
      BY <1>1, <2>1, <2>2 DEF process_attach, MainInv
  <1>6. NoAccessIsLost'
    BY <1>1, <1>2 DEF process_attach, NoAccessIsLost, Unreturned, Active, TypeOK, Contexts
  <1>7. QED
    BY <1>3, <1>4, <1>5, <1>6

\* No thread is left, and the counters stay as they are.
LEMMA ProcessDetachKeeps ==
  ASSUME IInv, NEW c \in Contexts, Update(c), op[c] = "process_detach" PROVE IInv'
  <1> USE Names, UpdateFrame DEF IInv
  <1>1. c = Tool /\ process_detach
    BY DEF Update
  <1>2. controller = "live" /\ \A t \in Threads : ~Active(t)
    BY <1>1 DEF MainInv
  <1>3. TypeOK'
    BY <1>1 DEF process_detach, TypeOK
  <1>4. AttachInv' /\ SharingMeansUsedUp'
    <2>1. \A t \in Threads : op'[t] # "thread_attach"
      BY <1>2 DEF OpInv, Active, Contexts
    <2>2. running' = {}
      BY <1>2 DEF Active, TypeOK
    <2>3. QED
      BY <1>1, <2>1, <2>2 DEF process_detach, AttachInv, SharingMeansUsedUp, Attached
  <1>5. MainInv'
    <2>1. \A t \in Threads : ~Active(t)'
      BY <1>1, <1>2 DEF Active, TypeOK, Contexts
    <2>2. pc'[Tool] = "unlock"
      BY <1>1 DEF TypeOK
    <2>3. QED
      BY <1>1, <1>2, <2>1, <2>2 DEF process_detach, MainInv
  <1>6. \A p \in Proc : ~Unreturned(p) /\ ~Unreturned(p)'
    BY <1>1, <1>2 DEF Unreturned, Active, TypeOK, Contexts
  <1>7. NoAccessIsLost'
    BY <1>1, <1>6 DEF process_detach, NoAccessIsLost
  <1>8. QED
    BY <1>3, <1>4, <1>5, <1>7

\* A new number while there are any, and then processor 0.
LEMMA ThreadAttachKeeps ==
  ASSUME IInv, NEW c \in Contexts, Update(c), op[c] = "thread_attach" PROVE IInv'
  <1> USE Names, UpdateFrame DEF IInv
  <1>1. c \in Threads /\ c # Tool /\ c \notin running
    BY DEF Contexts, OpInv
  <1>2. seen[c] = next_pid /\ controller = "live" /\ pc[Tool] = "idle" /\ num_processors = NumProcessors
    BY <1>1 DEF SeenInv, MainInv, Active
  <1>3. PICK pid \in Proc, next \in 0 .. NumProcessors :
          /\ t_map' = [t_map EXCEPT ![c] = pid] /\ next_pid' = next
          /\ next_pid = NumProcessors => pid = 0 /\ next = next_pid
          /\ next_pid # NumProcessors => pid = next_pid /\ next = next_pid + 1
    <2>1. thread_attach(c)
      BY DEF Update
    <2>2. CASE next_pid = NumProcessors
      <3>1. t_map' = [t_map EXCEPT ![c] = 0] /\ next_pid' = next_pid
        BY <1>2, <2>1, <2>2 DEF thread_attach, get_next_pid
      <3>2. QED
        BY <2>2, <3>1, NoPidIsNone DEF TypeOK
    <2>3. CASE next_pid # NumProcessors
      <3>1. next_pid \in Proc /\ next_pid + 1 \in 0 .. NumProcessors
        BY <2>3, CallbacksAssumption DEF TypeOK, Proc
      <3>2. t_map' = [t_map EXCEPT ![c] = next_pid] /\ next_pid' = next_pid + 1
        BY <1>2, <2>1, <2>3 DEF thread_attach, get_next_pid
      <3>3. QED
        BY <2>3, <3>1, <3>2
    <2>4. QED
      BY <2>2, <2>3
  <1>4. UNCHANGED <<num_processors, controller, counted, report>>
    BY DEF Update, thread_attach
  <1>5. TypeOK'
    BY <1>3, <1>4 DEF TypeOK
  <1>6. AttachInv'
    BY <1>1, <1>3, <1>4, NoPidIsNone, CallbacksAssumption DEF AttachInv, Attached, TypeOK, Contexts, Proc
  <1>7. SharingMeansUsedUp'
    BY <1>1, <1>2, <1>3, <1>4, NoPidIsNone, CallbacksAssumption DEF AttachInv, SharingMeansUsedUp, Attached, TypeOK, Proc
  <1>8. MainInv'
    BY <1>1, <1>2, <1>4 DEF MainInv, Active, TypeOK, Contexts
  <1>9. NoAccessIsLost'
    BY <1>1, <1>2, <1>3, <1>4 DEF NoAccessIsLost, Unreturned, TypeOK, Contexts
  <1>10. QED
    BY <1>5, <1>6, <1>7, <1>8, <1>9

\* The number is given up and not handed out again.
LEMMA ThreadDetachKeeps ==
  ASSUME IInv, NEW c \in Contexts, Update(c), op[c] = "thread_detach" PROVE IInv'
  <1> USE Names, UpdateFrame DEF IInv
  <1>1. c \in Threads /\ c # Tool /\ thread_detach(c)
    BY DEF Contexts, OpInv, Update
  <1>2. controller = "live" /\ pc[Tool] = "idle"
    BY <1>1 DEF MainInv, Active
  <1>3. TypeOK'
    BY <1>1 DEF thread_detach, TypeOK
  <1>4. Attached' = Attached \ {c} /\ \A t \in Threads : t # c => t_map'[t] = t_map[t]
    BY <1>1 DEF thread_detach, Attached, TypeOK
  <1>5. AttachInv' /\ SharingMeansUsedUp'
    BY <1>1, <1>4 DEF thread_detach, AttachInv, SharingMeansUsedUp, Attached, TypeOK, Contexts
  <1>6. MainInv'
    BY <1>1, <1>2 DEF thread_detach, MainInv, Active, TypeOK, Contexts
  <1>7. NoAccessIsLost'
    BY <1>1, <1>2, <1>4 DEF thread_detach, NoAccessIsLost, Unreturned, TypeOK, Contexts
  <1>8. QED
    BY <1>3, <1>5, <1>6, <1>7

\* The counter that was read is still the counter, and becomes one more.
LEMMA AccessKeeps ==
  ASSUME IInv, NEW c \in Contexts, Update(c), op[c] = "access" PROVE IInv'
  <1> USE Names, UpdateFrame DEF IInv
  <1> DEFINE p == t_map[c]
  <1>1. c \in Threads /\ c # Tool /\ Access(c)
    BY DEF Contexts, OpInv, Update
  <1>2. controller = "live" /\ pc[Tool] = "idle"
    BY <1>1 DEF MainInv, Active
  <1>3. p \in Proc /\ seen[c] = counted[p]
    BY <1>1 DEF SeenInv, TypeOK
  <1>4. counted' = [counted EXCEPT ![p] = OneMore(counted[p])]
    BY <1>1, <1>3 DEF Access
  <1>5. UNCHANGED <<next_pid, num_processors, t_map, controller, report>>
    BY <1>1 DEF Access
  <1>6. OneMore(counted[p]) \in Counts
    BY <1>3, OneMoreCounts DEF TypeOK
  <1>7. TypeOK'
    BY <1>4, <1>5, <1>6 DEF TypeOK
  <1>8. AttachInv' /\ SharingMeansUsedUp'
    BY <1>1, <1>5 DEF AttachInv, SharingMeansUsedUp, Attached, TypeOK, Contexts
  <1>9. MainInv'
    BY <1>1, <1>2, <1>5 DEF MainInv, Active, TypeOK, Contexts
  <1>10. NoAccessIsLost'
    <2>1. \A q \in Proc : ~Unreturned(q) /\ (Unreturned(q)' <=> q = p)
      BY <1>1, <1>5 DEF Unreturned, TypeOK, Contexts
    <2>2. \A q \in Proc : counted'[q] = IF q = p THEN OneMore(made[q]) ELSE made[q]
      BY <1>3, <1>4, <2>1 DEF NoAccessIsLost, TypeOK
    <2>3. QED
      BY <2>1, <2>2 DEF NoAccessIsLost, OneMore
  <1>11. QED
    BY <1>7, <1>8, <1>9, <1>10

LEMMA UpdateKeeps == ASSUME IInv, NEW c \in Contexts, Update(c) PROVE IInv'
  BY ProcessAttachKeeps, ProcessDetachKeeps, ThreadAttachKeeps, ThreadDetachKeeps, AccessKeeps DEF Update

-----------------------------------------------------------------------------
\* The callback returns, and the next one may have the lock.
LEMMA ReleaseKeeps == ASSUME IInv, NEW c \in Contexts, ReleaseLock(c) PROVE IInv'
  <1> USE Names DEF IInv
  <1>1. /\ pc[c] = "unlock" /\ mapLock' = Free
        /\ pc' = [pc EXCEPT ![c] = "idle"] /\ op' = [op EXCEPT ![c] = "none"]
        /\ UNCHANGED <<next_pid, num_processors, t_map, controller, counted, report, failed, lock_id, label, seen>>
    BY DEF ReleaseLock, shared
  <1>2. \A d \in Contexts : HasLock(d) => d = c
    BY <1>1, Alone DEF HasLock
  <1>3. /\ op[c] = "access" => c \in Threads /\ t_map[c] \in Proc /\ controller = "live"
        /\ op[c] \in {"thread_attach", "thread_detach"} => c \in Threads
    BY <1>1 DEF OpInv, AttachInv, MainInv, Active, TypeOK, Contexts
  <1>4. /\ op[c] = "access" => made' = [made EXCEPT ![t_map[c]] = OneMore(made[t_map[c]])]
        /\ op[c] # "access" => made' = made
        /\ op[c] = "thread_attach" => running' = running \cup {c}
        /\ op[c] = "thread_detach" => running' = running \ {c}
        /\ op[c] \notin {"thread_attach", "thread_detach"} => running' = running
    BY <1>3 DEF ReleaseLock
  <1>5. made' \in [Proc -> Counts] /\ running' \in SUBSET Threads
    BY <1>3, <1>4, OneMoreCounts DEF TypeOK
  <1>6. TypeOK'
    BY <1>1, <1>5 DEF TypeOK
  <1>7. LockInv' /\ SeenInv'
    BY <1>1, <1>2 DEF LockInv, HasLock, SeenInv, TypeOK, Contexts
  <1>8. OpInv'
    BY <1>1, <1>3, <1>4 DEF OpInv, TypeOK, Contexts
  <1>9. AttachInv'
    BY <1>1, <1>3, <1>4 DEF AttachInv, Attached, OpInv, TypeOK, Contexts
  <1>10. MainInv'
    BY <1>1, <1>3, <1>4 DEF MainInv, Active, TypeOK, Contexts
  <1>11. NothingFails' /\ SharingMeansUsedUp'
    BY <1>1 DEF NothingFails, SharingMeansUsedUp, Attached
  <1>12. NoAccessIsLost'
    <2>1. \A q \in Proc : ~Unreturned(q)'
      BY <1>1, <1>2 DEF Unreturned, HasLock, TypeOK, Contexts
    <2>2. \A q \in Proc : Unreturned(q) <=> op[c] = "access" /\ q = t_map[c]
      BY <1>1, <1>2, <1>3 DEF Unreturned, HasLock, Contexts
    <2>3. \A q \in Proc : counted[q] = made'[q]
      BY <1>3, <1>4, <2>2 DEF NoAccessIsLost, TypeOK
    <2>4. QED
      BY <1>1, <2>1, <2>3 DEF NoAccessIsLost
  <1>13. QED
    BY <1>6, <1>7, <1>8, <1>9, <1>10, <1>11, <1>12

LEMMA StutterKeeps == ASSUME IInv, UNCHANGED vars PROVE IInv'
  BY DEF vars, IInv, TypeOK, LockInv, HasLock, OpInv, AttachInv, Attached, MainInv, Active, SeenInv,
         NothingFails, SharingMeansUsedUp, NoAccessIsLost, Unreturned

\* The invariant holds in every state of every behaviour.
LEMMA Invariance == Spec => []IInv
  <1>1. IInv /\ [Next]_vars => IInv'
    BY CallKeeps, IncrementKeeps, GetLockKeeps, LookKeeps, UpdateKeeps, ReleaseKeeps, StutterKeeps DEF Next, Work
  <1>2. QED
    BY Start, <1>1, PTL DEF Spec

-----------------------------------------------------------------------------
\* The variables have their types: lock_id wraps and stays an int, next_pid stops
\* at the number of processors, and the counters keep their width.
THEOREM TypeCorrect == Spec => []TypeOK
  BY Invariance, PTL DEF IInv

\* Between GetLock and ReleaseLock there is one thread: no two handlers overlap.
HandlersExclude == \A c, d \in Contexts : HasLock(c) /\ HasLock(d) => c = d

THEOREM Exclusion == Spec => []HandlersExclude
  <1>1. IInv => HandlersExclude
    BY DEF IInv, LockInv, HandlersExclude
  <1>2. QED
    BY <1>1, Invariance, PTL

\* No assertion of a callback fails, and each finds the controller it calls.
THEOREM NoCallbackFails == Spec => []NothingFails
  BY Invariance, PTL DEF IInv

\* Threads share a processor only when the numbers are used up, and then number 0;
\* nobody has a number that does not exist.
THEOREM Sharing == Spec => []SharingMeansUsedUp
  BY Invariance, PTL DEF IInv

\* The counters of the controller are those of the accesses that were made.
THEOREM AccessesAreCounted == Spec => []NoAccessIsLost
  BY Invariance, PTL DEF IInv

=============================================================================

------------------------------ MODULE Parmacs ------------------------------
(***************************************************************************)
(* The threads of a SPLASH-2 program under the synchronisation macros of   *)
(* null_macros/c.m4.null.POSIX_BARRIER, the set Makefile.config builds     *)
(* with.  Each macro is what its pthread calls do:                         *)
(*                                                                         *)
(*   BARRIER     opens when every thread of the program is at it;          *)
(*   LOCK        waits for the mutex, UNLOCK releases it;                  *)
(*   SETPAUSE    takes the mutex of the event, sets its flag, wakes all    *)
(*               sleepers and releases the mutex;                          *)
(*   WAITPAUSE   takes the mutex and, if the flag is not set, sleeps once  *)
(*               without it; it returns with the mutex, the flag unseen;   *)
(*   CLEARPAUSE  resets the flag and releases the mutex;                   *)
(*   CREATE, WAIT_FOR_END  start and join the threads.                     *)
(*                                                                         *)
(* A work operation takes time: a thread whose next operation is work is   *)
(* doing it, and so are all others whose next operation is work.           *)
(*                                                                         *)
(* CREATE runs the function on the calling thread too.  The threads are    *)
(* named by the number MyNum they draw under idlock, whoever draws it, and *)
(* what main does alone is a thread of its own with the largest number.    *)
(***************************************************************************)
EXTENDS StaticOrder

CONSTANTS
  Programs,          \* the programs, each with its inputs and data-dependent choices
  ThreadsOf(_),      \* per thread of a program, what Thread of Footprint returns
  KnownRaces(_),     \* per program: the locations on which it does race
  KnownUndefined(_)  \* per program: others that it reads before they are written

\* Threads are numbered, main last; a thread is a sequence of operations, and it
\* releases the mutexes it takes.
ThreadsAssumption ==
  \A p \in Programs :
    LET threads == ThreadsOf(p) IN
    /\ DOMAIN threads \subseteq Int
    /\ \E m \in DOMAIN threads : \A t \in DOMAIN threads : t <= m
    /\ \A t \in DOMAIN threads :
         LET ops == threads[t].code IN
         /\ ops \in Seq({ops[i] : i \in DOMAIN ops})
         /\ WellLocked(ops)
         /\ \A x \in DOMAIN threads[t].stored : threads[t].stored[x] \in DOMAIN ops
ASSUME ThreadsAssumption

VARIABLES
  prog,        \* the program that runs
  code,        \* its threads
  pc,          \* per thread: its next operation
  holding,     \* pairs of a mutex and the thread that has it
  raised,      \* the events whose flag is set
  asleep,      \* threads inside pthread_cond_wait
  woken,       \* threads that return from it and need the mutex
  created      \* CREATE has happened

vars == <<prog, code, pc, holding, raised, asleep, woken, created>>

\* What tells states apart: code follows from prog and does not change.
View == <<prog, pc, holding, raised, asleep, woken, created>>

Threads == DOMAIN code
Main    == Max(Threads)
Workers == Threads \ {Main}

Ops(t)   == code[t].code
Done(t)  == pc[t] > Len(Ops(t))
Next_(t) == Ops(t)[pc[t]]
At(t, kind) == ~Done(t) /\ Next_(t).op = kind

TypeOK ==
  /\ prog \in Programs /\ code = ThreadsOf(prog)
  /\ \A t \in Threads : pc[t] \in 1 .. Len(Ops(t)) + 1
  /\ \A h \in holding : h = <<h[1], h[2]>> /\ h[2] \in Threads
  /\ asleep \cap woken = {}
  /\ \A t \in asleep \cup woken : t \in Threads /\ At(t, "waitpause")
  /\ created \in BOOLEAN

Init ==
  /\ prog \in Programs
  /\ code = ThreadsOf(prog)
  /\ pc = [t \in DOMAIN code |-> 1]
  /\ holding = {}
  /\ raised = {}
  /\ asleep = {}
  /\ woken = {}
  /\ created = FALSE

Advance(S) == pc' = [t \in Threads |-> IF t \in S THEN pc[t] + 1 ELSE pc[t]]
Free(m)    == \A h \in holding : h[1] # m

-----------------------------------------------------------------------------
DoWork(t) ==
  /\ At(t, "work")
  /\ Advance({t})
  /\ UNCHANGED <<prog, code, holding, raised, asleep, woken, created>>

\* pthread_barrier_wait by all threads of the program.
Barrier ==
  /\ \A t \in Workers : At(t, "barrier")
  /\ \A t, u \in Workers : Next_(t).on = Next_(u).on
  /\ Advance(Workers)
  /\ UNCHANGED <<prog, code, holding, raised, asleep, woken, created>>

Lock(t) ==
  /\ At(t, "lock")
  /\ Free(Next_(t).on)
  /\ holding' = holding \cup {<<Next_(t).on, t>>}
  /\ Advance({t})
  /\ UNCHANGED <<prog, code, raised, asleep, woken, created>>

Unlock(t) ==
  /\ At(t, "unlock")
  /\ holding' = {h \in holding : h[1] # Next_(t).on}
  /\ Advance({t})
  /\ UNCHANGED <<prog, code, raised, asleep, woken, created>>

\* Fault: sets the flag and wakes nobody.
SetPause_NoWake(t) ==
  /\ At(t, "setpause")
  /\ Free(Next_(t).on)
  /\ raised' = raised \cup {Next_(t).on}
  /\ Advance({t})
  /\ UNCHANGED <<prog, code, holding, asleep, woken, created>>

SetPause(t) ==
  /\ At(t, "setpause")
  /\ Free(Next_(t).on)
  /\ raised' = raised \cup {Next_(t).on}
  /\ woken' = woken \cup {u \in asleep : Next_(u).on = Next_(t).on}
  /\ asleep' = {u \in asleep : Next_(u).on # Next_(t).on}
  /\ Advance({t})
  /\ UNCHANGED <<prog, code, holding, created>>

\* Fault: returns without the mutex.
WaitPause_Release(t) ==
  /\ At(t, "waitpause")
  /\ t \notin asleep \cup woken
  /\ Free(Next_(t).on)
  /\ Next_(t).on \in raised
  /\ Advance({t})
  /\ UNCHANGED <<prog, code, holding, raised, asleep, woken, created>>

\* Fault: does not look at the flag.
WaitPause_NoTest(t) ==
  /\ At(t, "waitpause")
  /\ t \notin asleep \cup woken
  /\ Free(Next_(t).on)
  /\ holding' = holding \cup {<<Next_(t).on, t>>}
  /\ Advance({t})
  /\ UNCHANGED <<prog, code, raised, asleep, woken, created>>

\* The flag was set when the thread took the mutex ...
WaitPause(t) ==
  /\ At(t, "waitpause")
  /\ t \notin asleep \cup woken
  /\ Free(Next_(t).on)
  /\ Next_(t).on \in raised
  /\ holding' = holding \cup {<<Next_(t).on, t>>}
  /\ Advance({t})
  /\ UNCHANGED <<prog, code, raised, asleep, woken, created>>

\* ... or it was not, and the thread gives up the mutex with pthread_cond_wait.
Sleep(t) ==
  /\ At(t, "waitpause")
  /\ t \notin asleep \cup woken
  /\ Free(Next_(t).on)
  /\ Next_(t).on \notin raised
  /\ asleep' = asleep \cup {t}
  /\ UNCHANGED <<prog, code, pc, holding, raised, woken, created>>

\* Awake, with the mutex, and the flag is not tested again.
Resume(t) ==
  /\ t \in woken
  /\ Free(Next_(t).on)
  /\ woken' = woken \ {t}
  /\ holding' = holding \cup {<<Next_(t).on, t>>}
  /\ Advance({t})
  /\ UNCHANGED <<prog, code, raised, asleep, created>>

\* Fault: the flag stays set.
ClearPause_KeepsFlag(t) ==
  /\ At(t, "clearpause")
  /\ holding' = {h \in holding : h[1] # Next_(t).on}
  /\ Advance({t})
  /\ UNCHANGED <<prog, code, raised, asleep, woken, created>>

ClearPause(t) ==
  /\ At(t, "clearpause")
  /\ raised' = raised \ {Next_(t).on}
  /\ holding' = {h \in holding : h[1] # Next_(t).on}
  /\ Advance({t})
  /\ UNCHANGED <<prog, code, asleep, woken, created>>

Create ==
  /\ At(Main, "create")
  /\ created' = TRUE
  /\ Advance({Main})
  /\ UNCHANGED <<prog, code, holding, raised, asleep, woken>>

Begin(t) ==
  /\ At(t, "begin")
  /\ created
  /\ Advance({t})
  /\ UNCHANGED <<prog, code, holding, raised, asleep, woken, created>>

WaitForEnd ==
  /\ At(Main, "join")
  /\ \A t \in Workers : Done(t)
  /\ Advance({Main})
  /\ UNCHANGED <<prog, code, holding, raised, asleep, woken, created>>

\* exit(0): the only way not to move.
Finished == (\A t \in Threads : Done(t)) /\ UNCHANGED vars

Step(t) ==
  \/ DoWork(t) \/ Lock(t) \/ Unlock(t) \/ Begin(t)
  \/ SetPause(t) \/ WaitPause(t) \/ Sleep(t) \/ Resume(t) \/ ClearPause(t)

Next == (\E t \in Threads : Step(t)) \/ Barrier \/ Create \/ WaitForEnd \/ Finished

Spec == Init /\ [][Next]_vars

-----------------------------------------------------------------------------
(* Safety.                                                                  *)

Doing(t) == At(t, "work")

\* Two threads at work at the same time, on the same location, which one of them
\* writes, and not both with the same value.
RaceOn(t, u) == Conflict(Next_(t), Next_(u))

\* Whatever the interleaving, the programs have no data race but the known ones:
\* what a thread reads was written on the other side of a barrier, an event or a
\* mutex, and so was what it overwrites ...
NoOtherRace == \A t, u \in Threads : t < u /\ Doing(t) /\ Doing(u) => RaceOn(t, u) \subseteq KnownRaces(prog)

\* ... and they use no value before somebody has written it, but for the known cases.
ReadsAreDefined ==
  \A t \in Threads :
    Doing(t) /\ Next_(t).on = "memory" =>
      \A x \in Next_(t).reads \ (KnownRaces(prog) \cup KnownUndefined(prog)) :
        \E u \in Threads : x \in DOMAIN code[u].stored /\ code[u].stored[x] < pc[u]

\* A mutex has one owner, only the owner releases it, and nobody waits for the
\* others at a barrier, joins them or ends while it keeps one.
MutexesAreInOrder ==
  /\ \A g, h \in holding : g[1] = h[1] => g = h
  /\ \A t \in Threads : At(t, "unlock") \/ At(t, "clearpause") => <<Next_(t).on, t>> \in holding
  /\ \A t \in Threads : Done(t) \/ At(t, "barrier") \/ At(t, "join") => \A h \in holding : h[2] # t

\* What each action asks for before it can happen.
CanStep(t) ==
  \/ At(t, "work") \/ At(t, "unlock") \/ At(t, "clearpause")
  \/ At(t, "begin") /\ created
  \/ (At(t, "lock") \/ At(t, "setpause")) /\ Free(Next_(t).on)
  \/ At(t, "waitpause") /\ t \notin asleep /\ Free(Next_(t).on)

CanPass == \A t, u \in Workers : At(t, "barrier") /\ At(u, "barrier") /\ Next_(t).on = Next_(u).on
CanJoin == At(Main, "join") /\ \A t \in Workers : Done(t)

\* As long as a thread has something to do, some thread can move: all come to the
\* same barriers, every event waited for gets set, and no mutex is kept.  As every
\* step but Sleep brings a thread forward, the program ends if it is scheduled.
\* (That the guards are those of Next, TLC's check for deadlocks tells.)
NeverStuck ==
  \/ \A t \in Threads : Done(t)
  \/ \E t \in Threads : CanStep(t)
  \/ CanPass \/ At(Main, "create") \/ CanJoin

=============================================================================

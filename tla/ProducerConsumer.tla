-------------------------- MODULE ProducerConsumer --------------------------
(***************************************************************************)
(* The program of the report (src/src/app/app.cpp) under the simulator:    *)
(* main writes *data and starts a producer and two consumers, which access *)
(* it once per round inside the mutex mx.  Every access is a callback that *)
(* runs a handler of DIR_MSI and ends in the profile; a lock or unlock of  *)
(* the mutex reads and writes its word.  Threads are named by their        *)
(* processors: main 0, producer 1, consumers 2 and 3.                      *)
(*                                                                         *)
(* A thread that finds the mutex taken sleeps; the accesses of such vain   *)
(* attempts are left out.  Caches may evict the two words at any time, up  *)
(* to MaxEvictions times.  ROUND stands for the million rounds; the second  *)
(* consumer does fewer, ROUND3, which keeps the instance small.            *)
(***************************************************************************)
EXTENDS DirMSI, Profile

CONSTANTS ROUND, ROUND3, MaxEvictions

ASSUME AppAssumption ==
  /\ NumProcessors >= 4
  /\ ROUND \in Nat \ {0} /\ ROUND3 \in 1 .. ROUND
  /\ MaxEvictions \in Nat

Main      == 0
Producer  == 1
Consumer  == {2, 3}
AppThread == {Main, Producer} \cup Consumer
Workers   == AppThread \ {Main}
Nobody    == -1

Rounds(t) == IF t = 3 THEN ROUND3 ELSE ROUND

Mx    == 4                     \* the address of the mutex
Data  == 6                     \* the address *data
Addrs == {Mx, Data}

get_home_node(addr) == addr % NumProcessors

VARIABLES
  directory,   \* DIR_MSI::_directory
  profiles,    \* Profile::_profiles
  line_stat,   \* Profile::_line_stat
  mx,          \* who holds the mutex
  pc,          \* per thread: what it does next
  round,       \* per thread: the rounds it has done
  made,        \* per thread: the loads and stores it has made
  missed,      \* per thread: its load misses on *data
  lost,        \* the threads that evicted *data since they last accessed it
  evictions    \* the evictions so far

vars == <<directory, profiles, line_stat, mx, pc, round, made, missed, lost, evictions>>

Steps == {"new", "wait", "lock", "locked", "data", "unlock", "unlocked", "done"}

TypeOK ==
  /\ directory \in [Addrs -> Line]
  /\ DOMAIN profiles = Proc /\ \A p \in Proc : IsAccess_Stat(profiles[p])
  /\ DOMAIN line_stat = Addrs /\ \A a \in Addrs : IsAccess_Stat(line_stat[a])
  /\ mx \in AppThread \cup {Nobody}
  /\ pc \in [AppThread -> Steps]
  /\ round \in [Workers -> 0 .. ROUND]
  /\ made \in [AppThread -> [load : Nat, store : Nat]]
  /\ missed \in [AppThread -> Nat]
  /\ lost \in SUBSET AppThread
  /\ evictions \in 0 .. MaxEvictions

Init ==
  /\ directory = [a \in Addrs |-> Directory_Line]
  /\ profiles = [p \in Proc |-> Access_Stat]
  /\ line_stat = [a \in Addrs |-> Access_Stat]
  /\ mx = Nobody
  /\ pc = [t \in AppThread |-> IF t = Main THEN "new" ELSE "wait"]
  /\ round = [t \in Workers |-> 0]
  /\ made = [t \in AppThread |-> [load |-> 0, store |-> 0]]
  /\ missed = [t \in AppThread |-> 0]
  /\ lost = {}
  /\ evictions = 0

-----------------------------------------------------------------------------
\* process_read or process_write, down to the profile.
Access(t, kind, addr) ==
  LET r == IF kind = "load" THEN process_read(directory[addr], t, get_home_node(addr))
                            ELSE process_write(directory[addr], t, get_home_node(addr))
      booked == profile_cache_access(profiles, line_stat, kind, t, addr, r)
  IN
  /\ directory' = [directory EXCEPT ![addr] = r.line]
  /\ profiles' = booked.profiles
  /\ line_stat' = booked.line_stat
  /\ made' = [made EXCEPT ![t][kind] = @ + 1]
  /\ missed' = IF kind = "load" /\ addr = Data /\ r.response = "CACHE_MISS"
               THEN [missed EXCEPT ![t] = @ + 1] ELSE missed
  /\ lost' = IF addr = Data THEN lost \ {t} ELSE lost
  /\ UNCHANGED evictions

Goto(t, step) == pc' = [pc EXCEPT ![t] = step]

\* data = new DATA_T(...), and the threads are started.
NewData ==
  /\ pc[Main] = "new"
  /\ Access(Main, "store", Data)
  /\ pc' = [t \in AppThread |-> IF t = Main THEN "wait" ELSE "lock"]
  /\ UNCHANGED <<mx, round>>

LockMx(t) ==
  /\ pc[t] = "lock" /\ mx = Nobody
  /\ mx' = t
  /\ Access(t, "load", Mx)
  /\ Goto(t, "locked")
  /\ UNCHANGED round

LockedMx(t) ==
  /\ pc[t] = "locked"
  /\ Access(t, "store", Mx)
  /\ Goto(t, "data")
  /\ UNCHANGED <<mx, round>>

\* *data = i, or reader = *data.
UseData(t) ==
  /\ pc[t] = "data"
  /\ Access(t, IF t = Producer THEN "store" ELSE "load", Data)
  /\ Goto(t, "unlock")
  /\ UNCHANGED <<mx, round>>

UnlockMx(t) ==
  /\ pc[t] = "unlock"
  /\ Access(t, "load", Mx)
  /\ Goto(t, "unlocked")
  /\ UNCHANGED <<mx, round>>

\* Fault: the mutex stays locked at the end of a round.
UnlockedMx_Keep(t) ==
  /\ pc[t] = "unlocked"
  /\ Access(t, "store", Mx)
  /\ round' = [round EXCEPT ![t] = @ + 1]
  /\ Goto(t, IF round'[t] = Rounds(t) THEN "done" ELSE "lock")
  /\ UNCHANGED mx

\* The end of the scope of the lock_guard, and of the loop.
UnlockedMx(t) ==
  /\ pc[t] = "unlocked"
  /\ Access(t, "store", Mx)
  /\ mx' = Nobody
  /\ round' = [round EXCEPT ![t] = @ + 1]
  /\ Goto(t, IF round'[t] = Rounds(t) THEN "done" ELSE "lock")

\* main joins the three threads.
Join ==
  /\ pc[Main] = "wait" /\ \A t \in Workers : pc[t] = "done"
  /\ Goto(Main, "done")
  /\ UNCHANGED <<directory, profiles, line_stat, mx, round, made, missed, lost, evictions>>

\* Some other access of processor p displaces the line of addr.
Evict(p, addr) ==
  LET r    == invalidate(directory[addr], {p})
      home == get_home_node(addr)
      booked == profile_cache_evict(profiles, line_stat, p, addr,
                                    data_write_back(p, home), get_directory_hops(p, home))
  IN
  /\ is_set(directory[addr], p)
  /\ evictions < MaxEvictions
  /\ pc[Main] # "done"
  /\ directory' = [directory EXCEPT ![addr] = r.line]
  /\ profiles' = IF r.writeBack THEN booked.profiles ELSE profiles
  /\ line_stat' = IF r.writeBack THEN booked.line_stat ELSE line_stat
  /\ lost' = IF addr = Data THEN lost \cup {p} ELSE lost
  /\ evictions' = evictions + 1
  /\ UNCHANGED <<mx, pc, round, made, missed>>

Step(t) == LockMx(t) \/ LockedMx(t) \/ UseData(t) \/ UnlockMx(t) \/ UnlockedMx(t)

Terminated == pc[Main] = "done" /\ UNCHANGED vars

Next ==
  \/ NewData \/ Join
  \/ \E t \in Workers : Step(t)
  \/ \E p \in AppThread, a \in Addrs : Evict(p, a)
  \/ Terminated

\* The operating system runs every thread that can run.
Fairness == WF_vars(NewData) /\ WF_vars(Join) /\ \A t \in Workers : WF_vars(Step(t))

Spec == Init /\ [][Next]_vars /\ Fairness

-----------------------------------------------------------------------------
(* Safety.                                                                  *)

\* Hits and misses of a processor are the loads and stores its thread made, and the
\* report printed at the end is of the whole program: main's store and five accesses
\* of each round, three of them loads in a consumer's round.
ReportIsOfTheProgram ==
  /\ \A t \in AppThread : \A kind \in {"load", "store"} :
       profiles[t][kind].hits + profiles[t][kind].misses = made[t][kind]
  /\ pc[Main] = "done" =>
       LET report == Report(profiles)
           rounds == MapThenSumSet(Rounds, Workers)
       IN /\ report.all_hits + report.all_misses = 1 + 5 * rounds
          /\ report.all_loads = 2 * rounds + MapThenSumSet(Rounds, Consumer)

\* A qualified reader of *data misses only if its own cache evicted the word:
\* no store of the producer and no eviction by another cache takes it away.
QualifiedReadersHit ==
  [][\A c \in Consumer :
       Detector /\ missed'[c] > missed[c] /\ qualified_reader(directory[Data], c)
         => c \in lost]_vars

-----------------------------------------------------------------------------
(* Liveness.                                                                *)

\* The program ends: the mutex is given back in every round, so main joins all
\* three threads, and the report is printed.
Finishes == <>(pc[Main] = "done")

=============================================================================

------------------------ MODULE ProducerConsumerProofs ------------------------
(***************************************************************************)
(* Proofs about ProducerConsumer: the mutex keeps the threads apart, a     *)
(* qualified reader never loses its copy to the producer, and the counters *)
(* of the profile are those of the program, for any number of rounds and   *)
(* evictions.                                                              *)
(***************************************************************************)
EXTENDS ProducerConsumer, DirMSIProofs

-----------------------------------------------------------------------------
LEMMA ThreadsAreProcs == AppThread \subseteq Proc /\ \A a \in Addrs : get_home_node(a) \in Proc
  BY NumProcessorsAssumption, AppAssumption
  DEF AppThread, Main, Producer, Consumer, Proc, Addrs, Mx, Data, get_home_node

\* What one access of t to addr does.
Reaches(t, kind, addr) ==
  IF kind = "load" THEN process_read(directory[addr], t, get_home_node(addr))
                   ELSE process_write(directory[addr], t, get_home_node(addr))

-----------------------------------------------------------------------------
(* The directory.                                                          *)

DirInv ==
  /\ directory \in [Addrs -> Line]
  /\ \A a \in Addrs : CoherentLine(directory[a])

\* A qualified reader of *data that evicted nothing has its copy.
HitInv ==
  Detector => \A c \in Consumer :
    qualified_reader(directory[Data], c) /\ c \notin lost => is_set(directory[Data], c)

\* The handler of an access leaves the line in order, and the processor has it.
LEMMA AccessLine ==
  ASSUME DirInv, NEW t \in AppThread, NEW kind \in {"load", "store"}, NEW addr \in Addrs
  PROVE  LET r == Reaches(t, kind, addr) IN
         /\ r \in Reply
         /\ CoherentLine(r.line)
         /\ t \in r.line.sharer_vector
  <1> DEFINE d == directory[addr]
             home == get_home_node(addr)
  <1>1. d \in Line /\ CoherentLine(d) /\ t \in Proc /\ home \in Proc
    BY ThreadsAreProcs DEF DirInv
  <1>2. d.state = "INVALID" <=> d.sharer_vector = {}
    BY <1>1 DEF CoherentLine
  <1> HIDE DEF d, home
  <1>3. CASE kind = "load"
    <2> DEFINE r == process_read(d, t, home)
    <2>1. r \in Reply /\ r.line.sharer_vector = d.sharer_vector \cup {t}
      BY <1>1, <1>2, ReadLine
    <2>2. CoherentLine(r.line)
      BY <1>1, ReadIsCoherent
    <2> HIDE DEF r
    <2>3. Reaches(t, kind, addr) = r
      BY <1>3 DEF Reaches, r, d, home
    <2> QED
      BY <2>1, <2>2, <2>3
  <1>4. CASE kind = "store"
    <2> DEFINE w == process_write(d, t, home)
    <2>1. w \in Reply /\ w.line.sharer_vector = {t} \cup w.pushed
      BY <1>1, <1>2, WriteLine
    <2>2. CoherentLine(w.line)
      BY <1>1, WriteIsCoherent
    <2> HIDE DEF w
    <2>3. Reaches(t, kind, addr) = w
      BY <1>4 DEF Reaches, w, d, home
    <2> QED
      BY <2>1, <2>2, <2>3
  <1> QED
    BY <1>3, <1>4

LEMMA AccessDir ==
  ASSUME DirInv, NEW t \in AppThread, NEW kind \in {"load", "store"}, NEW addr \in Addrs,
         Access(t, kind, addr)
  PROVE  DirInv'
  <1>1. directory' = [directory EXCEPT ![addr] = Reaches(t, kind, addr).line]
    BY DEF Access, Reaches
  <1>2. Reaches(t, kind, addr).line \in Line /\ CoherentLine(Reaches(t, kind, addr).line)
    BY AccessLine DEF Reply
  <1> QED
    BY <1>1, <1>2 DEF DirInv

\* The copies of the qualified readers survive every access: the producer and
\* main, who alone store to *data, push it to them or forget their reads.
LEMMA AccessHit ==
  ASSUME DirInv, HitInv, NEW t \in AppThread, NEW kind \in {"load", "store"}, NEW addr \in Addrs,
         kind = "store" /\ addr = Data => t \notin Consumer,
         Access(t, kind, addr)
  PROVE  HitInv'
  <1> SUFFICES ASSUME Detector, NEW c \in Consumer,
                      qualified_reader(directory'[Data], c), c \notin lost'
               PROVE  c \in directory'[Data].sharer_vector
    BY DEF HitInv, is_set
  <1> DEFINE d == directory[Data]
             r == Reaches(t, kind, Data)
             home == get_home_node(Data)
  <1>0. Data \in Addrs /\ t \in Proc /\ c \in Proc /\ home \in Proc
    BY ThreadsAreProcs DEF Addrs, AppThread
  <1>1. d \in Line /\ CoherentLine(d)
    BY <1>0 DEF DirInv
  <1>2. d.state = "INVALID" <=> d.sharer_vector = {}
    BY <1>1 DEF CoherentLine
  <1>3. d.read_count[c] >= 2 /\ c \notin lost => c \in d.sharer_vector
    BY DEF HitInv, qualified_reader, is_set
  <1>4. CASE addr # Data
    <2>1. directory'[Data] = d /\ lost' = lost
      BY <1>0, <1>4 DEF Access, DirInv
    <2> QED
      BY <1>3, <2>1 DEF qualified_reader
  <1>5. CASE addr = Data
    <2>1. directory'[Data] = r.line /\ lost' = lost \ {t}
      BY <1>0, <1>5 DEF Access, DirInv, Reaches
    <2>2. t \in r.line.sharer_vector
      BY <1>0, AccessLine
    <2>3. r.line.read_count[c] >= 2
      BY <2>1 DEF qualified_reader
    <2>4. CASE c = t
      BY <2>1, <2>2, <2>4
    <2>5. CASE c # t /\ kind = "load"
      <3>1. r = process_read(d, t, home)
        BY <2>5 DEF Reaches
      <3> HIDE DEF r, d, home
      <3>2. /\ r.line.sharer_vector = d.sharer_vector \cup {t}
            /\ \/ r.line.read_count = d.read_count
               \/ r.line.read_count = [d.read_count EXCEPT ![t] = IF @ < 3 THEN @ + 1 ELSE @]
        BY <1>0, <1>1, <1>2, <3>1, ReadLine
      <3>3. d.read_count \in [Proc -> ReadCounts]
        BY <1>1 DEF Line
      <3>4. r.line.read_count[c] = d.read_count[c]
        BY <1>0, <2>5, <3>2, <3>3
      <3> QED
        BY <1>3, <2>1, <2>3, <2>5, <3>2, <3>4
    <2>6. CASE c # t /\ kind = "store"
      <3>1. r = process_write(d, t, home)
        BY <2>6 DEF Reaches
      <3> HIDE DEF r, d, home
      <3>2. /\ r.line.sharer_vector = {t} \cup r.pushed
            /\ \/ r.line.read_count = [p \in Proc |-> 0]
               \/ /\ d.state # "INVALID" /\ t = d.last_writer
                  /\ r.line.read_count = d.read_count
            /\ d.state # "INVALID" /\ t = d.last_writer => r.pushed = Consumers(d, t)
        BY <1>0, <1>1, <1>2, <3>1, WriteLine
      <3>3. r.line.read_count = d.read_count /\ r.pushed = Consumers(d, t)
        BY <1>0, <2>3, <3>2
      <3>4. c \in Consumers(d, t)
        BY <1>0, <2>3, <2>6, <3>3 DEF Consumers, qualified_reader
      <3> QED
        BY <2>1, <3>2, <3>3, <3>4
    <2> QED
      BY <2>4, <2>5, <2>6
  <1> QED
    BY <1>4, <1>5

LEMMA EvictDir ==
  ASSUME DirInv, HitInv, NEW p \in AppThread, NEW addr \in Addrs, Evict(p, addr)
  PROVE  DirInv' /\ HitInv'
  <1> DEFINE r == invalidate(directory[addr], {p})
  <1>1. directory[addr] \in Line /\ CoherentLine(directory[addr]) /\ {p} \in SUBSET Proc
    BY ThreadsAreProcs DEF DirInv
  <1>2. /\ r.line \in Line /\ CoherentLine(r.line)
        /\ r.line.sharer_vector = directory[addr].sharer_vector \ {p}
        /\ r.line.read_count = directory[addr].read_count
    BY <1>1, InvalidateIsCoherent, InvalidateLine
  <1>3. /\ directory' = [directory EXCEPT ![addr] = r.line]
        /\ lost' = IF addr = Data THEN lost \cup {p} ELSE lost
    BY DEF Evict
  <1> HIDE DEF r
  <1>4. DirInv'
    BY <1>2, <1>3 DEF DirInv
  <1>5. HitInv'
    <2> SUFFICES ASSUME Detector, NEW c \in Consumer,
                        qualified_reader(directory'[Data], c), c \notin lost'
                 PROVE  c \in directory'[Data].sharer_vector
      BY DEF HitInv, is_set
    <2>1. directory'[Data] = IF addr = Data THEN r.line ELSE directory[Data]
      BY <1>3 DEF DirInv, Addrs
    <2>2. qualified_reader(directory[Data], c) /\ c \notin lost
      BY <1>2, <1>3, <2>1 DEF qualified_reader
    <2>3. c \in directory[Data].sharer_vector
      BY <2>2 DEF HitInv, is_set
    <2> QED
      BY <1>2, <1>3, <2>1, <2>3
  <1> QED
    BY <1>4, <1>5

-----------------------------------------------------------------------------
(* The threads.                                                            *)

InSection(t) == pc[t] \in {"locked", "data", "unlock", "unlocked"}

\* The workers wait until main has written *data, and who is between a lock and
\* an unlock has the mutex, and nobody else has.
ThreadInv ==
  /\ pc \in [AppThread -> Steps]
  /\ round \in [Workers -> Nat]
  /\ pc[Main] \in {"new", "wait", "done"}
  /\ \A t \in Workers : /\ pc[t] # "new"
                        /\ pc[t] = "wait" <=> pc[Main] = "new"
                        /\ IF pc[t] = "done" THEN round[t] = Rounds(t) ELSE round[t] < Rounds(t)
  /\ pc[Main] = "done" => \A t \in Workers : pc[t] = "done"
  /\ \A t \in AppThread : InSection(t) <=> mx = t

LEMMA MainIsNoWorker ==
  /\ Main \in AppThread /\ Main \notin Workers
  /\ Nobody \notin AppThread
  /\ Workers \subseteq AppThread /\ AppThread = Workers \cup {Main}
  /\ \A t \in Workers : Rounds(t) \in Nat \ {0}
  BY AppAssumption DEF Workers, AppThread, Main, Producer, Consumer, Nobody, Rounds

\* A step of a worker that moves its pc and does not end its round.
LEMMA GotoThread ==
  ASSUME ThreadInv, NEW t \in Workers, NEW step \in {"locked", "data", "unlock", "unlocked"},
         pc[t] \notin {"wait", "done"}, Goto(t, step), UNCHANGED round,
         mx' = t, mx \in {t, Nobody}
  PROVE  ThreadInv'
  <1>1. /\ pc' = [pc EXCEPT ![t] = step]
        /\ pc' \in [AppThread -> Steps]
    BY MainIsNoWorker DEF Goto, ThreadInv, Steps
  <1>2. \A u \in AppThread : pc'[u] = IF u = t THEN step ELSE pc[u]
    BY <1>1 DEF ThreadInv
  <1>3. \A u \in AppThread : InSection(u)' <=> mx' = u
    BY <1>2, MainIsNoWorker DEF ThreadInv, InSection
  <1>4. \A u \in Workers :
          /\ pc'[u] # "new"
          /\ pc'[u] = "wait" <=> pc'[Main] = "new"
          /\ IF pc'[u] = "done" THEN round'[u] = Rounds(u) ELSE round'[u] < Rounds(u)
    BY <1>2, MainIsNoWorker DEF ThreadInv
  <1> QED
    BY <1>1, <1>2, <1>3, <1>4, MainIsNoWorker DEF ThreadInv

LEMMA NextThread ==
  ASSUME ThreadInv, [Next]_vars
  PROVE  ThreadInv'
  <1>1. CASE NewData
    <2>1. /\ pc[Main] = "new"
          /\ pc' = [t \in AppThread |-> IF t = Main THEN "wait" ELSE "lock"]
          /\ UNCHANGED <<mx, round>>
      BY <1>1 DEF NewData
    <2>2. pc' \in [AppThread -> Steps]
      BY <2>1 DEF Steps
    <2>3. \A t \in Workers : pc[t] = "wait" /\ round[t] < Rounds(t)
      BY <2>1 DEF ThreadInv
    <2>4. \A t \in AppThread : ~InSection(t) /\ ~InSection(t)'
      BY <2>1, <2>3, MainIsNoWorker DEF InSection
    <2> QED
      BY <2>1, <2>2, <2>3, <2>4, MainIsNoWorker DEF ThreadInv
  <1>2. CASE Join
    <2>1. /\ pc[Main] = "wait"
          /\ \A t \in Workers : pc[t] = "done"
          /\ pc' = [pc EXCEPT ![Main] = "done"]
          /\ UNCHANGED <<mx, round>>
      BY <1>2 DEF Join, Goto
    <2>2. pc' \in [AppThread -> Steps]
      BY <2>1 DEF Steps, ThreadInv
    <2>3. \A t \in AppThread : pc'[t] = IF t = Main THEN "done" ELSE pc[t]
      BY <2>1 DEF ThreadInv
    <2>4. \A t \in AppThread : InSection(t)' <=> InSection(t)
      BY <2>1, <2>3 DEF InSection
    <2> QED
      BY <2>1, <2>2, <2>3, <2>4, MainIsNoWorker DEF ThreadInv
  <1>3. ASSUME NEW t \in Workers, Step(t)
        PROVE  ThreadInv'
    <2>1. CASE LockMx(t)
      BY <2>1, GotoThread DEF LockMx
    <2>2. CASE LockedMx(t)
      <3>1. mx = t
        BY <2>2, MainIsNoWorker DEF LockedMx, ThreadInv, InSection
      <3> QED
        BY <2>2, <3>1, GotoThread DEF LockedMx
    <2>3. CASE UseData(t)
      <3>1. mx = t
        BY <2>3, MainIsNoWorker DEF UseData, ThreadInv, InSection
      <3> QED
        BY <2>3, <3>1, GotoThread DEF UseData
    <2>4. CASE UnlockMx(t)
      <3>1. mx = t
        BY <2>4, MainIsNoWorker DEF UnlockMx, ThreadInv, InSection
      <3> QED
        BY <2>4, <3>1, GotoThread DEF UnlockMx
    <2>5. CASE UnlockedMx(t)
      <3>1. /\ pc[t] = "unlocked"
            /\ mx' = Nobody
            /\ round' = [round EXCEPT ![t] = @ + 1]
            /\ pc' = [pc EXCEPT ![t] = IF round'[t] = Rounds(t) THEN "done" ELSE "lock"]
        BY <2>5 DEF UnlockedMx, Goto
      <3>2. /\ mx = t
            /\ round[t] < Rounds(t) /\ round[t] \in Nat
            /\ pc[Main] # "new"
        BY <3>1, MainIsNoWorker DEF ThreadInv, InSection
      <3>3. /\ \A u \in Workers : round'[u] = IF u = t THEN round[t] + 1 ELSE round[u]
            /\ round' \in [Workers -> Nat]
        BY <3>1, <3>2 DEF ThreadInv
      <3>4. round'[t] < Rounds(t) \/ round'[t] = Rounds(t)
        BY <3>2, <3>3, MainIsNoWorker
      <3>5. \A u \in AppThread :
              pc'[u] = IF u # t THEN pc[u]
                       ELSE IF round'[t] = Rounds(t) THEN "done" ELSE "lock"
        BY <3>1 DEF ThreadInv
      <3>6. pc' \in [AppThread -> Steps]
        BY <3>1 DEF ThreadInv, Steps
      <3>7. \A u \in AppThread : InSection(u)' <=> mx' = u
        BY <3>1, <3>2, <3>5, MainIsNoWorker DEF ThreadInv, InSection
      <3>8. \A u \in Workers :
              /\ pc'[u] # "new"
              /\ pc'[u] = "wait" <=> pc'[Main] = "new"
              /\ IF pc'[u] = "done" THEN round'[u] = Rounds(u) ELSE round'[u] < Rounds(u)
        BY <3>1, <3>2, <3>3, <3>4, <3>5, MainIsNoWorker DEF ThreadInv
      <3> QED
        BY <3>3, <3>5, <3>6, <3>7, <3>8, MainIsNoWorker DEF ThreadInv
    <2> QED
      BY <1>3, <2>1, <2>2, <2>3, <2>4, <2>5 DEF Step
  <1>4. ASSUME NEW p \in AppThread, NEW a \in Addrs, Evict(p, a)
        PROVE  ThreadInv'
    BY <1>4 DEF Evict, ThreadInv, InSection
  <1>5. CASE UNCHANGED vars
    BY <1>5 DEF vars, ThreadInv, InSection
  <1> QED
    BY <1>1, <1>2, <1>3, <1>4, <1>5 DEF Next, Terminated

-----------------------------------------------------------------------------
(* The counters.                                                           *)

Kinds == {"load", "store"}

Booked(p, kind) == profiles[p][kind].hits + profiles[p][kind].misses

\* The profile counts what the threads made, and nothing for the processors that
\* run none.
ProfileInv ==
  /\ DOMAIN profiles = Proc
  /\ \A p \in Proc : IsAccess_Stat(profiles[p])
  /\ made \in [AppThread -> [load : Nat, store : Nat]]
  /\ missed \in [AppThread -> Nat]
  /\ \A t \in AppThread, kind \in Kinds : Booked(t, kind) = made[t][kind]
  /\ \A p \in Proc \ AppThread, kind \in Kinds : Booked(p, kind) = 0

LEMMA TallyStat ==
  ASSUME NEW s, IsStat(s), NEW response, NEW cost \in Nat, NEW hops \in Nat
  PROVE  LET u == tally(s, response, cost, hops) IN
         /\ IsStat(u)
         /\ u.hits + u.misses = s.hits + s.misses + 1
  <1>1. DOMAIN Stat = {"hits", "misses", "hit_cycles", "miss_cycles", "hops"}
    BY DEF Stat
  <1>2. s \in [{"hits", "misses", "hit_cycles", "miss_cycles", "hops"} -> Nat]
    BY <1>1 DEF IsStat
  <1> DEFINE u == tally(s, response, cost, hops)
  <1>3. CASE response = "CACHE_HIT"
    <2>1. u = [s EXCEPT !.hits = @ + 1, !.hit_cycles = @ + cost, !.hops = @ + hops]
      BY <1>3 DEF tally
    <2> HIDE DEF u
    <2>2. /\ u = [k \in {"hits", "misses", "hit_cycles", "miss_cycles", "hops"} |-> u[k]]
          /\ u.hits = s.hits + 1 /\ u.misses = s.misses
          /\ u.hit_cycles = s.hit_cycles + cost /\ u.miss_cycles = s.miss_cycles
          /\ u.hops = s.hops + hops
      BY <1>2, <2>1
    <2>3. u \in [{"hits", "misses", "hit_cycles", "miss_cycles", "hops"} -> Nat]
      BY <1>2, <2>2
    <2> QED
      BY <1>1, <1>2, <2>2, <2>3 DEF IsStat, u
  <1>4. CASE response # "CACHE_HIT"
    <2>1. u = [s EXCEPT !.misses = @ + 1, !.miss_cycles = @ + cost, !.hops = @ + hops]
      BY <1>4 DEF tally
    <2> HIDE DEF u
    <2>2. /\ u = [k \in {"hits", "misses", "hit_cycles", "miss_cycles", "hops"} |-> u[k]]
          /\ u.hits = s.hits /\ u.misses = s.misses + 1
          /\ u.hit_cycles = s.hit_cycles /\ u.miss_cycles = s.miss_cycles + cost
          /\ u.hops = s.hops + hops
      BY <1>2, <2>1
    <2>3. u \in [{"hits", "misses", "hit_cycles", "miss_cycles", "hops"} -> Nat]
      BY <1>2, <2>2
    <2> QED
      BY <1>1, <1>2, <2>2, <2>3 DEF IsStat, u
  <1> QED
    BY <1>3, <1>4

\* One counter of one processor tallied.
Tallied(pid, kind, response, cost, hops) ==
  profiles' = [profiles EXCEPT ![pid][kind] = tally(@, response, cost, hops)]

\* What follows: the profiles keep their shape and that one counter has one more access.
OneMoreIn(pid, kind) ==
  /\ DOMAIN profiles' = Proc
  /\ \A p \in Proc : IsAccess_Stat(profiles'[p])
  /\ \A p \in Proc, k \in Kinds :
       Booked(p, k)' = IF p = pid /\ k = kind THEN Booked(p, k) + 1 ELSE Booked(p, k)

WellFormedProfiles == DOMAIN profiles = Proc /\ \A p \in Proc : IsAccess_Stat(profiles[p])

\* Tallying one counter keeps the others as they are.
LEMMA TallyProfiles ==
  ASSUME WellFormedProfiles,
         NEW pid \in Proc, NEW kind \in {"load", "store", "evict"},
         NEW response, NEW cost \in Nat, NEW hops \in Nat,
         Tallied(pid, kind, response, cost, hops)
  PROVE  OneMoreIn(pid, kind)
  <1> DEFINE u == tally(profiles[pid][kind], response, cost, hops)
  <1>1. DOMAIN Access_Stat = {"load", "store", "evict", "count"}
    BY DEF Access_Stat
  <1>2. /\ DOMAIN profiles[pid] = {"load", "store", "evict", "count"}
        /\ IsStat(profiles[pid][kind])
    BY <1>1 DEF WellFormedProfiles, IsAccess_Stat
  <1>3. IsStat(u) /\ u.hits + u.misses = profiles[pid][kind].hits + profiles[pid][kind].misses + 1
    BY <1>2, TallyStat
  <1>4. profiles' = [profiles EXCEPT ![pid] = [profiles[pid] EXCEPT ![kind] = u]]
    BY DEF Tallied
  <1> HIDE DEF u
  <1> DEFINE q == [profiles[pid] EXCEPT ![kind] = u]
  <1>5. /\ DOMAIN q = {"load", "store", "evict", "count"}
        /\ \A k \in {"load", "store", "evict", "count"} :
             q[k] = IF k = kind THEN u ELSE profiles[pid][k]
    BY <1>2
  <1> HIDE DEF q
  <1>6. /\ DOMAIN profiles' = Proc
        /\ \A p \in Proc : profiles'[p] = IF p = pid THEN q ELSE profiles[p]
    BY <1>4 DEF q, WellFormedProfiles
  <1>7. IsAccess_Stat(q)
    <2>1. IsAccess_Stat(profiles[pid])
      BY DEF WellFormedProfiles
    <2>2. q["count"] = profiles[pid]["count"]
      BY <1>5
    <2>3. \A k \in {"load", "store", "evict"} : IsStat(q[k])
      BY <1>3, <1>5, <2>1 DEF IsAccess_Stat
    <2> QED
      BY <1>1, <1>5, <2>1, <2>2, <2>3 DEF IsAccess_Stat
  <1>8. \A p \in Proc : IsAccess_Stat(profiles'[p])
    BY <1>6, <1>7 DEF WellFormedProfiles
  <1>9. ASSUME NEW p \in Proc, NEW k \in Kinds
        PROVE  Booked(p, k)' = IF p = pid /\ k = kind THEN Booked(p, k) + 1 ELSE Booked(p, k)
    <2>1. CASE p = pid /\ k = kind
      BY <1>3, <1>5, <1>6, <2>1 DEF Booked, Kinds
    <2>2. CASE p = pid /\ k # kind
      BY <1>5, <1>6, <2>2 DEF Booked, Kinds
    <2>3. CASE p # pid
      BY <1>6, <2>3 DEF Booked
    <2> QED
      BY <2>1, <2>2, <2>3
  <1> QED
    BY <1>6, <1>8, <1>9 DEF OneMoreIn

LEMMA AccessProfile ==
  ASSUME DirInv, ProfileInv, NEW t \in AppThread, NEW kind \in Kinds, NEW addr \in Addrs,
         Access(t, kind, addr)
  PROVE  /\ ProfileInv'
         /\ made' = [made EXCEPT ![t][kind] = @ + 1]
  <1> DEFINE r == Reaches(t, kind, addr)
  <1>1. r \in Reply /\ t \in Proc
    BY AccessLine, ThreadsAreProcs DEF Kinds
  <1>2. r.cost \in Nat /\ r.hops \in Nat
    BY <1>1 DEF Reply
  <1>3. /\ profiles' = [profiles EXCEPT ![t][kind] = tally(@, r.response, r.cost, r.hops)]
        /\ made' = [made EXCEPT ![t][kind] = @ + 1]
    BY DEF Access, profile_cache_access, Reaches
  <1>8. missed' \in [AppThread -> Nat]
    BY DEF Access, ProfileInv
  <1> HIDE DEF r
  <1>4. OneMoreIn(t, kind)
    <2>1. kind \in {"load", "store", "evict"}
      BY DEF Kinds
    <2>2. WellFormedProfiles
      BY DEF ProfileInv, WellFormedProfiles
    <2>3. Tallied(t, kind, r.response, r.cost, r.hops)
      BY <1>3 DEF Tallied
    <2>4. t \in Proc
      BY <1>1
    <2> QED
      BY <1>2, <2>1, <2>2, <2>3, <2>4, TallyProfiles
  <1>5. /\ made' \in [AppThread -> [load : Nat, store : Nat]]
        /\ \A u \in AppThread, k \in Kinds :
             made'[u][k] = IF u = t /\ k = kind THEN made[u][k] + 1 ELSE made[u][k]
    BY <1>3 DEF ProfileInv, Kinds
  <1>6. \A u \in AppThread, k \in Kinds : Booked(u, k)' = made'[u][k]
    BY <1>4, <1>5, ThreadsAreProcs DEF ProfileInv, OneMoreIn
  <1>7. \A p \in Proc \ AppThread, k \in Kinds : Booked(p, k)' = 0
    BY <1>4 DEF ProfileInv, OneMoreIn
  <1>9. DOMAIN profiles' = Proc /\ \A p \in Proc : IsAccess_Stat(profiles'[p])
    BY <1>4 DEF OneMoreIn
  <1> QED
    BY <1>3, <1>5, <1>6, <1>7, <1>8, <1>9 DEF ProfileInv

LEMMA EvictProfile ==
  ASSUME ProfileInv, NEW p \in AppThread, NEW addr \in Addrs, Evict(p, addr)
  PROVE  ProfileInv' /\ UNCHANGED <<made, missed>>
  <1> DEFINE home == get_home_node(addr)
             cost == data_write_back(p, home)
             hops == get_directory_hops(p, home)
  <1>1. UNCHANGED <<made, missed>>
    BY DEF Evict
  <1>2. CASE UNCHANGED profiles
    BY <1>1, <1>2 DEF ProfileInv, Booked
  <1>3. CASE profiles' = [profiles EXCEPT ![p].evict = tally(@, "CACHE_MISS", cost, hops)]
    <2>1. cost \in Nat /\ hops \in Nat
      BY DEF data_write_back, get_directory_cost, get_directory_hops,
             LOCAL_CACHE_ACCESS, REMOTE_CACHE_ACCESS, MEMORY_ACCESS
    <2>5. Tallied(p, "evict", "CACHE_MISS", cost, hops)
      BY <1>3 DEF Tallied
    <2>6. p \in Proc
      BY ThreadsAreProcs
    <2>7. WellFormedProfiles
      BY DEF ProfileInv, WellFormedProfiles
    <2> HIDE DEF cost, hops
    <2>2. OneMoreIn(p, "evict")
      BY <2>1, <2>5, <2>6, <2>7, TallyProfiles
    <2>3. \A q \in Proc, k \in Kinds : Booked(q, k)' = Booked(q, k)
      BY <2>2 DEF Kinds, OneMoreIn
    <2>4. DOMAIN profiles' = Proc /\ \A q \in Proc : IsAccess_Stat(profiles'[q])
      BY <2>2 DEF OneMoreIn
    <2> QED
      BY <1>1, <2>3, <2>4, ThreadsAreProcs DEF ProfileInv
  <1> QED
    BY <1>1, <1>2, <1>3 DEF Evict, profile_cache_evict

\* The access to *data, and how often a kind of access is made in a round.
Uses(t) == IF t = Producer THEN "store" ELSE "load"

PerRound(t, kind) == IF kind = Uses(t) THEN 3 ELSE 2

\* The accesses of the current round that are made when the thread is at step.
InRound(t, kind, step) ==
  (IF kind = Uses(t) /\ step \in {"unlock", "unlocked"} THEN 1 ELSE 0)
  + (IF kind = "load"
     THEN IF step = "unlocked" THEN 2 ELSE IF step \in {"locked", "data", "unlock"} THEN 1 ELSE 0
     ELSE IF step \in {"data", "unlock", "unlocked"} THEN 1 ELSE 0)

MadeInv ==
  /\ made[Main].load = 0
  /\ made[Main].store = IF pc[Main] = "new" THEN 0 ELSE 1
  /\ \A t \in Workers, kind \in Kinds :
       made[t][kind] = PerRound(t, kind) * round[t] + InRound(t, kind, pc[t])

\* A worker's access that its program counter counts as well.
LEMMA StepMade ==
  ASSUME ThreadInv, ProfileInv, MadeInv, NEW t \in Workers, NEW kind \in Kinds, NEW step \in Steps,
         made' = [made EXCEPT ![t][kind] = @ + 1], Goto(t, step), UNCHANGED round,
         \A k \in Kinds : InRound(t, k, step)
                            = InRound(t, k, pc[t]) + IF k = kind THEN 1 ELSE 0
  PROVE  MadeInv'
  <1>1. \A u \in AppThread : pc'[u] = IF u = t THEN step ELSE pc[u]
    BY DEF Goto, ThreadInv
  <1>2. \A u \in AppThread, k \in Kinds :
          made'[u][k] = IF u = t /\ k = kind THEN made[u][k] + 1 ELSE made[u][k]
    BY DEF ProfileInv, Kinds
  <1>3. made'[Main].load = 0 /\ made'[Main].store = IF pc'[Main] = "new" THEN 0 ELSE 1
    <2>1. made'[Main]["load"] = made[Main]["load"] /\ made'[Main]["store"] = made[Main]["store"]
      BY <1>2, MainIsNoWorker DEF Kinds
    <2>2. pc'[Main] = pc[Main]
      BY <1>1, MainIsNoWorker
    <2> QED
      BY <2>1, <2>2 DEF MadeInv
  <1>4. ASSUME NEW u \in Workers, NEW k \in Kinds
        PROVE  made'[u][k] = PerRound(u, k) * round'[u] + InRound(u, k, pc'[u])
    <2>0. /\ u \in AppThread /\ round[u] \in Nat /\ PerRound(u, k) \in Nat
          /\ \A s : InRound(u, k, s) \in Nat
      BY MainIsNoWorker DEF ThreadInv, PerRound, InRound
    <2> DEFINE x == PerRound(u, k) * round[u]
    <2>1. x \in Nat /\ made[u][k] = x + InRound(u, k, pc[u]) /\ round'[u] = round[u]
      BY <2>0 DEF MadeInv
    <2> HIDE DEF x
    <2>2. CASE u = t
      <3>1. /\ InRound(u, k, pc'[u]) = InRound(u, k, pc[u]) + IF k = kind THEN 1 ELSE 0
            /\ made'[u][k] = made[u][k] + IF k = kind THEN 1 ELSE 0
        BY <1>1, <1>2, <2>0, <2>1, <2>2
      <3>2. made'[u][k] = x + InRound(u, k, pc'[u])
        BY <2>0, <2>1, <3>1
      <3> QED
        BY <2>1, <3>2 DEF x
    <2>3. CASE u # t
      <3>1. pc'[u] = pc[u] /\ made'[u][k] = made[u][k]
        BY <1>1, <1>2, <2>0, <2>3
      <3> QED
        BY <2>1, <3>1 DEF x
    <2> QED
      BY <2>2, <2>3
  <1> QED
    BY <1>3, <1>4 DEF MadeInv

\* The last access of a round ends it.
LEMMA UnlockedMade ==
  ASSUME ThreadInv, ProfileInv, MadeInv, NEW t \in Workers, UnlockedMx(t),
         made' = [made EXCEPT ![t]["store"] = @ + 1]
  PROVE  MadeInv'
  <1>1. /\ pc[t] = "unlocked"
        /\ round' = [round EXCEPT ![t] = @ + 1]
        /\ pc' = [pc EXCEPT ![t] = IF round'[t] = Rounds(t) THEN "done" ELSE "lock"]
    BY DEF UnlockedMx, Goto
  <1>2. \A u \in AppThread : /\ u # t => pc'[u] = pc[u]
                             /\ u = t => pc'[u] \in {"done", "lock"}
    BY <1>1 DEF ThreadInv
  <1>3. \A u \in Workers : round'[u] = (IF u = t THEN round[u] + 1 ELSE round[u]) /\ round[u] \in Nat
    BY <1>1 DEF ThreadInv
  <1>4. \A u \in AppThread, k \in Kinds :
          made'[u][k] = IF u = t /\ k = "store" THEN made[u][k] + 1 ELSE made[u][k]
    BY DEF ProfileInv, Kinds
  <1>5. made'[Main].load = 0 /\ made'[Main].store = IF pc'[Main] = "new" THEN 0 ELSE 1
    <2>1. made'[Main]["load"] = made[Main]["load"] /\ made'[Main]["store"] = made[Main]["store"]
      BY <1>4, MainIsNoWorker DEF Kinds
    <2>2. pc'[Main] = pc[Main]
      BY <1>2, MainIsNoWorker
    <2> QED
      BY <2>1, <2>2 DEF MadeInv
  <1>6. ASSUME NEW u \in Workers, NEW k \in Kinds
        PROVE  made'[u][k] = PerRound(u, k) * round'[u] + InRound(u, k, pc'[u])
    <2>0. u \in AppThread /\ made[u][k] = PerRound(u, k) * round[u] + InRound(u, k, pc[u])
      BY MainIsNoWorker DEF MadeInv
    <2>1. CASE u = t
      <3>1. InRound(u, k, pc'[u]) = 0
        BY <1>2, <2>0, <2>1 DEF InRound
      <3>2. InRound(u, k, pc[u]) + (IF k = "store" THEN 1 ELSE 0) = PerRound(u, k)
        BY <1>1, <2>1 DEF InRound, PerRound, Kinds
      <3>3. PerRound(u, k) * (round[u] + 1) = PerRound(u, k) * round[u] + PerRound(u, k)
        BY <1>3 DEF PerRound
      <3>5. /\ PerRound(u, k) * round[u] \in Nat
            /\ InRound(u, k, pc[u]) \in Nat
            /\ made[u][k] \in Nat
        BY <1>3, <2>0 DEF PerRound, InRound
      <3>4. /\ made'[u][k] = made[u][k] + (IF k = "store" THEN 1 ELSE 0)
            /\ round'[u] = round[u] + 1
        BY <1>3, <1>4, <2>0, <2>1, <3>5
      <3> HIDE DEF Kinds
      <3> QED
        BY <2>0, <3>1, <3>2, <3>3, <3>4, <3>5
    <2>2. CASE u # t
      <3>1. pc'[u] = pc[u] /\ made'[u][k] = made[u][k] /\ round'[u] = round[u]
        BY <1>2, <1>3, <1>4, <2>0, <2>2
      <3> QED
        BY <2>0, <3>1
    <2> QED
      BY <2>1, <2>2
  <1> QED
    BY <1>5, <1>6 DEF MadeInv

-----------------------------------------------------------------------------
(* The invariant.                                                          *)

Inv == DirInv /\ HitInv /\ ThreadInv /\ ProfileInv /\ MadeInv

LEMMA InitInv == Init => Inv
  <1> SUFFICES ASSUME Init PROVE Inv
    OBVIOUS
  <1>1. DirInv
    <2>1. [p \in Proc |-> 0] \in [Proc -> ReadCounts]
      BY DEF ReadCounts
    <2>2. Directory_Line \in Line /\ CoherentLine(Directory_Line)
      BY <2>1 DEF Directory_Line, Line, CACHE_STATE, CoherentLine
    <2> QED
      BY <2>2 DEF Init, DirInv
  <1>2. HitInv
    <2>1. \A c \in Consumer : directory[Data].read_count[c] = 0
      BY ThreadsAreProcs DEF Init, Directory_Line, Addrs, AppThread
    <2> QED
      BY <2>1 DEF HitInv, qualified_reader
  <1>3. ThreadInv
    <2>1. \A t \in AppThread : ~InSection(t) /\ mx # t
      BY MainIsNoWorker DEF Init, InSection
    <2> QED
      BY <2>1, MainIsNoWorker DEF Init, ThreadInv, Steps
  <1>4. ProfileInv
    <2>1. IsAccess_Stat(Access_Stat)
      BY DEF IsAccess_Stat, IsStat, Access_Stat, Stat
    <2>2. \A k \in Kinds : Access_Stat[k].hits = 0 /\ Access_Stat[k].misses = 0
      BY DEF Kinds, Access_Stat, Stat
    <2>3. \A p \in Proc, k \in Kinds : Booked(p, k) = 0
      BY <2>2 DEF Init, Booked
    <2>4. \A t \in AppThread, k \in Kinds : made[t][k] = 0
      BY DEF Init, Kinds
    <2> QED
      BY <2>1, <2>3, <2>4, ThreadsAreProcs DEF Init, ProfileInv
  <1>5. MadeInv
    <2>1. \A t \in AppThread : made[t].load = 0 /\ made[t].store = 0
      BY DEF Init
    <2>2. \A t \in Workers, k \in Kinds : InRound(t, k, "wait") = 0 /\ PerRound(t, k) * 0 = 0
      BY DEF InRound, PerRound
    <2>3. \A t \in Workers : pc[t] = "wait" /\ round[t] = 0
      BY MainIsNoWorker DEF Init
    <2>4. \A t \in Workers, k \in Kinds : made[t][k] = 0
      BY <2>1, MainIsNoWorker DEF Kinds
    <2>5. pc[Main] = "new"
      BY MainIsNoWorker DEF Init
    <2> QED
      BY <2>1, <2>2, <2>3, <2>4, <2>5, MainIsNoWorker DEF MadeInv
  <1> QED
    BY <1>1, <1>2, <1>3, <1>4, <1>5 DEF Inv

LEMMA NextInv == Inv /\ [Next]_vars => Inv'
  <1> SUFFICES ASSUME Inv, [Next]_vars PROVE Inv'
    OBVIOUS
  <1> USE DEF Inv
  <1>0. ThreadInv'
    BY NextThread
  <1>1. CASE NewData
    <2>1. Access(Main, "store", Data) /\ Main \in AppThread /\ Main \notin Consumer /\ Data \in Addrs
      BY <1>1, MainIsNoWorker DEF NewData, Addrs, Main, Consumer
    <2>2. DirInv' /\ HitInv'
      BY <2>1, AccessDir, AccessHit
    <2>3. ProfileInv' /\ made' = [made EXCEPT ![Main]["store"] = @ + 1]
      BY <2>1, AccessProfile DEF Kinds
    <2>4. MadeInv'
      <3>1. /\ pc[Main] = "new" /\ UNCHANGED round
            /\ pc' = [t \in AppThread |-> IF t = Main THEN "wait" ELSE "lock"]
        BY <1>1 DEF NewData
      <3>2. /\ made'[Main].load = 0 /\ made'[Main].store = 1
            /\ \A t \in Workers : made'[t] = made[t]
        BY <2>3, <3>1, MainIsNoWorker DEF MadeInv, ProfileInv
      <3>3. /\ pc'[Main] = "wait"
            /\ \A t \in Workers : pc[t] = "wait" /\ pc'[t] = "lock"
        BY <3>1, MainIsNoWorker DEF ThreadInv
      <3>4. \A t, k : InRound(t, k, "wait") = InRound(t, k, "lock")
        BY DEF InRound
      <3> QED
        BY <3>1, <3>2, <3>3, <3>4 DEF MadeInv
    <2> QED
      BY <1>0, <2>2, <2>3, <2>4
  <1>2. CASE Join
    <2>1. /\ UNCHANGED <<directory, profiles, round, made, missed, lost>>
          /\ pc[Main] = "wait" /\ pc' = [pc EXCEPT ![Main] = "done"]
          /\ \A t \in Workers : pc[t] = "done"
      BY <1>2 DEF Join, Goto
    <2>2. /\ pc'[Main] = "done"
          /\ \A t \in Workers : pc'[t] = pc[t]
      BY <2>1, MainIsNoWorker DEF ThreadInv
    <2>3. MadeInv'
      BY <2>1, <2>2 DEF MadeInv
    <2> QED
      BY <1>0, <2>1, <2>3 DEF DirInv, HitInv, ProfileInv, Booked
  <1>3. ASSUME NEW t \in Workers, Step(t)
        PROVE  Inv'
    <2>0. t \in AppThread /\ Mx \in Addrs /\ Data \in Addrs /\ Mx # Data
      BY MainIsNoWorker DEF Addrs, Mx, Data
    <2>1. ASSUME NEW kind \in Kinds, NEW addr \in Addrs, Access(t, kind, addr),
                 kind = "store" /\ addr = Data => t \notin Consumer
          PROVE  /\ DirInv' /\ HitInv' /\ ProfileInv'
                 /\ made' = [made EXCEPT ![t][kind] = @ + 1]
      BY <2>0, <2>1, AccessDir, AccessHit, AccessProfile DEF Kinds
    <2>2. CASE LockMx(t)
      <3>1. Access(t, "load", Mx) /\ Goto(t, "locked") /\ UNCHANGED round /\ pc[t] = "lock"
        BY <2>2 DEF LockMx
      <3>2. \A k \in Kinds : InRound(t, k, "locked")
                               = InRound(t, k, pc[t]) + IF k = "load" THEN 1 ELSE 0
        BY <3>1 DEF InRound, Kinds
      <3> QED
        BY <1>0, <2>0, <2>1, <3>1, <3>2, StepMade DEF Kinds, Steps
    <2>3. CASE LockedMx(t)
      <3>1. Access(t, "store", Mx) /\ Goto(t, "data") /\ UNCHANGED round /\ pc[t] = "locked"
        BY <2>3 DEF LockedMx
      <3>2. \A k \in Kinds : InRound(t, k, "data")
                               = InRound(t, k, pc[t]) + IF k = "store" THEN 1 ELSE 0
        BY <3>1 DEF InRound, Kinds
      <3> QED
        BY <1>0, <2>0, <2>1, <3>1, <3>2, StepMade DEF Kinds, Steps
    <2>4. CASE UseData(t)
      <3>1. Access(t, Uses(t), Data) /\ Goto(t, "unlock") /\ UNCHANGED round /\ pc[t] = "data"
        BY <2>4 DEF UseData, Uses
      <3>2. \A k \in Kinds : InRound(t, k, "unlock")
                               = InRound(t, k, pc[t]) + IF k = Uses(t) THEN 1 ELSE 0
        BY <3>1 DEF InRound, Kinds
      <3>3. Uses(t) \in Kinds /\ (Uses(t) = "store" => t \notin Consumer)
        BY DEF Uses, Kinds, Producer, Consumer
      <3> QED
        BY <1>0, <2>0, <2>1, <3>1, <3>2, <3>3, StepMade DEF Steps
    <2>5. CASE UnlockMx(t)
      <3>1. Access(t, "load", Mx) /\ Goto(t, "unlocked") /\ UNCHANGED round /\ pc[t] = "unlock"
        BY <2>5 DEF UnlockMx
      <3>2. \A k \in Kinds : InRound(t, k, "unlocked")
                               = InRound(t, k, pc[t]) + IF k = "load" THEN 1 ELSE 0
        BY <3>1 DEF InRound, Kinds
      <3> QED
        BY <1>0, <2>0, <2>1, <3>1, <3>2, StepMade DEF Kinds, Steps
    <2>6. CASE UnlockedMx(t)
      <3>1. Access(t, "store", Mx)
        BY <2>6 DEF UnlockedMx
      <3> QED
        BY <1>0, <2>0, <2>1, <2>6, <3>1, UnlockedMade DEF Kinds
    <2> QED
      BY <1>3, <2>2, <2>3, <2>4, <2>5, <2>6 DEF Step
  <1>4. ASSUME NEW p \in AppThread, NEW a \in Addrs, Evict(p, a)
        PROVE  Inv'
    <2>1. DirInv' /\ HitInv' /\ ProfileInv' /\ UNCHANGED made
      BY <1>4, EvictDir, EvictProfile
    <2>2. UNCHANGED <<pc, round>>
      BY <1>4 DEF Evict
    <2> QED
      BY <1>0, <2>1, <2>2 DEF MadeInv
  <1>5. CASE UNCHANGED vars
    BY <1>0, <1>5 DEF vars, DirInv, HitInv, ProfileInv, Booked, MadeInv
  <1> QED
    BY <1>1, <1>2, <1>3, <1>4, <1>5 DEF Next, Terminated

THEOREM Invariance == Spec => []Inv
  BY InitInv, NextInv, PTL DEF Spec

-----------------------------------------------------------------------------
(* What follows.                                                           *)

\* The lock_guard: no two threads are between their lock and their unlock.
THEOREM MutualExclusion ==
  Spec => [](\A t, u \in AppThread : InSection(t) /\ InSection(u) => t = u)
  <1>1. Inv => \A t, u \in AppThread : InSection(t) /\ InSection(u) => t = u
    BY DEF Inv, ThreadInv
  <1> QED
    BY <1>1, Invariance, PTL

\* The adaptive protocol does for the program of the report what it is for: a
\* consumer that qualified, two counted reads, misses *data only if its own cache
\* dropped it, for any number of rounds, evictions and processors.
THEOREM QualifiedReadersAlwaysHit == Spec => QualifiedReadersHit
  <1> DEFINE A == \A c \in Consumer :
                    Detector /\ missed'[c] > missed[c] /\ qualified_reader(directory[Data], c)
                      => c \in lost
  <1>1. ASSUME Inv, [Next]_vars PROVE [A]_vars
    <2> SUFFICES ASSUME Next, NEW c \in Consumer, Detector, missed'[c] > missed[c],
                        qualified_reader(directory[Data], c), c \notin lost
                 PROVE  FALSE
      BY <1>1
    <2>1. c \in directory[Data].sharer_vector /\ c \in AppThread
      BY <1>1 DEF Inv, HitInv, is_set, AppThread
    <2>2. missed[c] \in Nat
      BY <1>1, <2>1 DEF Inv, ProfileInv
    <2>3. missed'[c] # missed[c]
      BY <2>2
    <2>4. PICK t \in AppThread, kind \in Kinds, addr \in Addrs :
            Access(t, kind, addr) /\ missed' # missed
      <3>1. CASE NewData
        BY <2>3, <3>1, MainIsNoWorker DEF NewData, Kinds, Addrs
      <3>2. ASSUME NEW t \in Workers, Step(t)
            PROVE  \E u \in AppThread, kind \in Kinds, addr \in Addrs : Access(u, kind, addr)
        <4>1. t \in AppThread /\ Mx \in Addrs /\ Data \in Addrs /\ "load" \in Kinds /\ "store" \in Kinds
          BY MainIsNoWorker DEF Addrs, Kinds
        <4> QED
          BY <3>2, <4>1 DEF Step, LockMx, LockedMx, UseData, UnlockMx, UnlockedMx
      <3>3. Join \/ Terminated \/ (\E p \in AppThread, a \in Addrs : Evict(p, a)) => missed' = missed
        BY DEF Join, Terminated, Evict, vars
      <3> QED
        BY <2>3, <3>1, <3>2, <3>3 DEF Next
    <2>5. kind = "load" /\ addr = Data /\ t = c
          /\ Reaches(t, kind, addr).response = "CACHE_MISS"
      <3>1. missed' = IF kind = "load" /\ addr = Data /\ Reaches(t, kind, addr).response = "CACHE_MISS"
                      THEN [missed EXCEPT ![t] = @ + 1] ELSE missed
        BY <2>4 DEF Access, Reaches
      <3>2. missed' = [missed EXCEPT ![t] = @ + 1] => t = c
        BY <1>1, <2>1, <2>3 DEF Inv, ProfileInv
      <3> QED
        BY <2>4, <3>1, <3>2
    <2> DEFINE d == directory[Data]
    <2>6. d \in Line /\ CoherentLine(d) /\ Data \in Addrs /\ c \in Proc /\ get_home_node(Data) \in Proc
      BY <1>1, <2>1, ThreadsAreProcs DEF Inv, DirInv, Addrs
    <2>7. process_read(d, c, get_home_node(Data)).response = "CACHE_MISS"
      BY <2>5 DEF Reaches
    <2>8. d.state = "INVALID" <=> d.sharer_vector = {}
      BY <2>6 DEF CoherentLine
    <2>9. c \in d.sharer_vector
      BY <2>1
    <2> HIDE DEF d
    <2> QED
      BY <2>6, <2>7, <2>8, <2>9, ReadLine
  <1> QED
    BY <1>1, Invariance, PTL DEF Spec, QualifiedReadersHit

\* The profile is of the whole program: at every moment the hits and misses of a
\* processor are the accesses its thread has made, none for a processor without
\* one, and at the end those are main's store and, for each of its rounds, two
\* loads and two stores of the mutex and the access to *data of every thread.
THEOREM EveryAccessIsBooked ==
  Spec => []( /\ \A t \in AppThread, kind \in Kinds : Booked(t, kind) = made[t][kind]
              /\ \A p \in Proc \ AppThread, kind \in Kinds : Booked(p, kind) = 0
              /\ pc[Main] = "done" =>
                   /\ Booked(Main, "load") = 0 /\ Booked(Main, "store") = 1
                   /\ \A t \in Workers, kind \in Kinds :
                        Booked(t, kind) = PerRound(t, kind) * Rounds(t) )
  <1> DEFINE P == /\ \A t \in AppThread, kind \in Kinds : Booked(t, kind) = made[t][kind]
                  /\ \A p \in Proc \ AppThread, kind \in Kinds : Booked(p, kind) = 0
                  /\ pc[Main] = "done" =>
                       /\ Booked(Main, "load") = 0 /\ Booked(Main, "store") = 1
                       /\ \A t \in Workers, kind \in Kinds :
                            Booked(t, kind) = PerRound(t, kind) * Rounds(t)
  <1>1. ASSUME Inv PROVE P
    <2>1. /\ \A t \in AppThread, kind \in Kinds : Booked(t, kind) = made[t][kind]
          /\ \A p \in Proc \ AppThread, kind \in Kinds : Booked(p, kind) = 0
      BY <1>1 DEF Inv, ProfileInv
    <2>2. ASSUME pc[Main] = "done"
          PROVE  Booked(Main, "load") = 0 /\ Booked(Main, "store") = 1
      BY <1>1, <2>1, <2>2, MainIsNoWorker DEF Inv, MadeInv, Kinds
    <2>3. ASSUME pc[Main] = "done", NEW t \in Workers, NEW kind \in Kinds
          PROVE  Booked(t, kind) = PerRound(t, kind) * Rounds(t)
      <3>1. /\ t \in AppThread /\ pc[t] = "done" /\ round[t] = Rounds(t)
            /\ InRound(t, kind, "done") = 0
        BY <1>1, <2>3, MainIsNoWorker DEF Inv, ThreadInv, InRound
      <3>2. made[t][kind] = PerRound(t, kind) * Rounds(t) + 0
        BY <1>1, <2>3, <3>1 DEF Inv, MadeInv
      <3>3. PerRound(t, kind) * Rounds(t) \in Nat
        BY MainIsNoWorker DEF PerRound
      <3> QED
        BY <2>1, <3>1, <3>2, <3>3
    <2> QED
      BY <2>1, <2>2, <2>3
  <1> QED
    BY <1>1, Invariance, PTL

-----------------------------------------------------------------------------
(* Types.                                                                  *)

\* The rest of TypeOK: the counters of the addresses, the evictions and
\* the mutex.
LineStatInv ==
  /\ DOMAIN line_stat = Addrs
  /\ \A a \in Addrs : IsAccess_Stat(line_stat[a])
  /\ lost \in SUBSET AppThread
  /\ evictions \in 0 .. MaxEvictions
  /\ mx \in AppThread \cup {Nobody}

LEMMA MarkStat ==
  ASSUME NEW s, IsStat(s), NEW response
  PROVE  IsStat(mark(s, response))
  <1>1. DOMAIN Stat = {"hits", "misses", "hit_cycles", "miss_cycles", "hops"}
    BY DEF Stat
  <1>2. s \in [{"hits", "misses", "hit_cycles", "miss_cycles", "hops"} -> Nat]
    BY <1>1 DEF IsStat
  <1>3. mark(s, response) \in [{"hits", "misses", "hit_cycles", "miss_cycles", "hops"} -> Nat]
    BY <1>2 DEF mark
  <1> QED
    BY <1>1, <1>3 DEF IsStat

\* One address whose counters are marked or kept.
LEMMA MarkLine ==
  ASSUME LineStatInv, NEW addr \in Addrs, NEW response, NEW m,
         DOMAIN m = DOMAIN line_stat[addr], m.count \in Nat,
         \A k \in {"load", "store", "evict"} :
           m[k] = line_stat[addr][k] \/ m[k] = mark(line_stat[addr][k], response),
         line_stat' = [line_stat EXCEPT ![addr] = m]
  PROVE  DOMAIN line_stat' = Addrs /\ \A a \in Addrs : IsAccess_Stat(line_stat'[a])
  <1>1. IsAccess_Stat(line_stat[addr])
    BY DEF LineStatInv
  <1>2. \A k \in {"load", "store", "evict"} : IsStat(m[k])
    BY <1>1, MarkStat DEF IsAccess_Stat
  <1>3. IsAccess_Stat(m)
    BY <1>1, <1>2 DEF IsAccess_Stat
  <1> QED
    BY <1>3 DEF LineStatInv

\* The record of an address.
LEMMA LineStatRecord ==
  ASSUME LineStatInv, NEW addr \in Addrs
  PROVE  DOMAIN line_stat[addr] = {"load", "store", "evict", "count"} /\ line_stat[addr].count \in Nat
  <1>1. DOMAIN Access_Stat = {"load", "store", "evict", "count"}
    BY DEF Access_Stat
  <1> QED
    BY <1>1 DEF LineStatInv, IsAccess_Stat

LEMMA NextLineStat ==
  ASSUME LineStatInv, [Next]_vars
  PROVE  LineStatInv'
  <1>1. ASSUME NEW t \in AppThread, NEW kind \in Kinds, NEW addr \in Addrs, Access(t, kind, addr)
        PROVE  /\ DOMAIN line_stat' = Addrs /\ \A a \in Addrs : IsAccess_Stat(line_stat'[a])
               /\ lost' \in SUBSET AppThread /\ UNCHANGED evictions
    <2> DEFINE r == Reaches(t, kind, addr)
    <2>1. line_stat' = [line_stat EXCEPT ![addr][kind] = mark(@, r.response), ![addr].count = @ + 1]
      BY <1>1 DEF Access, profile_cache_access, Reaches
    <2>2. kind \in {"load", "store", "evict"} /\ kind # "count"
      BY DEF Kinds
    <2> DEFINE l == line_stat[addr]
               m == [l EXCEPT ![kind] = mark(@, r.response), !.count = @ + 1]
    <2>3. line_stat' = [line_stat EXCEPT ![addr] = m]
      BY <2>1, <2>2 DEF LineStatInv
    <2>4. DOMAIN line_stat' = Addrs /\ \A a \in Addrs : IsAccess_Stat(line_stat'[a])
      <3>1. DOMAIN l = {"load", "store", "evict", "count"} /\ l.count \in Nat
        BY LineStatRecord
      <3> HIDE DEF l, r
      <3>2. /\ DOMAIN m = DOMAIN l /\ m.count \in Nat
            /\ \A k \in {"load", "store", "evict"} : m[k] = l[k] \/ m[k] = mark(l[k], r.response)
        BY <2>2, <3>1
      <3> HIDE DEF m
      <3> QED
        BY <2>3, <3>2, MarkLine DEF l
    <2>5. lost' \in SUBSET AppThread /\ UNCHANGED evictions
      BY <1>1 DEF Access, LineStatInv
    <2> QED
      BY <2>4, <2>5
  <1>2. CASE NewData
    BY <1>1, <1>2, MainIsNoWorker DEF NewData, Kinds, Addrs, LineStatInv
  <1>3. ASSUME NEW t \in Workers, Step(t)
        PROVE  LineStatInv'
    <2>1. t \in AppThread /\ Mx \in Addrs /\ Data \in Addrs /\ "load" \in Kinds /\ "store" \in Kinds
      BY MainIsNoWorker DEF Addrs, Kinds
    <2> QED
      BY <1>1, <1>3, <2>1 DEF Step, LockMx, LockedMx, UseData, UnlockMx, UnlockedMx, LineStatInv
  <1>4. ASSUME NEW p \in AppThread, NEW addr \in Addrs, Evict(p, addr)
        PROVE  LineStatInv'
    <2>1. \/ UNCHANGED line_stat
          \/ line_stat' = [line_stat EXCEPT ![addr].evict = mark(@, "CACHE_MISS")]
      BY <1>4 DEF Evict, profile_cache_evict
    <2>2. evictions' \in 0 .. MaxEvictions /\ lost' \in SUBSET AppThread /\ UNCHANGED mx
      BY <1>4, AppAssumption DEF Evict, LineStatInv
    <2>3. CASE line_stat' = [line_stat EXCEPT ![addr].evict = mark(@, "CACHE_MISS")]
      <3> DEFINE l == line_stat[addr]
                 m == [l EXCEPT !.evict = mark(@, "CACHE_MISS")]
      <3>1. DOMAIN l = {"load", "store", "evict", "count"} /\ l.count \in Nat
        BY LineStatRecord
      <3>2. line_stat' = [line_stat EXCEPT ![addr] = m]
        BY <2>3 DEF LineStatInv
      <3>3. DOMAIN line_stat' = Addrs /\ \A a \in Addrs : IsAccess_Stat(line_stat'[a])
        <4> HIDE DEF l
        <4>1. /\ DOMAIN m = DOMAIN l /\ m.count \in Nat
              /\ \A k \in {"load", "store", "evict"} : m[k] = l[k] \/ m[k] = mark(l[k], "CACHE_MISS")
          BY <3>1
        <4> HIDE DEF m
        <4> QED
          BY <3>2, <4>1, MarkLine DEF l
      <3> QED
        BY <2>2, <3>3 DEF LineStatInv
    <2>4. CASE UNCHANGED line_stat
      BY <2>2, <2>4 DEF LineStatInv
    <2> QED
      BY <2>1, <2>3, <2>4
  <1>5. CASE Join
    BY <1>5 DEF Join, LineStatInv
  <1>6. CASE UNCHANGED vars
    BY <1>6 DEF vars, LineStatInv
  <1> QED
    BY <1>2, <1>3, <1>4, <1>5, <1>6 DEF Next, Terminated

\* Every variable keeps to its values: no counter of the profile leaves the
\* naturals, and the mutex is nobody's or a thread's.
THEOREM TypeCorrect == Spec => []TypeOK
  <1>1. Init => LineStatInv
    <2> SUFFICES ASSUME Init PROVE LineStatInv
      OBVIOUS
    <2>1. IsAccess_Stat(Access_Stat)
      BY DEF IsAccess_Stat, IsStat, Access_Stat, Stat
    <2> QED
      BY <2>1, AppAssumption DEF Init, LineStatInv
  <1>2. LineStatInv /\ [Next]_vars => LineStatInv'
    BY NextLineStat
  <1>3. Inv /\ LineStatInv => TypeOK
    <2> SUFFICES ASSUME Inv, LineStatInv PROVE TypeOK
      OBVIOUS
    <2>2. round \in [Workers -> 0 .. ROUND]
      <3> SUFFICES ASSUME NEW t \in Workers PROVE round[t] \in 0 .. ROUND
        BY DEF Inv, ThreadInv
      <3>1. round[t] \in Nat /\ round[t] <= Rounds(t)
        BY MainIsNoWorker DEF Inv, ThreadInv
      <3>2. Rounds(t) \in Nat /\ Rounds(t) <= ROUND
        BY AppAssumption DEF Rounds
      <3> QED
        BY <3>1, <3>2, AppAssumption
    <2> QED
      BY <2>2 DEF Inv, DirInv, ThreadInv, ProfileInv, LineStatInv, TypeOK
  <1> QED
    BY <1>1, <1>2, <1>3, Invariance, PTL DEF Spec

=============================================================================

---------------------------- MODULE DirMSIProofs ----------------------------
(***************************************************************************)
(* What the handlers of DirMSI return, for every line, processor and home  *)
(* node: the lemmas that the proofs about DirProtocol and Controller cite. *)
(***************************************************************************)
EXTENDS DirMSI, FiniteSetTheorems, TLAPS

USE NumProcessorsAssumption, DetectorAssumption

-----------------------------------------------------------------------------
LEMMA FiniteProc == IsFiniteSet(Proc)
  BY FS_Interval DEF Proc

LEMMA CardinalityNat ==
  ASSUME NEW S \in SUBSET Proc
  PROVE  Cardinality(S) \in Nat
  BY FiniteProc, FS_Subset, FS_CardinalityType

LEMMA HopsNat ==
  ASSUME NEW S \in SUBSET Proc, NEW home \in Proc
  PROVE  hops_to(S, home) \in Nat
  <1>1. S \ {home} \in SUBSET Proc
    OBVIOUS
  <1> QED
    BY <1>1, CardinalityNat DEF hops_to

LEMMA FetchReply ==
  ASSUME NEW d \in Line, NEW pid \in Proc, NEW home \in Proc
  PROVE  fetch(d, pid, home) \in Reply
  <1>1. set_sharer(d, pid) \in Line
    BY DEF set_sharer, Line
  <1>2. [set_sharer(d, pid) EXCEPT !.state = "SHARED"] \in Line
    BY <1>1 DEF Line, CACHE_STATE
  <1>3. \A p : get_directory_cost(p, home) \in Nat /\ get_directory_hops(p, home) \in Nat
    BY DEF get_directory_cost, get_directory_hops, LOCAL_CACHE_ACCESS, REMOTE_CACHE_ACCESS
  <1>4. \A p : data_write_back(p, home) \in Nat
    BY <1>3 DEF data_write_back, MEMORY_ACCESS
  <1> QED
    BY <1>2, <1>3, <1>4 DEF fetch, is_set, Reply, ACCESS_TYPE, LOCAL_CACHE_ACCESS, MEMORY_ACCESS

LEMMA LineExtensionality ==
  ASSUME NEW a \in Line, NEW b \in Line,
         a.sharer_vector = b.sharer_vector, a.state = b.state,
         a.last_writer = b.last_writer, a.read_count = b.read_count
  PROVE  a = b
  BY DEF Line

LEMMA UpdateLastWriterLine ==
  ASSUME NEW d \in Line, NEW pid \in Proc
  PROVE  /\ update_last_writer(d, pid) \in Line
         /\ update_last_writer(d, pid).sharer_vector = d.sharer_vector \cup {pid}
         /\ update_last_writer(d, pid).state = d.state
         /\ update_last_writer(d, pid).last_writer = pid
         /\ update_last_writer(d, pid).read_count = [p \in Proc |-> 0]
  <1> DEFINE s == set_sharer(d, pid)
             zero == [p \in Proc |-> 0]
  <1>1. s \in Line /\ s.sharer_vector = d.sharer_vector \cup {pid} /\ s.state = d.state
    BY DEF set_sharer, Line
  <1>2. zero \in [Proc -> ReadCounts]
    BY DEF ReadCounts
  <1>3. update_last_writer(d, pid) = [s EXCEPT !.last_writer = pid, !.read_count = zero]
    BY DEF update_last_writer
  <1> HIDE DEF s, zero
  <1>4. QED
    BY <1>1, <1>2, <1>3 DEF Line, zero

LEMMA DecreaseLine ==
  ASSUME NEW d \in Line, NEW S \in SUBSET Proc
  PROVE  /\ decrease_read_count(d, S) \in Line
         /\ decrease_read_count(d, S).sharer_vector = d.sharer_vector
         /\ decrease_read_count(d, S).state = d.state
         /\ decrease_read_count(d, S).last_writer = d.last_writer
  BY DEF decrease_read_count, Line, ReadCounts

LEMMA IncreaseLine ==
  ASSUME NEW d \in Line, NEW pid \in Proc
  PROVE  /\ increase_read_count(d, pid) \in Line
         /\ increase_read_count(d, pid).sharer_vector = d.sharer_vector
         /\ increase_read_count(d, pid).state = d.state
         /\ increase_read_count(d, pid).last_writer = d.last_writer
         /\ increase_read_count(d, pid).read_count
              = [d.read_count EXCEPT ![pid] = IF @ < 3 THEN @ + 1 ELSE @]
  BY DEF increase_read_count, Line, ReadCounts

\* A reader that holds a copy changes nothing; one that does not joins the
\* sharers, and the line is SHARED afterwards.
LEMMA FetchLine ==
  ASSUME NEW d \in Line, NEW pid \in Proc, NEW home \in Proc
  PROVE  /\ fetch(d, pid, home).response
              = IF pid \in d.sharer_vector THEN "CACHE_HIT" ELSE "CACHE_MISS"
         /\ fetch(d, pid, home).line.sharer_vector = d.sharer_vector \cup {pid}
         /\ fetch(d, pid, home).line.state
              = IF pid \in d.sharer_vector THEN d.state ELSE "SHARED"
         /\ fetch(d, pid, home).line.last_writer = d.last_writer
         /\ fetch(d, pid, home).line.read_count = d.read_count
         /\ fetch(d, pid, home).writeBack
              <=> (pid \notin d.sharer_vector /\ d.state = "MODIFIED")
  BY DEF fetch, is_set, set_sharer, Line

LEMMA FetchAndInvalidateLine ==
  ASSUME NEW d \in Line, NEW pid \in Proc, NEW home \in Proc
  PROVE  /\ fetch_and_invalidate(d, pid, home) \in Reply
         /\ fetch_and_invalidate(d, pid, home).response = fetch(d, pid, home).response
         /\ fetch_and_invalidate(d, pid, home).line.sharer_vector = {pid}
         /\ fetch_and_invalidate(d, pid, home).line.state = "MODIFIED"
         /\ fetch_and_invalidate(d, pid, home).line.last_writer = d.last_writer
         /\ fetch_and_invalidate(d, pid, home).line.read_count = d.read_count
         /\ fetch_and_invalidate(d, pid, home).pushed = {}
         /\ fetch_and_invalidate(d, pid, home).cost = fetch(d, pid, home).cost
  <1> DEFINE f == fetch(d, pid, home)
  <1>1. f \in Reply
    BY FetchReply
  <1>2. f.line.sharer_vector \ {pid} \in SUBSET Proc
    BY <1>1 DEF Reply, Line
  <1>3. hops_to(f.line.sharer_vector \ {pid}, home) \in Nat
    BY <1>2, HopsNat
  <1>4. f.line = IF pid \in d.sharer_vector THEN d
                 ELSE [set_sharer(d, pid) EXCEPT !.state = "SHARED"]
    BY DEF fetch, is_set
  <1>5. [ f.line EXCEPT !.sharer_vector = {pid}, !.state = "MODIFIED" ]
          = [ d EXCEPT !.sharer_vector = {pid}, !.state = "MODIFIED" ]
    BY <1>4 DEF set_sharer, Line
  <1>6. f.pushed = {}
    BY DEF fetch
  <1> HIDE DEF f
  <1>7. fetch_and_invalidate(d, pid, home)
          = [ f EXCEPT !.line.sharer_vector = {pid},
                       !.line.state         = "MODIFIED",
                       !.hops               = @ + hops_to(f.line.sharer_vector \ {pid}, home) ]
    BY DEF fetch_and_invalidate, f
  <1>8. fetch_and_invalidate(d, pid, home)
          = [ f EXCEPT !.line = [f.line EXCEPT !.sharer_vector = {pid}, !.state = "MODIFIED"],
                       !.hops = f.hops + hops_to(f.line.sharer_vector \ {pid}, home) ]
    BY <1>1, <1>7 DEF Reply, Line
  <1>9. [f.line EXCEPT !.sharer_vector = {pid}, !.state = "MODIFIED"] \in Line
    BY <1>1 DEF Reply, Line, CACHE_STATE
  <1>10. f.response = fetch(d, pid, home).response /\ f.cost = fetch(d, pid, home).cost
    BY DEF f
  <1> DEFINE l == [d EXCEPT !.sharer_vector = {pid}, !.state = "MODIFIED"]
             h == f.hops + hops_to(f.line.sharer_vector \ {pid}, home)
  <1>11. l \in Line /\ h \in Nat
    BY <1>1, <1>3, <1>5, <1>9 DEF Reply
  <1>12. fetch_and_invalidate(d, pid, home) = [f EXCEPT !.line = l, !.hops = h]
    BY <1>5, <1>8
  <1>13. /\ l.sharer_vector = {pid}
         /\ l.state = "MODIFIED"
         /\ l.last_writer = d.last_writer
         /\ l.read_count = d.read_count
    BY DEF Line
  <1> HIDE DEF l, h
  <1>14. /\ fetch_and_invalidate(d, pid, home) \in Reply
         /\ fetch_and_invalidate(d, pid, home).response = f.response
         /\ fetch_and_invalidate(d, pid, home).line = l
         /\ fetch_and_invalidate(d, pid, home).pushed = f.pushed
         /\ fetch_and_invalidate(d, pid, home).cost = f.cost
    BY <1>1, <1>11, <1>12 DEF Reply
  <1> QED
    BY <1>6, <1>10, <1>13, <1>14

LEMMA CostsNat ==
  \A home \in Proc : \A p :
    /\ get_directory_cost(p, home) \in Nat
    /\ get_directory_hops(p, home) \in Nat
    /\ data_write_back(p, home) \in Nat
  BY DEF get_directory_cost, get_directory_hops, data_write_back,
         LOCAL_CACHE_ACCESS, REMOTE_CACHE_ACCESS, MEMORY_ACCESS

\* The last writer's store: it and the consumers hold the line afterwards.
LEMMA PushLine ==
  ASSUME NEW d \in Line, NEW pid \in Proc, NEW home \in Proc
  PROVE  /\ PushToConsumers(d, pid, home) \in Reply
         /\ PushToConsumers(d, pid, home).line
              = [ d EXCEPT !.sharer_vector = {pid} \cup Consumers(d, pid),
                           !.state = "MODIFIED" ]
         /\ PushToConsumers(d, pid, home).pushed = Consumers(d, pid)
         /\ ~PushToConsumers(d, pid, home).writeBack
  <1> DEFINE cs == Consumers(d, pid)
             l  == [d EXCEPT !.sharer_vector = {pid} \cup cs, !.state = "MODIFIED"]
  <1>1. cs \in SUBSET Proc
    BY DEF Consumers
  <1>2. Cardinality(cs) \in Nat /\ hops_to(cs \ d.sharer_vector, home) \in Nat
    <2>1. cs \ d.sharer_vector \in SUBSET Proc
      BY <1>1
    <2> QED
      BY <1>1, <2>1, CardinalityNat, HopsNat
  <1>3. l \in Line
    BY <1>1 DEF Line, CACHE_STATE
  <1> HIDE DEF cs, l
  <1> DEFINE c == get_directory_cost(pid, home)
                    + (IF is_set(d, pid) THEN LOCAL_CACHE_ACCESS ELSE MEMORY_ACCESS)
                    + CACHE_TO_CACHE * Cardinality(cs)
             h == get_directory_hops(pid, home) + hops_to(cs \ d.sharer_vector, home)
  <1>4. CACHE_TO_CACHE * Cardinality(cs) \in Nat
    BY <1>2 DEF CACHE_TO_CACHE
  <1>5. c \in Nat /\ h \in Nat
    BY <1>2, <1>4, CostsNat DEF LOCAL_CACHE_ACCESS, MEMORY_ACCESS
  <1>6. PushToConsumers(d, pid, home)
          = [ line      |-> l,
              response  |-> IF is_set(d, pid) THEN "CACHE_HIT" ELSE "CACHE_MISS",
              cost      |-> c,
              hops      |-> h,
              writeBack |-> FALSE,
              pushed    |-> cs,
              refetch   |-> ~is_set(d, pid) ]
    BY DEF PushToConsumers, l, cs
  <1> HIDE DEF c, h
  <1>7. PushToConsumers(d, pid, home) \in Reply
    BY <1>1, <1>3, <1>5, <1>6 DEF Reply, ACCESS_TYPE, is_set
  <1> QED
    BY <1>6, <1>7 DEF l, cs

\* A new writer's store with the detector on: it alone holds the line, and no
\* reader is counted any more.
LEMMA ReplaceLine ==
  ASSUME NEW d \in Line, NEW pid \in Proc, NEW home \in Proc
  PROVE  /\ ReplaceLastWriter(d, pid, home) \in Reply
         /\ ReplaceLastWriter(d, pid, home).line.sharer_vector = {pid}
         /\ ReplaceLastWriter(d, pid, home).line.state = "MODIFIED"
         /\ ReplaceLastWriter(d, pid, home).line.last_writer = pid
         /\ ReplaceLastWriter(d, pid, home).line.read_count = [p \in Proc |-> 0]
         /\ ReplaceLastWriter(d, pid, home).pushed = {}
  <1> DEFINE e == decrease_read_count(d, Consumers(d, pid))
             u == update_last_writer(e, pid)
             f == fetch_and_invalidate(u, pid, home)
  <1>1. e \in Line
    <2>1. Consumers(d, pid) \in SUBSET Proc
      BY DEF Consumers
    <2> QED
      BY <2>1, DecreaseLine
  <1> HIDE DEF e
  <1>2. /\ u \in Line
        /\ u.last_writer = pid
        /\ u.read_count = [p \in Proc |-> 0]
    BY <1>1, UpdateLastWriterLine
  <1> HIDE DEF u
  <1>3. /\ f \in Reply
        /\ f.line.sharer_vector = {pid}
        /\ f.line.state = "MODIFIED"
        /\ f.line.last_writer = u.last_writer
        /\ f.line.read_count = u.read_count
        /\ f.pushed = {}
    BY <1>2, FetchAndInvalidateLine
  <1>4. ReplaceLastWriter(d, pid, home)
          = [f EXCEPT !.hops = f.hops + get_directory_hops(pid, home)]
    BY DEF ReplaceLastWriter, u, e, f
  <1> HIDE DEF f
  <1>5. f.hops + get_directory_hops(pid, home) \in Nat
    BY <1>3, CostsNat DEF Reply
  <1>6. ReplaceLastWriter(d, pid, home) \in Reply
    BY <1>3, <1>4, <1>5 DEF Reply
  <1>7. /\ ReplaceLastWriter(d, pid, home).line = f.line
        /\ ReplaceLastWriter(d, pid, home).pushed = f.pushed
    BY <1>3, <1>4 DEF Reply
  <1> QED
    BY <1>2, <1>3, <1>6, <1>7 DEF Line

LEMMA ServedByMemoryLine ==
  ASSUME NEW d \in Line, NEW pid \in Proc, NEW home \in Proc, NEW newState \in CACHE_STATE
  PROVE  /\ ServedByMemory(d, pid, home, newState) \in Reply
         /\ ServedByMemory(d, pid, home, newState).line.sharer_vector
              = d.sharer_vector \cup {pid}
         /\ ServedByMemory(d, pid, home, newState).line.state = newState
         /\ ServedByMemory(d, pid, home, newState).line.last_writer = d.last_writer
         /\ ServedByMemory(d, pid, home, newState).line.read_count = d.read_count
         /\ ServedByMemory(d, pid, home, newState).response = "CACHE_MISS"
         /\ ~ServedByMemory(d, pid, home, newState).writeBack
         /\ ServedByMemory(d, pid, home, newState).pushed = {}
  <1> DEFINE l == [set_sharer(d, pid) EXCEPT !.state = newState]
             c == get_directory_cost(pid, home) + MEMORY_ACCESS
  <1>1. /\ l \in Line
        /\ l.sharer_vector = d.sharer_vector \cup {pid}
        /\ l.state = newState
        /\ l.last_writer = d.last_writer
        /\ l.read_count = d.read_count
    BY DEF set_sharer, Line
  <1>2. c \in Nat /\ get_directory_hops(pid, home) \in Nat
    BY CostsNat DEF MEMORY_ACCESS
  <1>3. ServedByMemory(d, pid, home, newState)
          = [ line |-> l, response |-> "CACHE_MISS", cost |-> c,
              hops |-> get_directory_hops(pid, home), writeBack |-> FALSE,
              pushed |-> {}, refetch |-> FALSE ]
    BY DEF ServedByMemory
  <1> HIDE DEF l, c
  <1> QED
    BY <1>1, <1>2, <1>3 DEF Reply, ACCESS_TYPE

\* What a read does to a line, whichever handler serves it.
LEMMA ReadLine ==
  ASSUME NEW d \in Line, NEW pid \in Proc, NEW home \in Proc,
         d.state = "INVALID" <=> d.sharer_vector = {}
  PROVE  LET r == process_read(d, pid, home) IN
         /\ r \in Reply
         /\ r.response = IF pid \in d.sharer_vector THEN "CACHE_HIT" ELSE "CACHE_MISS"
         /\ r.line.sharer_vector = d.sharer_vector \cup {pid}
         /\ r.line.state = IF pid \in d.sharer_vector THEN d.state ELSE "SHARED"
         /\ r.line.last_writer = d.last_writer
         /\ \/ r.line.read_count = d.read_count
            \/ r.line.read_count = [d.read_count EXCEPT ![pid] = IF @ < 3 THEN @ + 1 ELSE @]
         /\ r.writeBack <=> (pid \notin d.sharer_vector /\ d.state = "MODIFIED")
  <1> DEFINE q == IF d.state = "INVALID" THEN read_miss(d, pid, home) ELSE fetch(d, pid, home)
             r == process_read(d, pid, home)
  <1>1. /\ q \in Reply
        /\ q.response = IF pid \in d.sharer_vector THEN "CACHE_HIT" ELSE "CACHE_MISS"
        /\ q.line.sharer_vector = d.sharer_vector \cup {pid}
        /\ q.line.state = IF pid \in d.sharer_vector THEN d.state ELSE "SHARED"
        /\ q.line.last_writer = d.last_writer
        /\ q.line.read_count = d.read_count
        /\ q.writeBack <=> (pid \notin d.sharer_vector /\ d.state = "MODIFIED")
    <2>1. CASE d.state = "INVALID"
      <3>1. PICK shared \in CACHE_STATE : shared = "SHARED"
        BY DEF CACHE_STATE
      <3>2. q = ServedByMemory(d, pid, home, "SHARED")
        BY <2>1 DEF read_miss
      <3>3. d.sharer_vector = {}
        BY <2>1
      <3>4. d.sharer_vector \cup {pid} = {pid} /\ pid \notin d.sharer_vector
        BY <3>3
      <3> DEFINE m == ServedByMemory(d, pid, home, shared)
      <3>5. /\ m \in Reply
            /\ m.line.sharer_vector = d.sharer_vector \cup {pid}
            /\ m.line.state = shared
            /\ m.line.last_writer = d.last_writer
            /\ m.line.read_count = d.read_count
            /\ m.response = "CACHE_MISS"
            /\ ~m.writeBack
        BY <3>1, ServedByMemoryLine
      <3> HIDE DEF q, m
      <3>6. q = m
        BY <3>1, <3>2 DEF m
      <3> QED
        BY <2>1, <3>1, <3>4, <3>5, <3>6
    <2>2. CASE d.state # "INVALID"
      <3>1. q = fetch(d, pid, home)
        BY <2>2
      <3> HIDE DEF q
      <3> QED
        BY <3>1, FetchReply, FetchLine
    <2> QED
      BY <2>1, <2>2
  <1>2. r = IF q.response = "CACHE_MISS"
            THEN [q EXCEPT !.line = increase_read_count(q.line, pid)] ELSE q
    BY DEF process_read
  <1> HIDE DEF q, r
  <1>3. q.line \in Line
    BY <1>1 DEF Reply
  <1> DEFINE i == increase_read_count(q.line, pid)
  <1>4. /\ i \in Line
        /\ i.sharer_vector = q.line.sharer_vector
        /\ i.state = q.line.state
        /\ i.last_writer = q.line.last_writer
        /\ i.read_count = [d.read_count EXCEPT ![pid] = IF @ < 3 THEN @ + 1 ELSE @]
    BY <1>1, <1>3, IncreaseLine
  <1> HIDE DEF i
  <1>5. /\ r \in Reply
        /\ r.response = q.response
        /\ r.writeBack = q.writeBack
        /\ r.line \in {q.line, i}
    BY <1>1, <1>2, <1>4 DEF Reply, i
  <1>6. QED
    BY <1>1, <1>4, <1>5 DEF r

\* What a write does to a line, whichever handler serves it.
LEMMA WriteLine ==
  ASSUME NEW d \in Line, NEW pid \in Proc, NEW home \in Proc,
         d.state = "INVALID" <=> d.sharer_vector = {}
  PROVE  LET w == process_write(d, pid, home) IN
         /\ w \in Reply
         /\ w.line.state = "MODIFIED"
         /\ w.line.sharer_vector = {pid} \cup w.pushed
         /\ ~Detector => w.pushed = {}
         /\ Detector => w.line.last_writer = pid
         /\ Detector => \/ w.line.read_count = [p \in Proc |-> 0]
                        \/ /\ d.state # "INVALID" /\ pid = d.last_writer
                           /\ w.line.read_count = d.read_count
         /\ Detector /\ d.state # "INVALID" /\ pid = d.last_writer
              => w.pushed = Consumers(d, pid)
  <1> DEFINE w == process_write(d, pid, home)
  <1>1. CASE d.state = "INVALID"
    <2> DEFINE u == update_last_writer(d, pid)
    <2>1. /\ u \in Line
          /\ u.sharer_vector = {pid}
          /\ u.last_writer = pid
          /\ u.read_count = [p \in Proc |-> 0]
      <3>1. d.sharer_vector \cup {pid} = {pid}
        BY <1>1
      <3>2. /\ u \in Line
            /\ u.sharer_vector = d.sharer_vector \cup {pid}
            /\ u.last_writer = pid
            /\ u.read_count = [p \in Proc |-> 0]
        BY UpdateLastWriterLine
      <3> HIDE DEF u
      <3> QED
        BY <3>1, <3>2
    <2>2. w = ServedByMemory(u, pid, home, "MODIFIED")
      BY <1>1 DEF process_write, write_miss
    <2>3. PICK modified \in CACHE_STATE : modified = "MODIFIED"
      BY DEF CACHE_STATE
    <2> HIDE DEF u
    <2> DEFINE m == ServedByMemory(u, pid, home, modified)
    <2>4. /\ m \in Reply
          /\ m.line.state = modified
          /\ m.line.sharer_vector = u.sharer_vector \cup {pid}
          /\ m.line.last_writer = u.last_writer
          /\ m.line.read_count = u.read_count
          /\ m.pushed = {}
      BY <2>1, <2>3, ServedByMemoryLine
    <2> HIDE DEF w, m
    <2>5. w = m
      BY <2>2, <2>3 DEF m
    <2>6. /\ w \in Reply
          /\ w.line.state = "MODIFIED"
          /\ w.line.sharer_vector = {pid}
          /\ w.line.last_writer = pid
          /\ w.line.read_count = [p \in Proc |-> 0]
          /\ w.pushed = {}
      BY <2>1, <2>3, <2>4, <2>5
    <2> QED
      BY <1>1, <2>6 DEF w
  <1>2. CASE d.state # "INVALID" /\ ~Detector
    <2>1. w = fetch_and_invalidate(d, pid, home)
      BY <1>2 DEF process_write
    <2> HIDE DEF w
    <2>2. /\ w \in Reply
          /\ w.line.sharer_vector = {pid}
          /\ w.line.state = "MODIFIED"
          /\ w.pushed = {}
      BY <2>1, FetchAndInvalidateLine
    <2> QED
      BY <1>2, <2>2 DEF w, Line
  <1>3. CASE d.state # "INVALID" /\ Detector /\ pid = d.last_writer
    <2>1. w = PushToConsumers(d, pid, home)
      BY <1>3 DEF process_write, push_and_invalidate, is_last_writer
    <2> HIDE DEF w
    <2>2. /\ w \in Reply
          /\ w.line = [d EXCEPT !.sharer_vector = {pid} \cup Consumers(d, pid),
                                !.state = "MODIFIED"]
          /\ w.pushed = Consumers(d, pid)
      BY <2>1, PushLine
    <2>3. /\ w.line.sharer_vector = {pid} \cup w.pushed
          /\ w.line.state = "MODIFIED"
          /\ w.line.last_writer = pid
          /\ w.line.read_count = d.read_count
      BY <1>3, <2>2 DEF Line
    <2> QED
      BY <1>3, <2>2, <2>3 DEF w
  <1>4. CASE d.state # "INVALID" /\ Detector /\ pid # d.last_writer
    <2>1. w = ReplaceLastWriter(d, pid, home)
      BY <1>4 DEF process_write, push_and_invalidate, is_last_writer
    <2> HIDE DEF w
    <2>2. /\ w \in Reply
          /\ w.line.sharer_vector = {pid}
          /\ w.line.state = "MODIFIED"
          /\ w.line.last_writer = pid
          /\ w.line.read_count = [p \in Proc |-> 0]
          /\ w.pushed = {}
      BY <2>1, ReplaceLine
    <2> QED
      BY <1>4, <2>2 DEF w
  <1> QED
    BY <1>1, <1>2, <1>3, <1>4

\* What evictions by the processors of S do to a line.
LEMMA InvalidateLine ==
  ASSUME NEW d \in Line, NEW S \in SUBSET Proc
  PROVE  LET r == invalidate(d, S) IN
         /\ r.line \in Line
         /\ r.writeBack <=> \E p \in S : HasOwnership(d, p)
         /\ r.line.sharer_vector = d.sharer_vector \ S
         /\ r.line.last_writer = d.last_writer
         /\ r.line.read_count = d.read_count
         /\ r.line.state = IF d.sharer_vector \ S = {} THEN "INVALID"
                           ELSE IF r.writeBack
                                THEN IF Detector THEN "SHARED" ELSE "INVALID"
                                ELSE d.state
  BY DEF invalidate, Line, CACHE_STATE

\* Two rounds of evictions of a line are one.
LEMMA InvalidateTwice ==
  ASSUME NEW d \in Line, NEW S \in SUBSET Proc, NEW T \in SUBSET Proc
  PROVE  invalidate(invalidate(d, S).line, T).line = invalidate(d, S \cup T).line
  <1> DEFINE e == invalidate(d, S)
             f == invalidate(e.line, T)
             g == invalidate(d, S \cup T)
  <1>0. S \cup T \in SUBSET Proc
    OBVIOUS
  <1>1. /\ e.line \in Line
        /\ e.writeBack <=> \E p \in S : HasOwnership(d, p)
        /\ e.line.sharer_vector = d.sharer_vector \ S
        /\ e.line.last_writer = d.last_writer
        /\ e.line.read_count = d.read_count
        /\ e.line.state = IF d.sharer_vector \ S = {} THEN "INVALID"
                          ELSE IF e.writeBack
                               THEN IF Detector THEN "SHARED" ELSE "INVALID"
                               ELSE d.state
    BY InvalidateLine
  <1>2. /\ g.line \in Line
        /\ g.writeBack <=> \E p \in S \cup T : HasOwnership(d, p)
        /\ g.line.sharer_vector = d.sharer_vector \ (S \cup T)
        /\ g.line.last_writer = d.last_writer
        /\ g.line.read_count = d.read_count
        /\ g.line.state = IF d.sharer_vector \ (S \cup T) = {} THEN "INVALID"
                          ELSE IF g.writeBack
                               THEN IF Detector THEN "SHARED" ELSE "INVALID"
                               ELSE d.state
    BY <1>0, InvalidateLine
  <1> DEFINE m == e.line
  <1> HIDE DEF e, g
  <1>3. /\ m \in Line
        /\ m.sharer_vector = d.sharer_vector \ S
        /\ m.last_writer = d.last_writer
        /\ m.read_count = d.read_count
    BY <1>1
  <1> HIDE DEF m
  <1>4. f = invalidate(m, T)
    BY DEF m
  <1>5. /\ f.line \in Line
        /\ f.writeBack <=> \E p \in T : HasOwnership(m, p)
        /\ f.line.sharer_vector = m.sharer_vector \ T
        /\ f.line.last_writer = m.last_writer
        /\ f.line.read_count = m.read_count
        /\ f.line.state = IF m.sharer_vector \ T = {} THEN "INVALID"
                          ELSE IF f.writeBack
                               THEN IF Detector THEN "SHARED" ELSE "INVALID"
                               ELSE m.state
    BY <1>3, <1>4, InvalidateLine
  <1> HIDE DEF f
  <1>6. f.line.sharer_vector = g.line.sharer_vector
    BY <1>2, <1>3, <1>5
  <1>7. f.line.state = g.line.state
    <2>1. CASE f.line.sharer_vector = {}
      BY <1>2, <1>3, <1>5, <1>6, <2>1
    <2>2. CASE f.line.sharer_vector # {}
      <3>1. d.sharer_vector \ S # {} /\ m.sharer_vector \ T # {}
        BY <1>3, <1>5, <2>2
      <3>2. CASE e.writeBack
        <4>1. m.state = IF Detector THEN "SHARED" ELSE "INVALID"
          BY <1>1, <3>1, <3>2 DEF m
        <4>2. ~f.writeBack
          BY <1>5, <4>1 DEF HasOwnership, is_owner
        <4>3. g.writeBack
          BY <1>1, <1>2, <3>2
        <4> QED
          BY <1>2, <1>5, <1>6, <2>2, <3>1, <4>1, <4>2, <4>3
      <3>3. CASE ~e.writeBack
        <4>1. m.state = d.state
          BY <1>1, <3>1, <3>3 DEF m
        <4>2. \A p \in T \ S : HasOwnership(m, p) <=> HasOwnership(d, p)
          BY <1>3, <4>1 DEF HasOwnership, is_owner, is_set, is_last_writer
        <4>3. \A p \in S : ~HasOwnership(m, p)
          BY <1>3 DEF HasOwnership, is_owner, is_set
        <4>4. f.writeBack <=> g.writeBack
          BY <1>1, <1>2, <1>5, <3>3, <4>2, <4>3
        <4> QED
          BY <1>2, <1>5, <1>6, <2>2, <4>1, <4>4
      <3> QED
        BY <3>2, <3>3
    <2> QED
      BY <2>1, <2>2
  <1>8. f.line = g.line
    <2>1. f.line.last_writer = g.line.last_writer /\ f.line.read_count = g.line.read_count
      BY <1>2, <1>3, <1>5
    <2> QED
      BY <1>2, <1>5, <1>6, <1>7, <2>1, LineExtensionality
  <1> QED
    BY <1>8 DEF f, g, e

-----------------------------------------------------------------------------
(* Handlers and coherent lines.                                            *)

LEMMA ReadIsCoherent ==
  ASSUME NEW d \in Line, CoherentLine(d), NEW pid \in Proc, NEW home \in Proc
  PROVE  LET r == process_read(d, pid, home) IN r.line \in Line /\ CoherentLine(r.line)
  <1> DEFINE r == process_read(d, pid, home)
  <1>1. /\ r \in Reply
        /\ r.response = IF pid \in d.sharer_vector THEN "CACHE_HIT" ELSE "CACHE_MISS"
        /\ r.line.sharer_vector = d.sharer_vector \cup {pid}
        /\ r.line.state = IF pid \in d.sharer_vector THEN d.state ELSE "SHARED"
        /\ r.line.last_writer = d.last_writer
        /\ \/ r.line.read_count = d.read_count
           \/ r.line.read_count = [d.read_count EXCEPT ![pid] = IF @ < 3 THEN @ + 1 ELSE @]
        /\ r.writeBack <=> (pid \notin d.sharer_vector /\ d.state = "MODIFIED")
    BY ReadLine DEF CoherentLine
  <1> HIDE DEF r
  <1>2. r.line \in Line
    BY <1>1 DEF Reply
  <1>3. CoherentLine(r.line)
    <2>1. CASE pid \in d.sharer_vector
      <3>1. /\ r.line.sharer_vector = d.sharer_vector
            /\ r.line.state = d.state
            /\ r.line.last_writer = d.last_writer
        BY <1>1, <2>1
      <3> QED
        BY <3>1 DEF CoherentLine
    <2>2. CASE pid \notin d.sharer_vector
      BY <1>1, <2>2 DEF CoherentLine
    <2> QED
      BY <2>1, <2>2
  <1> QED
    BY <1>2, <1>3 DEF r

LEMMA WriteIsCoherent ==
  ASSUME NEW d \in Line, CoherentLine(d), NEW pid \in Proc, NEW home \in Proc
  PROVE  LET w == process_write(d, pid, home)
         IN w.line \in Line /\ CoherentLine(w.line) /\ w.pushed \subseteq Proc
  <1> DEFINE w == process_write(d, pid, home)
  <1>1. /\ w \in Reply
        /\ w.line.state = "MODIFIED"
        /\ w.line.sharer_vector = {pid} \cup w.pushed
        /\ ~Detector => w.pushed = {}
        /\ Detector => w.line.last_writer = pid
        /\ Detector => \/ w.line.read_count = [p \in Proc |-> 0]
                       \/ /\ pid = d.last_writer
                          /\ w.line.read_count = d.read_count
        /\ Detector /\ d.state # "INVALID" /\ pid = d.last_writer
             => w.pushed = Consumers(d, pid)
    BY WriteLine DEF CoherentLine
  <1> HIDE DEF w
  <1>2. w.line \in Line /\ w.pushed \subseteq Proc
    BY <1>1 DEF Reply
  <1>3. CoherentLine(w.line)
    BY <1>1 DEF CoherentLine
  <1> QED
    BY <1>2, <1>3 DEF w

\* A coherent MODIFIED line that loses its last sharer loses its owner, and in
\* the baseline a line that loses its owner loses its last sharer.
LEMMA OwnerIsLast ==
  ASSUME NEW d \in Line, CoherentLine(d), d.state = "MODIFIED", NEW S \in SUBSET Proc
  PROVE  /\ d.sharer_vector \subseteq S => \E p \in S : HasOwnership(d, p)
         /\ ~Detector /\ (\E p \in S : HasOwnership(d, p)) => d.sharer_vector \subseteq S
  <1>1. CASE Detector
    <2>1. d.last_writer \in d.sharer_vector
      BY <1>1 DEF CoherentLine
    <2> QED
      BY <1>1, <2>1 DEF HasOwnership, is_owner, is_set, is_last_writer
  <1>2. CASE ~Detector
    <2>1. PICK p \in Proc : d.sharer_vector = {p}
      BY <1>2 DEF CoherentLine
    <2> QED
      BY <1>2, <2>1 DEF HasOwnership, is_owner, is_set
  <1> QED
    BY <1>1, <1>2

LEMMA InvalidateIsCoherent ==
  ASSUME NEW d \in Line, CoherentLine(d), NEW S \in SUBSET Proc
  PROVE  invalidate(d, S).line \in Line /\ CoherentLine(invalidate(d, S).line)
  <1> DEFINE r == invalidate(d, S)
  <1>1. /\ r.line \in Line
        /\ r.writeBack <=> \E p \in S : HasOwnership(d, p)
        /\ r.line.sharer_vector = d.sharer_vector \ S
        /\ r.line.last_writer = d.last_writer
        /\ r.line.read_count = d.read_count
        /\ r.line.state = IF d.sharer_vector \ S = {} THEN "INVALID"
                          ELSE IF r.writeBack
                               THEN IF Detector THEN "SHARED" ELSE "INVALID"
                               ELSE d.state
    BY InvalidateLine
  <1> HIDE DEF r
  <1>2. r.writeBack => d.state = "MODIFIED"
    BY <1>1 DEF HasOwnership, is_owner
  <1>3. d.state = "MODIFIED" =>
          /\ d.sharer_vector \ S = {} => r.writeBack
          /\ ~Detector /\ r.writeBack => d.sharer_vector \ S = {}
    BY <1>1, OwnerIsLast
  <1>4. r.line.state = "INVALID" <=> r.line.sharer_vector = {}
    BY <1>1, <1>2, <1>3 DEF CoherentLine
  <1>5. ASSUME r.line.state = "MODIFIED"
        PROVE  IF Detector THEN r.line.last_writer \in r.line.sharer_vector
                           ELSE \E p \in Proc : r.line.sharer_vector = {p}
    <2>1. d.state = "MODIFIED" /\ ~r.writeBack /\ d.sharer_vector \ S # {}
      BY <1>1, <1>2, <1>5
    <2>2. CASE Detector
      <3>1. d.last_writer \in d.sharer_vector
        BY <2>1, <2>2 DEF CoherentLine
      <3>2. d.last_writer \notin S
        BY <1>1, <2>1, <3>1 DEF HasOwnership, is_owner, is_set, is_last_writer
      <3> QED
        BY <1>1, <2>2, <3>1, <3>2
    <2>3. CASE ~Detector
      <3>1. PICK p \in Proc : d.sharer_vector = {p}
        BY <2>1, <2>3 DEF CoherentLine
      <3>2. r.line.sharer_vector = {p}
        BY <1>1, <2>1, <3>1
      <3> QED
        BY <2>3, <3>2
    <2> QED
      BY <2>2, <2>3
  <1> QED
    BY <1>1, <1>4, <1>5 DEF CoherentLine, r

=============================================================================

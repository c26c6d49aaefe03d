------------------------- MODULE DirProtocolProofs -------------------------
(***************************************************************************)
(* Proofs about DirProtocol for every number of processors, every home     *)
(* node and both values of the detector flag.                              *)
(***************************************************************************)
EXTENDS DirProtocol, DirMSIProofs, TLAPS

USE NumProcessorsAssumption, DetectorAssumption, HomeAssumption

-----------------------------------------------------------------------------
(* The inductive invariant.  Type correctness alone is inductive, because  *)
(* the handlers are total; the safety invariants need each other: that a   *)
(* sharer is fresh needs memory to be current when the line is not         *)
(* MODIFIED, which needs an eviction that leaves no sharer to be the       *)
(* owner's, which is what SingleOwner and ProducerHoldsCopy say.           *)

IInv ==
  /\ TypeOK
  /\ InvalidIffUnshared
  /\ StaleIffModified
  /\ SharersAreFresh
  /\ SingleOwner
  /\ ProducerHoldsCopy
  /\ ConsumersHaveRead

LEMMA InitIInv == Init => IInv
  <1> SUFFICES ASSUME Init PROVE IInv
    OBVIOUS
  <1> USE DEF Init, Directory_Line
  <1>1. TypeOK
    <2>1. [p \in Proc |-> 0] \in [Proc -> ReadCounts]
      BY DEF ReadCounts
    <2>2. line \in Line
      BY <2>1 DEF Line, CACHE_STATE
    <2>3. event \in Event
      BY DEF Event, NoEvent, ACCESS_TYPE
    <2> QED
      BY <2>1, <2>2, <2>3 DEF TypeOK
  <1>2. ConsumersHaveRead
    BY DEF ConsumersHaveRead
  <1> QED
    BY <1>1, <1>2 DEF IInv, InvalidIffUnshared, StaleIffModified, SharersAreFresh,
                      SingleOwner, ProducerHoldsCopy

\* With the invariant, an eviction by which a MODIFIED line loses its last
\* sharer, or its only owner in the baseline, is a write back.
LEMMA OwnerWritesBack ==
  ASSUME IInv, line.state = "MODIFIED", NEW S \in SUBSET Proc
  PROVE  /\ line.sharer_vector \subseteq S => \E p \in S : HasOwnership(line, p)
         /\ ~Detector /\ (\E p \in S : HasOwnership(line, p)) => line.sharer_vector \subseteq S
  <1>1. CASE Detector
    <2>1. line.last_writer \in line.sharer_vector
      BY <1>1 DEF IInv, ProducerHoldsCopy
    <2> QED
      BY <1>1, <2>1 DEF HasOwnership, is_owner, is_set, is_last_writer
  <1>2. CASE ~Detector
    <2>1. PICK p \in Proc : line.sharer_vector = {p}
      BY <1>2 DEF IInv, SingleOwner
    <2> QED
      BY <1>2, <2>1 DEF HasOwnership, is_owner, is_set
  <1> QED
    BY <1>1, <1>2

\* ReadLine at a state of the invariant.
LEMMA ReadFromInvariant ==
  ASSUME IInv, NEW pid \in Proc
  PROVE  LET r == process_read(line, pid, Home) IN
         /\ r \in Reply
         /\ r.response = IF pid \in line.sharer_vector THEN "CACHE_HIT" ELSE "CACHE_MISS"
         /\ r.line.sharer_vector = line.sharer_vector \cup {pid}
         /\ r.line.state = IF pid \in line.sharer_vector THEN line.state ELSE "SHARED"
         /\ r.line.last_writer = line.last_writer
         /\ \/ r.line.read_count = line.read_count
            \/ r.line.read_count = [line.read_count EXCEPT ![pid] = IF @ < 3 THEN @ + 1 ELSE @]
         /\ r.writeBack <=> (pid \notin line.sharer_vector /\ line.state = "MODIFIED")
  <1>1. line \in Line
    BY DEF IInv, TypeOK
  <1> QED
    BY <1>1, ReadLine DEF IInv, InvalidIffUnshared

LEMMA ReadStep ==
  ASSUME IInv, NEW pid \in Proc, ProcessRead(pid)
  PROVE  IInv'
  <1> DEFINE r == process_read(line, pid, Home)
  <1>0. line \in Line /\ reads \in [Proc -> ReadCounts]
    BY DEF IInv, TypeOK
  <1>1. /\ r \in Reply
        /\ r.response = IF pid \in line.sharer_vector THEN "CACHE_HIT" ELSE "CACHE_MISS"
        /\ r.line.sharer_vector = line.sharer_vector \cup {pid}
        /\ r.line.state = IF pid \in line.sharer_vector THEN line.state ELSE "SHARED"
        /\ r.line.last_writer = line.last_writer
        /\ \/ r.line.read_count = line.read_count
           \/ r.line.read_count = [line.read_count EXCEPT ![pid] = IF @ < 3 THEN @ + 1 ELSE @]
        /\ r.writeBack <=> (pid \notin line.sharer_vector /\ line.state = "MODIFIED")
    BY ReadFromInvariant
  <1>2. /\ line' = r.line
        /\ event' = Profile("load", pid, r)
        /\ stale' = (stale /\ ~r.writeBack)
        /\ fresh' = IF r.response = "CACHE_HIT" THEN fresh
                    ELSE IF stale' THEN fresh \ {pid} ELSE fresh \cup {pid}
        /\ reads' = [reads EXCEPT ![pid] = IF @ < 3 THEN @ + 1 ELSE @]
    BY DEF ProcessRead
  <1> HIDE DEF r
  <1>3. TypeOK'
    <2>1. event' \in Event
      BY <1>1, <1>2 DEF Profile, Event, Reply
    <2>2. line' \in Line
      BY <1>1, <1>2 DEF Reply
    <2>3. reads' \in [Proc -> ReadCounts]
      BY <1>0, <1>2 DEF ReadCounts
    <2>4. stale' \in BOOLEAN
      BY <1>2
    <2>5. fresh' \in SUBSET Proc
      BY <1>2 DEF IInv, TypeOK
    <2> QED
      BY <2>1, <2>2, <2>3, <2>4, <2>5 DEF TypeOK
  <1>4. InvalidIffUnshared'
    BY <1>1, <1>2 DEF IInv, InvalidIffUnshared
  <1>5. StaleIffModified'
    BY <1>1, <1>2 DEF IInv, StaleIffModified
  <1>6. SharersAreFresh'
    BY <1>1, <1>2, <1>5 DEF IInv, SharersAreFresh, StaleIffModified
  <1>7. SingleOwner'
    <2>1. pid \in line.sharer_vector => line'.sharer_vector = line.sharer_vector
      BY <1>1, <1>2
    <2> QED
      BY <1>1, <1>2, <2>1 DEF IInv, SingleOwner
  <1>8. ProducerHoldsCopy'
    BY <1>1, <1>2 DEF IInv, ProducerHoldsCopy
  <1>9. ConsumersHaveRead'
    <2> SUFFICES ASSUME Detector, NEW p \in Proc
                 PROVE  line'.read_count[p] <= reads'[p]
      BY DEF ConsumersHaveRead
    <2>1. /\ line.read_count \in [Proc -> ReadCounts]
          /\ line.read_count[p] \in 0 .. 3
          /\ reads[p] \in 0 .. 3
          /\ line.read_count[p] <= reads[p]
      BY <1>0 DEF Line, ReadCounts, IInv, ConsumersHaveRead
    <2>2. reads'[p] = IF p = pid /\ reads[p] < 3 THEN reads[p] + 1 ELSE reads[p]
      BY <1>0, <1>2
    <2>3. \/ line'.read_count[p] = line.read_count[p]
          \/ line'.read_count[p] = IF p = pid /\ line.read_count[p] < 3
                                   THEN line.read_count[p] + 1 ELSE line.read_count[p]
      BY <1>1, <1>2, <2>1
    <2> QED
      BY <2>1, <2>2, <2>3
  <1> QED
    BY <1>3, <1>4, <1>5, <1>6, <1>7, <1>8, <1>9 DEF IInv

LEMMA WriteStep ==
  ASSUME IInv, NEW pid \in Proc, ProcessWrite(pid)
  PROVE  IInv'
  <1> DEFINE w == process_write(line, pid, Home)
  <1>0. line \in Line /\ reads \in [Proc -> ReadCounts]
    BY DEF IInv, TypeOK
  <1>1. /\ w \in Reply
        /\ w.line.state = "MODIFIED"
        /\ w.line.sharer_vector = {pid} \cup w.pushed
        /\ ~Detector => w.pushed = {}
        /\ Detector => w.line.last_writer = pid
        /\ Detector => \/ w.line.read_count = [p \in Proc |-> 0]
                       \/ /\ pid = line.last_writer
                          /\ w.line.read_count = line.read_count
    BY <1>0, WriteLine DEF IInv, InvalidIffUnshared
  <1>2. /\ line' = w.line
        /\ event' = Profile("store", pid, w)
        /\ stale' = TRUE
        /\ fresh' = {pid} \cup w.pushed
        /\ reads' = IF pid = line.last_writer THEN reads ELSE [p \in Proc |-> 0]
    BY DEF ProcessWrite
  <1> HIDE DEF w
  <1>3. TypeOK'
    <2>1. event' \in Event
      BY <1>1, <1>2 DEF Profile, Event, Reply
    <2>2. line' \in Line /\ fresh' \in SUBSET Proc
      BY <1>1, <1>2 DEF Reply
    <2>3. reads' \in [Proc -> ReadCounts]
      BY <1>0, <1>2 DEF ReadCounts
    <2> QED
      BY <1>2, <2>1, <2>2, <2>3 DEF TypeOK
  <1>4. InvalidIffUnshared' /\ StaleIffModified' /\ SharersAreFresh'
    BY <1>1, <1>2 DEF InvalidIffUnshared, StaleIffModified, SharersAreFresh
  <1>5. SingleOwner' /\ ProducerHoldsCopy'
    BY <1>1, <1>2 DEF SingleOwner, ProducerHoldsCopy
  <1>6. ConsumersHaveRead'
    <2> SUFFICES ASSUME Detector, NEW p \in Proc
                 PROVE  line'.read_count[p] <= reads'[p]
      BY DEF ConsumersHaveRead
    <2>1. reads'[p] \in Nat
      BY <1>3 DEF TypeOK, ReadCounts
    <2>2. line.read_count[p] <= reads[p]
      BY DEF IInv, ConsumersHaveRead
    <2> QED
      BY <1>1, <1>2, <2>1, <2>2
  <1> QED
    BY <1>3, <1>4, <1>5, <1>6 DEF IInv

LEMMA InvalidateStep ==
  ASSUME IInv, NEW S \in SUBSET Proc, Invalidate(S)
  PROVE  IInv'
  <1> DEFINE r == invalidate(line, S)
  <1>0. line \in Line
    BY DEF IInv, TypeOK
  <1>1. /\ r.line \in Line
        /\ r.writeBack <=> \E p \in S : HasOwnership(line, p)
        /\ r.line.sharer_vector = line.sharer_vector \ S
        /\ r.line.last_writer = line.last_writer
        /\ r.line.read_count = line.read_count
        /\ r.line.state = IF line.sharer_vector \ S = {} THEN "INVALID"
                          ELSE IF r.writeBack
                               THEN IF Detector THEN "SHARED" ELSE "INVALID"
                               ELSE line.state
    BY <1>0, InvalidateLine
  <1>2. /\ line' = r.line
        /\ event' = EvictEvent(S, r.writeBack)
        /\ stale' = (stale /\ ~r.writeBack)
        /\ fresh' = fresh \ S
        /\ reads' = reads
    BY DEF Invalidate
  <1> HIDE DEF r
  <1>3. r.writeBack => line.state = "MODIFIED"
    BY <1>1 DEF HasOwnership, is_owner
  <1>4. TypeOK'
    <2>1. event' \in Event
      <3>1. CASE r.writeBack
        <4> DEFINE q == CHOOSE p \in S : HasOwnership(line, p)
        <4>1. q \in Proc
          BY <1>1, <3>1
        <4>2. event' = [ op |-> "evict", pid |-> q, response |-> "CACHE_MISS",
                         cost |-> data_write_back(q, Home),
                         hops |-> get_directory_hops(q, Home) ]
          BY <1>2, <3>1 DEF EvictEvent
        <4> HIDE DEF q
        <4> QED
          BY <4>1, <4>2, CostsNat DEF Event, ACCESS_TYPE
      <3>2. CASE ~r.writeBack
        BY <1>2, <3>2 DEF EvictEvent, NoEvent, Event, ACCESS_TYPE
      <3> QED
        BY <3>1, <3>2
    <2>2. line' \in Line
      BY <1>1, <1>2
    <2>3. stale' \in BOOLEAN
      BY <1>2
    <2> QED
      BY <1>2, <2>1, <2>2, <2>3 DEF IInv, TypeOK
  <1>5. line.state = "MODIFIED" =>
          /\ line.sharer_vector \ S = {} => r.writeBack
          /\ ~Detector /\ r.writeBack => line.sharer_vector \ S = {}
    BY <1>1, OwnerWritesBack
  <1>6. InvalidIffUnshared'
    BY <1>1, <1>2, <1>3, <1>5 DEF IInv, InvalidIffUnshared
  <1>7. StaleIffModified'
    BY <1>1, <1>2, <1>3, <1>5 DEF IInv, StaleIffModified
  <1>8. SharersAreFresh'
    BY <1>1, <1>2 DEF IInv, SharersAreFresh
  <1>9. SingleOwner'
    <2> SUFFICES ASSUME ~Detector, line'.state = "MODIFIED"
                 PROVE  \E p \in Proc : line'.sharer_vector = {p}
      BY DEF SingleOwner
    <2>1. line.state = "MODIFIED" /\ ~r.writeBack /\ line.sharer_vector \ S # {}
      BY <1>1, <1>2, <1>3
    <2>2. PICK p \in Proc : line.sharer_vector = {p}
      BY <2>1 DEF IInv, SingleOwner
    <2>3. line'.sharer_vector = {p}
      BY <1>1, <1>2, <2>1, <2>2
    <2> QED
      BY <2>3
  <1>10. ProducerHoldsCopy'
    <2> SUFFICES ASSUME Detector, line'.state = "MODIFIED"
                 PROVE  line'.last_writer \in line'.sharer_vector
      BY DEF ProducerHoldsCopy
    <2>1. line.state = "MODIFIED" /\ ~r.writeBack
      BY <1>1, <1>2, <1>3
    <2>2. line.last_writer \in line.sharer_vector
      BY <2>1 DEF IInv, ProducerHoldsCopy
    <2>3. line.last_writer \notin S
      BY <1>1, <2>1, <2>2 DEF HasOwnership, is_owner, is_set, is_last_writer
    <2> QED
      BY <1>1, <1>2, <2>2, <2>3
  <1>11. ConsumersHaveRead'
    BY <1>1, <1>2 DEF IInv, ConsumersHaveRead
  <1> QED
    BY <1>4, <1>6, <1>7, <1>8, <1>9, <1>10, <1>11 DEF IInv

LEMMA NextIInv == IInv /\ [Next]_vars => IInv'
  <1> SUFFICES ASSUME IInv, [Next]_vars PROVE IInv'
    OBVIOUS
  <1>1. ASSUME NEW pid \in Proc, ProcessRead(pid) PROVE IInv'
    BY <1>1, ReadStep
  <1>2. ASSUME NEW pid \in Proc, ProcessWrite(pid) PROVE IInv'
    BY <1>2, WriteStep
  <1>3. ASSUME NEW S \in SUBSET Proc, Invalidate(S) PROVE IInv'
    BY <1>3, InvalidateStep
  <1>4. CASE UNCHANGED vars
    BY <1>4 DEF vars, IInv, TypeOK, InvalidIffUnshared, StaleIffModified, SharersAreFresh,
                SingleOwner, ProducerHoldsCopy, ConsumersHaveRead
  <1> QED
    BY <1>1, <1>2, <1>3, <1>4 DEF Next

THEOREM Invariance == Spec => []IInv
  BY InitIInv, NextIInv, PTL DEF Spec

-----------------------------------------------------------------------------
(* The safety invariants of DirProtocol.                                   *)

\* The directory line, the reported events and the history stay well formed.
THEOREM TypeCorrect == Spec => []TypeOK
  BY Invariance, PTL DEF IInv

\* INVALID says exactly that no processor holds the line, so the assertions on
\* dir.state and the one at the end of the owner() scan never fail.
THEOREM StateMatchesSharers == Spec => []InvalidIffUnshared
  BY Invariance, PTL DEF IInv

\* No order of reads, writes and evictions drops the last written value
\* without a write back.
THEOREM MemoryMatchesState == Spec => []StaleIffModified
  BY Invariance, PTL DEF IInv

\* Whoever is listed as a sharer was handed the last written value.
THEOREM NoOldCopies == Spec => []SharersAreFresh
  BY Invariance, PTL DEF IInv

\* Write-invalidate: a MODIFIED line has one owner.
THEOREM OneOwner == Spec => []SingleOwner
  BY Invariance, PTL DEF IInv

\* Adaptive: the last writer of a MODIFIED line still holds it.
THEOREM ProducerCanWriteBack == Spec => []ProducerHoldsCopy
  BY Invariance, PTL DEF IInv

\* A consumer has read more than once since the line changed writer.
THEOREM ConsumersAreReaders == Spec => []ConsumersHaveRead
  BY Invariance, PTL DEF IInv

\* Evictions of one line by several caches in a controller step may be taken
\* one at a time in any order, with one write back between them at most.
THEOREM InvalidateOrder == Spec => []InvalidateIsSequential
  <1>1. IInv => InvalidateIsSequential
    <2> SUFFICES ASSUME IInv, NEW S \in SUBSET Proc, NEW q \in Proc \ S
                 PROVE  LET first  == invalidate(line, S)
                            second == invalidate(first.line, {q})
                            both   == invalidate(line, S \cup {q})
                        IN /\ second.line = both.line
                           /\ both.writeBack <=> (first.writeBack \/ second.writeBack)
                           /\ ~(first.writeBack /\ second.writeBack)
      BY DEF InvalidateIsSequential
    <2> DEFINE first  == invalidate(line, S)
               second == invalidate(first.line, {q})
               both   == invalidate(line, S \cup {q})
    <2>0. line \in Line /\ S \cup {q} \in SUBSET Proc /\ {q} \in SUBSET Proc
      BY DEF IInv, TypeOK
    <2>1. /\ first.line \in Line
          /\ first.writeBack <=> \E p \in S : HasOwnership(line, p)
          /\ first.line.sharer_vector = line.sharer_vector \ S
          /\ first.line.last_writer = line.last_writer
          /\ first.line.read_count = line.read_count
          /\ first.line.state = IF line.sharer_vector \ S = {} THEN "INVALID"
                                ELSE IF first.writeBack
                                     THEN IF Detector THEN "SHARED" ELSE "INVALID"
                                     ELSE line.state
      BY <2>0, InvalidateLine
    <2>2. /\ both.line \in Line
          /\ both.writeBack <=> \E p \in S \cup {q} : HasOwnership(line, p)
          /\ both.line.sharer_vector = line.sharer_vector \ (S \cup {q})
          /\ both.line.last_writer = line.last_writer
          /\ both.line.read_count = line.read_count
          /\ both.line.state = IF line.sharer_vector \ (S \cup {q}) = {} THEN "INVALID"
                               ELSE IF both.writeBack
                                    THEN IF Detector THEN "SHARED" ELSE "INVALID"
                                    ELSE line.state
      BY <2>0, InvalidateLine
    <2> DEFINE d == first.line
    <2> HIDE DEF first, both, d
    <2>3. d = first.line
      BY DEF d
    <2>4. /\ second.line \in Line
          /\ second.writeBack <=> HasOwnership(d, q)
          /\ second.line.sharer_vector = d.sharer_vector \ {q}
          /\ second.line.last_writer = d.last_writer
          /\ second.line.read_count = d.read_count
          /\ second.line.state = IF d.sharer_vector \ {q} = {} THEN "INVALID"
                                 ELSE IF second.writeBack
                                      THEN IF Detector THEN "SHARED" ELSE "INVALID"
                                      ELSE d.state
      BY <2>0, <2>1, <2>3, InvalidateLine
    <2> HIDE DEF second
    <2>5. ~(first.writeBack /\ HasOwnership(d, q))
      <3>1. first.writeBack => d.state # "MODIFIED"
        BY <2>1, <2>3
      <3> QED
        BY <3>1 DEF HasOwnership, is_owner
    <2>6. ~first.writeBack => (HasOwnership(d, q) <=> HasOwnership(line, q))
      <3>1. ~first.writeBack /\ line.sharer_vector \ S # {} => d.state = line.state
        BY <2>1, <2>3
      <3>2. line.sharer_vector \ S = {} => q \notin line.sharer_vector /\ q \notin d.sharer_vector
        BY <2>1, <2>3
      <3>3. q \in d.sharer_vector <=> q \in line.sharer_vector
        BY <2>1, <2>3
      <3>4. d.last_writer = line.last_writer
        BY <2>1, <2>3
      <3> QED
        BY <3>1, <3>2, <3>3, <3>4 DEF HasOwnership, is_owner, is_set, is_last_writer
    <2>7. both.writeBack <=> (first.writeBack \/ second.writeBack)
      BY <2>1, <2>2, <2>4, <2>5, <2>6, OwnerWritesBack
    <2>8. second.line = both.line
      BY <2>0, InvalidateTwice DEF first, second, both
    <2> QED
      BY <2>4, <2>5, <2>7, <2>8 DEF first, second, both, d
  <1> QED
    BY <1>1, Invariance, PTL

-----------------------------------------------------------------------------
(* What a step may never do.                                               *)

\* A load is a hit exactly when the directory listed the processor before.
THEOREM LoadHits == Spec => LoadHitMeansHeld
  <1>1. IInv /\ [Next]_vars
          => [Ran("load") => (event'.response = "CACHE_HIT" <=> Held(event'.pid))]_vars
    <2> SUFFICES ASSUME IInv, Next, event'.op = "load"
                 PROVE  event'.response = "CACHE_HIT" <=> event'.pid \in line.sharer_vector
      BY DEF Ran, Held, is_set
    <2>1. ASSUME NEW pid \in Proc, ProcessRead(pid)
          PROVE  event'.response = "CACHE_HIT" <=> event'.pid \in line.sharer_vector
      <3>1. process_read(line, pid, Home).response
              = IF pid \in line.sharer_vector THEN "CACHE_HIT" ELSE "CACHE_MISS"
        BY ReadLine DEF IInv, TypeOK, InvalidIffUnshared
      <3> QED
        BY <2>1, <3>1 DEF ProcessRead, Profile
    <2>2. ASSUME NEW pid \in Proc, ProcessWrite(pid) PROVE FALSE
      BY <2>2 DEF ProcessWrite, Profile
    <2>3. ASSUME NEW S \in SUBSET Proc, Invalidate(S) PROVE FALSE
      BY <2>3 DEF Invalidate, EvictEvent, NoEvent
    <2> QED
      BY <2>1, <2>2, <2>3 DEF Next
  <1> QED
    BY <1>1, Invariance, PTL DEF Spec, LoadHitMeansHeld

\* Each access to memory costs more than all accesses to caches and directories
\* of one handler together, so they can be counted from the cost.
LEMMA CountedAccesses ==
  /\ \A home \in Proc : \A p, q :
       /\ MemoryAccesses(get_directory_cost(p, home) + LOCAL_CACHE_ACCESS) = 0
       /\ MemoryAccesses(get_directory_cost(p, home) + MEMORY_ACCESS) = 1
       /\ MemoryAccesses(data_write_back(p, home)) = 1
       /\ MemoryAccesses(get_directory_cost(p, home) + MEMORY_ACCESS
                           + data_write_back(q, home)) = 2
  /\ MemoryAccesses(0) = 0
  BY DEF MemoryAccesses, get_directory_cost, data_write_back,
         LOCAL_CACHE_ACCESS, REMOTE_CACHE_ACCESS, MEMORY_ACCESS

\* A read accesses memory once if it misses and once more for the owner.
LEMMA ReadAccesses ==
  ASSUME IInv, NEW pid \in Proc
  PROVE  LET missed == pid \notin line.sharer_vector IN
         MemoryAccesses(process_read(line, pid, Home).cost)
           = IF missed /\ line.state = "MODIFIED" THEN 2 ELSE IF missed THEN 1 ELSE 0
  <1> DEFINE r == process_read(line, pid, Home)
             f == fetch(line, pid, Home)
             g == get_directory_cost(pid, Home)
             w == data_write_back(owner(line), Home)
  <1>1. g \in Nat /\ w \in Nat
    BY CostsNat
  <1>2. CASE line.state = "INVALID"
    <2>1. r.cost = g + MEMORY_ACCESS
      <3>1. read_miss(line, pid, Home).cost = g + MEMORY_ACCESS
        BY DEF read_miss, ServedByMemory
      <3>2. r = [read_miss(line, pid, Home) EXCEPT !.line = increase_read_count(@, pid)]
        BY <1>2 DEF process_read, read_miss, ServedByMemory
      <3>3. read_miss(line, pid, Home) \in Reply
        BY ServedByMemoryLine DEF read_miss, IInv, TypeOK, CACHE_STATE
      <3> HIDE DEF r
      <3> QED
        BY <3>1, <3>2, <3>3 DEF Reply
    <2>2. pid \notin line.sharer_vector
      BY <1>2 DEF IInv, InvalidIffUnshared
    <2> QED
      BY <1>2, <2>1, <2>2, CountedAccesses
  <1>3. CASE line.state # "INVALID"
    <2>1. f \in Reply
      BY FetchReply DEF IInv, TypeOK
    <2>2. r.cost = f.cost
      <3>1. r = IF f.response = "CACHE_MISS"
                THEN [f EXCEPT !.line = increase_read_count(@, pid)] ELSE f
        BY <1>3 DEF process_read
      <3> HIDE DEF f, r
      <3> QED
        BY <2>1, <3>1 DEF Reply
    <2>3. f.cost = g + (IF pid \in line.sharer_vector THEN LOCAL_CACHE_ACCESS ELSE MEMORY_ACCESS)
                     + (IF pid \notin line.sharer_vector /\ line.state = "MODIFIED"
                        THEN w ELSE 0)
      BY DEF fetch, is_set
    <2> HIDE DEF f, r, g, w
    <2>4. f.cost = IF pid \in line.sharer_vector THEN g + LOCAL_CACHE_ACCESS
                   ELSE IF line.state = "MODIFIED" THEN g + MEMORY_ACCESS + w
                   ELSE g + MEMORY_ACCESS
      BY <1>1, <2>3 DEF LOCAL_CACHE_ACCESS, MEMORY_ACCESS
    <2> QED
      BY <2>2, <2>4, CountedAccesses DEF g, w, r
  <1> QED
    BY <1>2, <1>3

\* The MODIFIED state ends in loads and evictions, each of which then charges
\* one write back, and no other load or eviction charges one.
THEOREM WriteBackIsCharged == Spec => LeavingModifiedIsCharged
  <1> DEFINE left == line.state = "MODIFIED" /\ line'.state # "MODIFIED"
             charged == MemoryAccesses(event'.cost)
                          - IF event'.op = "load" /\ event'.response = "CACHE_MISS"
                            THEN 1 ELSE 0
             Goal == /\ left => event'.op \in {"load", "evict"}
                     /\ event'.op \in {"load", "evict"} => charged = IF left THEN 1 ELSE 0
  <1>1. IInv /\ [Next]_vars => [Goal]_vars
    <2> SUFFICES ASSUME IInv, Next PROVE Goal
      OBVIOUS
    <2>1. ASSUME NEW pid \in Proc, ProcessRead(pid) PROVE Goal
      <3> DEFINE r == process_read(line, pid, Home)
                 missed == pid \notin line.sharer_vector
      <3>1. /\ r.response = IF missed THEN "CACHE_MISS" ELSE "CACHE_HIT"
            /\ r.line.state = IF missed THEN "SHARED" ELSE line.state
        BY ReadFromInvariant
      <3>2. MemoryAccesses(r.cost)
              = IF missed /\ line.state = "MODIFIED" THEN 2 ELSE IF missed THEN 1 ELSE 0
        BY ReadAccesses
      <3>3. line' = r.line /\ event' = Profile("load", pid, r)
        BY <2>1 DEF ProcessRead
      <3> HIDE DEF r
      <3>4. event'.op = "load" /\ event'.response = r.response /\ event'.cost = r.cost
        BY <3>3 DEF Profile
      <3>5. left <=> missed /\ line.state = "MODIFIED"
        BY <3>1, <3>3
      <3> QED
        BY <3>1, <3>2, <3>4, <3>5
    <2>2. ASSUME NEW pid \in Proc, ProcessWrite(pid) PROVE Goal
      <3>1. process_write(line, pid, Home).line.state = "MODIFIED"
        BY WriteLine DEF IInv, TypeOK, InvalidIffUnshared
      <3> QED
        BY <2>2, <3>1 DEF ProcessWrite, Profile
    <2>3. ASSUME NEW S \in SUBSET Proc, Invalidate(S) PROVE Goal
      <3> DEFINE r == invalidate(line, S)
      <3>1. /\ r.writeBack <=> \E p \in S : HasOwnership(line, p)
            /\ r.line.state = IF line.sharer_vector \ S = {} THEN "INVALID"
                              ELSE IF r.writeBack
                                   THEN IF Detector THEN "SHARED" ELSE "INVALID"
                                   ELSE line.state
        BY InvalidateLine DEF IInv, TypeOK
      <3>2. line' = r.line /\ event' = EvictEvent(S, r.writeBack)
        BY <2>3 DEF Invalidate
      <3> HIDE DEF r
      <3>3. r.writeBack => line.state = "MODIFIED"
        BY <3>1 DEF HasOwnership, is_owner
      <3>4. left <=> r.writeBack
        <4>1. line.state = "MODIFIED" /\ line.sharer_vector \ S = {} => r.writeBack
          BY <3>1, OwnerWritesBack
        <4> QED
          BY <3>1, <3>2, <3>3, <4>1
      <3>5. CASE r.writeBack
        <4>1. \E p : /\ event'.op = "evict"
                     /\ event'.cost = data_write_back(p, Home)
          BY <3>2, <3>5 DEF EvictEvent
        <4>2. MemoryAccesses(event'.cost) = 1
          BY <4>1, CountedAccesses
        <4> QED
          BY <3>4, <3>5, <4>1, <4>2
      <3>6. CASE ~r.writeBack
        BY <3>2, <3>4, <3>6 DEF EvictEvent, NoEvent
      <3> QED
        BY <3>5, <3>6
    <2> QED
      BY <2>1, <2>2, <2>3 DEF Next
  <1>2. Goal => LET out == line.state = "MODIFIED" /\ line'.state # "MODIFIED" IN
                  /\ out => Ran("load") \/ Ran("evict")
                  /\ Ran("load") \/ Ran("evict") => WriteBacks = IF out THEN 1 ELSE 0
    BY DEF WriteBacks, Ran
  <1> QED
    BY <1>1, <1>2, Invariance, PTL DEF Spec, LeavingModifiedIsCharged

\* The producer's own stores and other processors' loads never take a
\* qualified consumer's copy away.
THEOREM ConsumersKeep == Spec => ConsumersKeepTheirCopy
  <1>1. IInv /\ [Next]_vars
          => [\A p \in Proc :
                Detector /\ Held(p) /\ qualified_reader(line, p) /\ p \notin line'.sharer_vector
                  => \/ ~Ran("load") /\ ~Ran("store")
                     \/ line'.last_writer # line.last_writer]_vars
    <2> SUFFICES ASSUME IInv, Next, NEW p \in Proc, Detector,
                        p \in line.sharer_vector, qualified_reader(line, p),
                        p \notin line'.sharer_vector, line'.last_writer = line.last_writer
                 PROVE  event'.op \notin {"load", "store"}
      BY DEF Ran, Held, is_set
    <2>1. ASSUME NEW pid \in Proc, ProcessRead(pid) PROVE FALSE
      <3>1. process_read(line, pid, Home).line.sharer_vector = line.sharer_vector \cup {pid}
        BY ReadLine DEF IInv, TypeOK, InvalidIffUnshared
      <3> QED
        BY <2>1, <3>1 DEF ProcessRead
    <2>2. ASSUME NEW pid \in Proc, ProcessWrite(pid) PROVE FALSE
      <3> DEFINE w == process_write(line, pid, Home)
      <3>1. /\ w.line.sharer_vector = {pid} \cup w.pushed
            /\ w.line.last_writer = pid
            /\ line.state # "INVALID" /\ pid = line.last_writer => w.pushed = Consumers(line, pid)
        BY WriteLine DEF IInv, TypeOK, InvalidIffUnshared
      <3>2. line' = w.line
        BY <2>2 DEF ProcessWrite
      <3> HIDE DEF w
      <3>3. line.state # "INVALID"
        BY DEF IInv, InvalidIffUnshared
      <3> QED
        BY <3>1, <3>2, <3>3 DEF Consumers
    <2>3. ASSUME NEW S \in SUBSET Proc, Invalidate(S) PROVE event'.op \notin {"load", "store"}
      BY <2>3 DEF Invalidate, EvictEvent, NoEvent
    <2> QED
      BY <2>1, <2>2, <2>3 DEF Next
  <1> QED
    BY <1>1, Invariance, PTL DEF Spec, ConsumersKeepTheirCopy

-----------------------------------------------------------------------------
(* The directory line implements the abstract promise.                     *)

LEMMA PromiseStep == IInv /\ [Next]_vars => [Promise!Next]_(Promise!copyVars)
  <1> SUFFICES ASSUME IInv, [Next]_vars PROVE [Promise!Next]_(Promise!copyVars)
    OBVIOUS
  <1> DEFINE memory == IF stale THEN "stale" ELSE "current"
  <1>0. line \in Line
    BY DEF IInv, TypeOK
  <1>1. ASSUME NEW pid \in Proc, ProcessRead(pid) PROVE Promise!Load(pid)
    <2> DEFINE r == process_read(line, pid, Home)
    <2>1. /\ r.line.sharer_vector = line.sharer_vector \cup {pid}
          /\ r.writeBack <=> (pid \notin line.sharer_vector /\ line.state = "MODIFIED")
      BY <1>0, ReadLine DEF IInv, InvalidIffUnshared
    <2>2. line' = r.line /\ stale' = (stale /\ ~r.writeBack)
      BY <1>1 DEF ProcessRead
    <2> HIDE DEF r
    <2>3. stale' <=> (stale /\ pid \in line.sharer_vector)
      BY <2>1, <2>2 DEF IInv, StaleIffModified
    <2> QED
      BY <2>1, <2>2, <2>3 DEF Promise!Load
  <1>2. ASSUME NEW pid \in Proc, ProcessWrite(pid) PROVE Promise!Store(pid)
    <2> DEFINE w == process_write(line, pid, Home)
    <2>1. /\ w \in Reply
          /\ w.line.sharer_vector = {pid} \cup w.pushed
          /\ ~Detector => w.pushed = {}
      BY <1>0, WriteLine DEF IInv, InvalidIffUnshared
    <2>2. line' = w.line /\ stale'
      BY <1>2 DEF ProcessWrite
    <2> HIDE DEF w
    <2>3. line'.sharer_vector \in SUBSET Proc
      BY <2>1, <2>2 DEF Reply, Line
    <2> QED
      BY <2>1, <2>2, <2>3 DEF Promise!Store
  <1>3. ASSUME NEW S \in SUBSET Proc, Invalidate(S) PROVE Promise!Drop(S)
    <2>1. IInv'
      BY <1>3, InvalidateStep
    <2>2. line'.sharer_vector = line.sharer_vector \ S
      BY <1>0, <1>3, InvalidateLine DEF Invalidate
    <2>3. stale' => stale
      BY <1>3 DEF Invalidate
    <2>4. line'.sharer_vector = {} => ~stale'
      BY <2>1 DEF IInv, InvalidIffUnshared, StaleIffModified
    <2> QED
      BY <2>2, <2>3, <2>4 DEF Promise!Drop
  <1>4. CASE UNCHANGED vars
    BY <1>4 DEF vars, Promise!copyVars
  <1> QED
    BY <1>1, <1>2, <1>3, <1>4 DEF Next, Promise!Next

\* Read the sharers as the copies and the history variable as memory: every
\* behaviour of the directory line is one of CopySet.
THEOREM Refinement == Spec => ImplementsCopySet
  <1>1. Init => Promise!Init
    BY DEF Init, Directory_Line, Promise!Init
  <1> QED
    BY <1>1, PromiseStep, Invariance, PTL DEF Spec, ImplementsCopySet, Promise!Spec

\* What CopySet promises holds of the directory line: the last written value
\* is somewhere, and in one place only under write-invalidate.
THEOREM NothingIsLost == Spec => []Promise!NeverLost
  <1>1. IInv => Promise!NeverLost
    BY DEF IInv, InvalidIffUnshared, StaleIffModified, SingleOwner, Promise!NeverLost
  <1> QED
    BY <1>1, Invariance, PTL

-----------------------------------------------------------------------------
(* The baseline: two properties that the detector breaks.                  *)

\* In the write-invalidate protocol a store is reported as a hit exactly when
\* the processor held a copy.
THEOREM BaselineStoreHits == ~Detector => (Spec => StoreHitMeansHeld)
  <1> SUFFICES ASSUME ~Detector PROVE Spec => StoreHitMeansHeld
    OBVIOUS
  <1>1. IInv /\ [Next]_vars
          => [Ran("store") => (event'.response = "CACHE_HIT" <=> Held(event'.pid))]_vars
    <2> SUFFICES ASSUME IInv, Next, event'.op = "store"
                 PROVE  event'.response = "CACHE_HIT" <=> event'.pid \in line.sharer_vector
      BY DEF Ran, Held, is_set
    <2>1. ASSUME NEW pid \in Proc, ProcessWrite(pid)
          PROVE  event'.response = "CACHE_HIT" <=> event'.pid \in line.sharer_vector
      <3> DEFINE w == process_write(line, pid, Home)
      <3>1. w.response = IF pid \in line.sharer_vector THEN "CACHE_HIT" ELSE "CACHE_MISS"
        <4>1. CASE line.state = "INVALID"
          <5>1. w.response = "CACHE_MISS"
            BY <4>1 DEF process_write, write_miss, ServedByMemory
          <5> QED
            BY <4>1, <5>1 DEF IInv, InvalidIffUnshared
        <4>2. CASE line.state # "INVALID"
          <5>1. w = fetch_and_invalidate(line, pid, Home)
            BY <4>2 DEF process_write
          <5>2. line \in Line
            BY DEF IInv, TypeOK
          <5>3. fetch_and_invalidate(line, pid, Home).response = fetch(line, pid, Home).response
            BY <5>2, FetchAndInvalidateLine
          <5>4. fetch(line, pid, Home).response
                  = IF pid \in line.sharer_vector THEN "CACHE_HIT" ELSE "CACHE_MISS"
            BY <5>2, FetchLine
          <5> QED
            BY <5>1, <5>3, <5>4
        <4> QED
          BY <4>1, <4>2
      <3>2. event' = Profile("store", pid, w)
        BY <2>1 DEF ProcessWrite
      <3> QED
        BY <3>1, <3>2 DEF Profile
    <2>2. ASSUME NEW pid \in Proc, ProcessRead(pid) PROVE FALSE
      BY <2>2 DEF ProcessRead, Profile
    <2>3. ASSUME NEW S \in SUBSET Proc, Invalidate(S) PROVE FALSE
      BY <2>3 DEF Invalidate, EvictEvent, NoEvent
    <2> QED
      BY <2>1, <2>2, <2>3 DEF Next
  <1> QED
    BY <1>1, Invariance, PTL DEF Spec, StoreHitMeansHeld

\* In the write-invalidate protocol a store that takes a MODIFIED line from
\* its owner pays for the owner's write back and for the writer's own fetch.
THEOREM BaselineOwnershipTransfer == ~Detector => (Spec => OwnershipTransferIsCharged)
  <1> SUFFICES ASSUME ~Detector PROVE Spec => OwnershipTransferIsCharged
    OBVIOUS
  <1>1. IInv /\ [Next]_vars
          => [line.state = "MODIFIED" /\ Ran("store") /\ ~Held(event'.pid)
                => event'.cost >= 2 * MEMORY_ACCESS]_vars
    <2> SUFFICES ASSUME IInv, Next, line.state = "MODIFIED", event'.op = "store",
                        event'.pid \notin line.sharer_vector
                 PROVE  event'.cost >= 2 * MEMORY_ACCESS
      BY DEF Ran, Held, is_set
    <2>1. ASSUME NEW pid \in Proc, ProcessWrite(pid)
          PROVE  event'.cost >= 2 * MEMORY_ACCESS
      <3> DEFINE w == process_write(line, pid, Home)
      <3>1. w = fetch_and_invalidate(line, pid, Home)
        BY DEF process_write
      <3>2. event' = Profile("store", pid, w)
        BY <2>1 DEF ProcessWrite
      <3>3. event'.pid = pid /\ event'.cost = w.cost
        BY <3>2 DEF Profile
      <3>4. w.cost = fetch(line, pid, Home).cost
        BY <3>1, FetchAndInvalidateLine DEF IInv, TypeOK
      <3>5. fetch(line, pid, Home).cost
              = get_directory_cost(pid, Home) + MEMORY_ACCESS
                  + (get_directory_cost(owner(line), Home) + MEMORY_ACCESS)
        BY <3>3 DEF fetch, is_set, data_write_back
      <3> HIDE DEF w
      <3> QED
        BY <3>3, <3>4, <3>5, CostsNat DEF MEMORY_ACCESS
    <2>2. ASSUME NEW pid \in Proc, ProcessRead(pid) PROVE FALSE
      BY <2>2 DEF ProcessRead, Profile
    <2>3. ASSUME NEW S \in SUBSET Proc, Invalidate(S) PROVE FALSE
      BY <2>3 DEF Invalidate, EvictEvent, NoEvent
    <2> QED
      BY <2>1, <2>2, <2>3 DEF Next
  <1> QED
    BY <1>1, Invariance, PTL DEF Spec, OwnershipTransferIsCharged

=============================================================================

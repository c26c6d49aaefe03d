---------------------------- MODULE DirProtocol ----------------------------
(***************************************************************************)
(* The life of one directory line: every processor may read, write or      *)
(* evict the address at any moment (the callbacks serialise the handlers   *)
(* with mapLock, so a handler is one step).  A handler touches no line but *)
(* that of its own address, so the directory is a product of such lines.   *)
(* An eviction may come from a processor that is no longer a sharer: an    *)
(* invalidation clears the directory bit and leaves the cache line behind. *)
(*                                                                         *)
(* event is what the handler gave the profiler.  stale, fresh and reads    *)
(* are history variables: the simulator moves no data, they say where the  *)
(* last written value is after the transfers it charges for, and which     *)
(* processors have read since the line last changed writer.  No action     *)
(* reads them.                                                             *)
(***************************************************************************)
EXTENDS DirMSI

CONSTANT Home      \* get_home_node(addr)

ASSUME HomeAssumption == Home \in Proc

VARIABLES
  line,     \* the Directory_Line of the address
  event,    \* the profile_cache_* call of the last handler
  stale,    \* memory lacks the last written value
  fresh,    \* the processors that were handed the last written value
  reads     \* loads per processor since the writer changed, up to 3

vars == <<line, event, stale, fresh, reads>>

NoEvent == [op |-> "none", pid |-> NoWriter, response |-> "CACHE_HIT",
            cost |-> 0, hops |-> 0]

Event ==
  [ op : {"none", "load", "store", "evict"}, pid : Proc \cup {NoWriter},
    response : ACCESS_TYPE, cost : Nat, hops : Nat ]

TypeOK ==
  /\ line  \in Line
  /\ event \in Event
  /\ stale \in BOOLEAN
  /\ fresh \in SUBSET Proc
  /\ reads \in [Proc -> ReadCounts]

Init ==
  /\ line  = Directory_Line
  /\ event = NoEvent
  /\ stale = FALSE
  /\ fresh = {}
  /\ reads = [p \in Proc |-> 0]

-----------------------------------------------------------------------------
Profile(op, pid, r) ==
  [op |-> op, pid |-> pid, response |-> r.response, cost |-> r.cost, hops |-> r.hops]

\* load_single_line's directory half.  A miss is answered from memory, after
\* the owner's write back if there is one; stale memory answers with old data.
ProcessRead(pid) ==
  LET r == process_read(line, pid, Home) IN
  /\ line'  = r.line
  /\ event' = Profile("load", pid, r)
  /\ stale' = (stale /\ ~r.writeBack)
  /\ fresh' = IF r.response = "CACHE_HIT" THEN fresh
              ELSE IF stale' THEN fresh \ {pid} ELSE fresh \cup {pid}
  /\ reads' = [reads EXCEPT ![pid] = IF @ < 3 THEN @ + 1 ELSE @]

\* store_single_line's directory half.  The writer and the processors the data
\* is pushed to have the new value, and no one else does.
ProcessWrite(pid) ==
  LET r == process_write(line, pid, Home) IN
  /\ line'  = r.line
  /\ event' = Profile("store", pid, r)
  /\ stale' = TRUE
  /\ fresh' = {pid} \cup r.pushed
  /\ reads' = IF pid = line.last_writer THEN reads ELSE [p \in Proc |-> 0]

EvictEvent(S, writeBack) ==
  IF writeBack
  THEN LET p == CHOOSE q \in S : HasOwnership(line, q)
       IN [ op |-> "evict", pid |-> p, response |-> "CACHE_MISS",
            cost |-> data_write_back(p, Home), hops |-> get_directory_hops(p, Home) ]
  ELSE NoEvent

\* The caches of the processors of S evict the line in one controller step.
Invalidate(S) ==
  LET r == invalidate(line, S) IN
  /\ line'  = r.line
  /\ event' = EvictEvent(S, r.writeBack)
  /\ stale' = (stale /\ ~r.writeBack)
  /\ fresh' = fresh \ S
  /\ UNCHANGED reads

Next ==
  \/ \E pid \in Proc : ProcessRead(pid) \/ ProcessWrite(pid)
  \/ \E S \in (SUBSET Proc) \ {{}} : Invalidate(S)

Spec == Init /\ [][Next]_vars

-----------------------------------------------------------------------------
(* Safety: state invariants.                                               *)

\* INVALID says exactly that no processor has a copy: the assertions on
\* dir.state in fetch, read_miss and write_miss, and the assertion in owner()
\* that the scan finds a processor, rest on it.
InvalidIffUnshared == line.state = "INVALID" <=> line.sharer_vector = {}

\* Memory lacks the last written value exactly while the line is MODIFIED: a
\* MODIFIED line is never dropped or downgraded without a write back, in
\* whatever order reads, writes and evictions come.
StaleIffModified == stale <=> line.state = "MODIFIED"

\* Every processor the directory lists as a sharer was given the last written
\* value, so a CACHE_HIT never stands for an old copy.
SharersAreFresh == line.sharer_vector \subseteq fresh

\* Without the detector a MODIFIED line has one sharer, its owner.
SingleOwner ==
  ~Detector /\ line.state = "MODIFIED" => \E p \in Proc : line.sharer_vector = {p}

\* With the detector consumers share a MODIFIED line, and the write back is the
\* last writer's duty: it is then always among the sharers, so its eviction
\* is the one that reaches invalidate with ownership.
ProducerHoldsCopy ==
  Detector /\ line.state = "MODIFIED" => line.last_writer \in line.sharer_vector

\* A reader is taken for a consumer only if it read more than once since the
\* line last changed writer (the definition of a consumer in the report).
ConsumersHaveRead ==
  Detector => \A p \in Proc : line.read_count[p] <= reads[p]

\* invalidate called for several processors in one controller step is the same
\* as the calls made one after the other, and at most one of them writes back.
InvalidateIsSequential ==
  \A S \in SUBSET Proc : \A q \in Proc \ S :
    LET first  == invalidate(line, S)
        second == invalidate(first.line, {q})
        both   == invalidate(line, S \cup {q})
    IN /\ second.line = both.line
       /\ both.writeBack <=> (first.writeBack \/ second.writeBack)
       /\ ~(first.writeBack /\ second.writeBack)

-----------------------------------------------------------------------------
(* Safety: what a step may never do.  Every step sets event, so event'      *)
(* tells which handler ran.                                                 *)

Ran(op) == event'.op = op

Held(pid) == is_set(line, pid)

\* A load is reported as a hit exactly when the processor held a copy.
LoadHitMeansHeld ==
  [][Ran("load") => (event'.response = "CACHE_HIT" <=> Held(event'.pid))]_vars

\* The same of a store.  It holds of the baseline; with the detector a store by
\* a new writer is reported as a hit whether or not the writer held a copy,
\* because update_last_writer sets the sharer bit that fetch then tests.  The
\* comments in fetch (coherence.cpp:17 and :22) say which response is which.
StoreHitMeansHeld ==
  [][Ran("store") => (event'.response = "CACHE_HIT" <=> Held(event'.pid))]_vars

\* The write backs a load or an eviction is charged for: its accesses to memory
\* but the one that answers a load miss.
MemoryAccesses(cost) == cost \div MEMORY_ACCESS
WriteBacks ==
  MemoryAccesses(event'.cost) - IF Ran("load") /\ event'.response = "CACHE_MISS" THEN 1 ELSE 0

\* A line is taken out of MODIFIED by loads and evictions only, and these charge
\* one write back if they do so, on top of what they cost themselves, and none
\* if they do not: no owner is left unpaid, and no line written back twice.
LeavingModifiedIsCharged ==
  [][LET left == line.state = "MODIFIED" /\ line'.state # "MODIFIED" IN
       /\ left => Ran("load") \/ Ran("evict")
       /\ Ran("load") \/ Ran("evict") => WriteBacks = IF left THEN 1 ELSE 0]_vars

\* A store that takes a MODIFIED line from its owner charges the owner's write
\* back on top of the writer's own memory access (the first of the report's
\* four write-back cases, applied to a write).
OwnershipTransferIsCharged ==
  [][line.state = "MODIFIED" /\ Ran("store") /\ ~Held(event'.pid)
       => event'.cost >= 2 * MEMORY_ACCESS]_vars

\* A qualified consumer loses its copy only by evicting it or when another
\* processor becomes the writer: the producer's own stores never take it away.
ConsumersKeepTheirCopy ==
  [][\A p \in Proc :
       Detector /\ Held(p) /\ qualified_reader(line, p) /\ p \notin line'.sharer_vector
         => \/ ~Ran("load") /\ ~Ran("store")
            \/ line'.last_writer # line.last_writer]_vars

\* The directory line implements the promise of CopySet: the sharers are the
\* copies, and memory is what the charged write backs make of it.
Promise == INSTANCE CopySet WITH
  Procs   <- Proc,
  Updates <- Detector,
  copies  <- line.sharer_vector,
  memory  <- IF stale THEN "stale" ELSE "current"

ImplementsCopySet == Promise!Spec

=============================================================================

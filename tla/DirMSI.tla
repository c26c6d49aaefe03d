------------------------------- MODULE DirMSI -------------------------------
(***************************************************************************)
(* class DIR_MSI (src/src/simulator/coherence.cpp): the handlers that the  *)
(* cache controller calls, each a function of the directory line it works  *)
(* on.  A handler returns                                                  *)
(*   line      the directory line it leaves behind,                        *)
(*   response, cost, hops   what it hands to the profiler,                 *)
(*   writeBack whether data_write_back was charged,                        *)
(*   pushed    the other processors whose caches it made fetch the line    *)
(*             (controller->fetch_cache_line(i, addr, false)),             *)
(*   refetch   whether it made the writer's own cache fetch it again.      *)
(* Detector is the flag `detector`: FALSE is the write-invalidate baseline *)
(* the constructor selects, TRUE the adaptive protocol of the report.      *)
(***************************************************************************)
EXTENDS DirectoryLine

CONSTANT Detector

ASSUME DetectorAssumption == Detector \in BOOLEAN

LOCAL_CACHE_ACCESS  == 3
REMOTE_CACHE_ACCESS == 7
CACHE_TO_CACHE      == 4
MEMORY_ACCESS       == 100

ACCESS_TYPE == {"CACHE_HIT", "CACHE_MISS"}

Reply ==
  [ line : Line, response : ACCESS_TYPE, cost : Nat, hops : Nat,
    writeBack : BOOLEAN, pushed : SUBSET Proc, refetch : BOOLEAN ]

-----------------------------------------------------------------------------
get_directory_cost(src, dest) ==
  IF src = dest THEN LOCAL_CACHE_ACCESS ELSE REMOTE_CACHE_ACCESS

\* What the same call adds to its `hops` argument: a request and a reply.
get_directory_hops(src, dest) == IF src = dest THEN 0 ELSE 2

\* The hops of one get_directory_cost call for each processor of S.
hops_to(S, home) == 2 * Cardinality(S \ {home})

data_write_back(pid, home) == get_directory_cost(pid, home) + MEMORY_ACCESS

-----------------------------------------------------------------------------
\* Fault: a modified line is read without the owner's write back.
fetch_NoWriteBack(d, pid, home) ==
  LET held == is_set(d, pid) IN
  [ line      |-> IF held THEN d ELSE [set_sharer(d, pid) EXCEPT !.state = "SHARED"],
    response  |-> IF held THEN "CACHE_HIT" ELSE "CACHE_MISS",
    cost      |-> get_directory_cost(pid, home)
                    + (IF held THEN LOCAL_CACHE_ACCESS ELSE MEMORY_ACCESS),
    hops      |-> get_directory_hops(pid, home),
    writeBack |-> FALSE,
    pushed    |-> {},
    refetch   |-> FALSE ]

\* Fault: the sharer bit is set before it is tested.
fetch_SetBeforeTest(d, pid, home) ==
  [ fetch_NoWriteBack(d, pid, home) EXCEPT !.response = "CACHE_HIT" ]

fetch(d, pid, home) ==
  LET held == is_set(d, pid)
      writeBack == ~held /\ d.state = "MODIFIED"
  IN
  [ line      |-> IF held THEN d ELSE [set_sharer(d, pid) EXCEPT !.state = "SHARED"],
    response  |-> IF held THEN "CACHE_HIT" ELSE "CACHE_MISS",
    cost      |-> get_directory_cost(pid, home)
                    + (IF held THEN LOCAL_CACHE_ACCESS ELSE MEMORY_ACCESS)
                    + (IF writeBack THEN data_write_back(owner(d), home) ELSE 0),
    hops      |-> get_directory_hops(pid, home)
                    + (IF writeBack THEN get_directory_hops(owner(d), home) ELSE 0),
    writeBack |-> writeBack,
    pushed    |-> {},
    refetch   |-> FALSE ]

\* Fault: the other sharers keep their bits, as if no invalidation was sent.
fetch_and_invalidate_KeepSharers(d, pid, home) ==
  [ fetch(d, pid, home) EXCEPT !.line.state = "MODIFIED" ]

fetch_and_invalidate(d, pid, home) ==
  LET fetched == fetch(d, pid, home)
      others  == fetched.line.sharer_vector \ {pid}
  IN
  [ fetched EXCEPT !.line.sharer_vector = {pid},
                   !.line.state         = "MODIFIED",
                   !.hops               = @ + hops_to(others, home) ]

\* Fault: a consumer that still shares the line is not taken for one, so the
\* other branch of the loop clears its bit.
Consumers_NotSharing(d, pid) ==
  {i \in Proc \ {pid} : qualified_reader(d, i) /\ ~is_set(d, i)}

Consumers(d, pid) == {i \in Proc \ {pid} : qualified_reader(d, i)}

\* Fault: the consumers are listed as sharers and their caches are not filled.
PushToConsumers_NoFetch(d, pid, home) ==
  [ line      |-> [d EXCEPT !.sharer_vector = {pid} \cup Consumers(d, pid),
                            !.state = "MODIFIED"],
    response  |-> IF is_set(d, pid) THEN "CACHE_HIT" ELSE "CACHE_MISS",
    cost      |-> get_directory_cost(pid, home)
                    + CACHE_TO_CACHE * Cardinality(Consumers(d, pid)),
    hops      |-> get_directory_hops(pid, home),
    writeBack |-> FALSE,
    pushed    |-> {},
    refetch   |-> ~is_set(d, pid) ]

\* The requesting node is the last writer: qualified readers receive the data,
\* every other sharer loses its copy.
PushToConsumers(d, pid, home) ==
  LET held      == is_set(d, pid)
      consumers == Consumers(d, pid)
  IN
  [ line      |-> [d EXCEPT !.sharer_vector = {pid} \cup consumers,
                            !.state = "MODIFIED"],
    response  |-> IF held THEN "CACHE_HIT" ELSE "CACHE_MISS",
    cost      |-> get_directory_cost(pid, home)
                    + (IF held THEN LOCAL_CACHE_ACCESS ELSE MEMORY_ACCESS)
                    + CACHE_TO_CACHE * Cardinality(consumers),
    hops      |-> get_directory_hops(pid, home)
                    + hops_to(consumers \ d.sharer_vector, home),
    writeBack |-> FALSE,
    pushed    |-> consumers,
    refetch   |-> ~held ]

\* Another node wrote last: it is replaced, and then the line is invalidated.
\* The cost computed so far is overwritten, the hops are not.
ReplaceLastWriter(d, pid, home) ==
  [ fetch_and_invalidate(
      update_last_writer(decrease_read_count(d, Consumers(d, pid)), pid), pid, home)
    EXCEPT !.hops = @ + get_directory_hops(pid, home) ]

\* Fault: a sharer that is no consumer keeps its copy on a push.
push_and_invalidate_KeepSharers(d, pid, home) ==
  IF is_last_writer(d, pid)
  THEN [ PushToConsumers(d, pid, home) EXCEPT !.line.sharer_vector = @ \cup d.sharer_vector ]
  ELSE ReplaceLastWriter(d, pid, home)

push_and_invalidate(d, pid, home) ==
  IF is_last_writer(d, pid)
  THEN PushToConsumers(d, pid, home)
  ELSE ReplaceLastWriter(d, pid, home)

-----------------------------------------------------------------------------
\* read_miss and write_miss: the line is INVALID and memory supplies the data.
ServedByMemory(d, pid, home, newState) ==
  [ line      |-> [set_sharer(d, pid) EXCEPT !.state = newState],
    response  |-> "CACHE_MISS",
    cost      |-> get_directory_cost(pid, home) + MEMORY_ACCESS,
    hops      |-> get_directory_hops(pid, home),
    writeBack |-> FALSE,
    pushed    |-> {},
    refetch   |-> FALSE ]

read_miss(d, pid, home) == ServedByMemory(d, pid, home, "SHARED")

\* Fault: a line that nobody holds is written without becoming modified.
write_miss_Shared(d, pid, home) == ServedByMemory(d, pid, home, "SHARED")

write_miss(d, pid, home) == ServedByMemory(d, pid, home, "MODIFIED")

process_read(d, pid, home) ==
  LET r == IF d.state = "INVALID" THEN read_miss(d, pid, home) ELSE fetch(d, pid, home)
  IN IF r.response = "CACHE_MISS"
     THEN [r EXCEPT !.line = increase_read_count(@, pid)]
     ELSE r

process_write(d, pid, home) ==
  IF d.state = "INVALID"
  THEN write_miss(update_last_writer(d, pid), pid, home)
  ELSE IF Detector
       THEN push_and_invalidate(d, pid, home)
       ELSE fetch_and_invalidate(d, pid, home)

-----------------------------------------------------------------------------
\* Does processor pid have to write the line back when its copy is evicted?
HasOwnership(d, pid) ==
  is_owner(d, pid) /\ (Detector => is_last_writer(d, pid))

\* Fault: the detector's downgrade to SHARED is lost.
invalidate_AlwaysToInvalid(d, S) ==
  LET owned == \E p \in S : HasOwnership(d, p)
      left  == d.sharer_vector \ S
  IN [ line      |-> [d EXCEPT !.sharer_vector = left,
                               !.state = IF owned \/ left = {} THEN "INVALID" ELSE @],
       writeBack |-> owned ]

\* Fault: the line keeps its state when its copies go.
invalidate_KeepsState(d, S) ==
  [ line |-> [d EXCEPT !.sharer_vector = @ \ S], writeBack |-> \E p \in S : HasOwnership(d, p) ]

\* Fault: any sharer's eviction downgrades a modified line, the last writer's
\* alone writes it back.
invalidate_AnyoneDowngrades(d, S) ==
  LET claimed == \E p \in S : is_owner(d, p)
      left    == d.sharer_vector \ S
  IN [ line      |-> [d EXCEPT !.sharer_vector = left,
                               !.state = IF left = {} THEN "INVALID"
                                         ELSE IF claimed THEN "SHARED" ELSE @],
       writeBack |-> \E p \in S : HasOwnership(d, p) ]

\* invalidate(pid, addr) for the processors S whose caches evict the line
\* within one step of the controller.  Each call clears its own bit and at
\* most one of them finds itself the owner, so their order does not matter.
invalidate(d, S) ==
  LET owned == \E p \in S : HasOwnership(d, p)
      left  == d.sharer_vector \ S
      kept  == IF owned
               THEN IF Detector THEN "SHARED" ELSE "INVALID"
               ELSE d.state
  IN [ line      |-> [d EXCEPT !.sharer_vector = left,
                               !.state = IF left = {} THEN "INVALID" ELSE kept],
       writeBack |-> owned ]

-----------------------------------------------------------------------------
\* What the states of a line promise: INVALID is the absence of sharers, and
\* some sharer will write a MODIFIED line back when it is evicted: its only
\* sharer, or with the detector the last writer among them.
CoherentLine(d) ==
  /\ d.state = "INVALID" <=> d.sharer_vector = {}
  /\ d.state = "MODIFIED" =>
       IF Detector THEN d.last_writer \in d.sharer_vector
                   ELSE \E p \in Proc : d.sharer_vector = {p}

\* One handler turns the line d into e.
HandlerStep(d, e, home) ==
  \/ \E pid \in Proc : \/ e = process_read(d, pid, home).line
                       \/ e = process_write(d, pid, home).line
  \/ \E S \in (SUBSET Proc) \ {{}} : e = invalidate(d, S).line

=============================================================================

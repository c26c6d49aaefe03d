----------------------------- MODULE Controller -----------------------------
(***************************************************************************)
(* class Controller (src/src/simulator/cache.H): the caches of all         *)
(* processors together with the directory of all addresses.  Every action  *)
(* is one call of cache_load or cache_store, which hold mapLock from the   *)
(* lookup of the processor to the end of the directory's handler.          *)
(*                                                                         *)
(* The caches are indexed by cache line (tag and set), the directory by    *)
(* byte address.  get_directory_line creates a missing entry, so the       *)
(* directory is a total function; address 0 belongs to it because evict    *)
(* can invalidate it, though no program accesses it.                       *)
(*                                                                         *)
(* Bounds: MaxLru caps the use counters of the lines; Writable lets a run  *)
(* keep part of the data read-only.                                        *)
(***************************************************************************)
EXTENDS DirMSI, CacheSet

CONSTANTS
  NumSets, LineSize,   \* of cache.config, powers of two like NumProcessors
  Addrs,               \* the addresses the program reads
  Writable,            \* those of them that it also writes
  MaxLru

PowersOfTwo == {2^k : k \in 0 .. 20}

ASSUME ControllerAssumption ==
  /\ NumSets \in Nat \ {0}
  /\ LineSize \in Nat \ {0}
  /\ {NumSets, LineSize, NumProcessors} \subseteq PowersOfTwo
  /\ Addrs \subseteq Nat \ {0}
  /\ Writable \subseteq Addrs
  /\ MaxLru \in Nat

VARIABLES
  cache,       \* processor -> set -> way -> Cache_Line
  directory    \* address -> Directory_Line

vars == <<cache, directory>>

Sets == 0 .. NumSets - 1

DirAddrs == Addrs \cup {0}

-----------------------------------------------------------------------------
(* The masks of the constructor: an address is a tag (with the low bits     *)
(* cleared), a set index and an offset.                                     *)

get_tag(addr) == addr - (addr % (LineSize * NumSets))

get_set_index(addr) == (addr % (LineSize * NumSets)) \div LineSize

get_home_node(addr) == addr % NumProcessors

fetch_cache_line(pid, addr, replace) ==
  fetch_single_line(cache[pid][get_set_index(addr)], get_tag(addr), addr, replace)

\* The directory after the evictions of E, pairs of a processor and an address.
Evict(dir, E) ==
  [b \in DirAddrs |->
     LET S == {p \in Proc : <<p, b>> \in E}
     IN IF S = {} THEN dir[b] ELSE invalidate(dir[b], S).line]

TypeOK ==
  /\ cache \in [Proc -> [Sets -> [Ways ->
                  [ lru : 0 .. MaxLru, tag : {NoTag} \cup {get_tag(a) : a \in Addrs},
                    addr : DirAddrs, status : LOCAL_STATUS ]]]]
  /\ directory \in [DirAddrs -> Line]

Init ==
  /\ cache     = [p \in Proc |-> [s \in Sets |-> Cache_Set]]
  /\ directory = [a \in DirAddrs |-> Directory_Line]

Bounded(set) == \A w \in Ways : set[w].lru <= MaxLru

-----------------------------------------------------------------------------
load_single_line(pid, addr) ==
  LET index   == get_set_index(addr)
      fetched == fetch_cache_line(pid, addr, TRUE)
      dir     == Evict(directory, {pid} \X fetched.evicted)
  IN
  /\ Bounded(fetched.set)
  /\ cache'     = [cache EXCEPT ![pid][index] = fetched.set]
  /\ directory' = [dir EXCEPT ![addr] = process_read(@, pid, get_home_node(addr)).line]

\* process_write may push the line into the caches of other processors, where
\* it displaces other lines, and makes a writer the directory had lost fetch it
\* a second time.
store_single_line(pid, addr) ==
  LET index     == get_set_index(addr)
      fetched   == fetch_cache_line(pid, addr, TRUE)
      dir       == Evict(directory, {pid} \X fetched.evicted)
      written   == process_write(dir[addr], pid, get_home_node(addr))
      again     == IF written.refetch
                   THEN fetch_single_line(fetched.set, get_tag(addr), addr, TRUE).set
                   ELSE fetched.set
      pushed(i) == fetch_cache_line(i, addr, FALSE)
      displaced == {e \in written.pushed \X DirAddrs : e[2] \in pushed(e[1]).evicted}
  IN
  /\ Bounded(again)
  /\ cache' = [i \in Proc |->
                 IF i = pid THEN [cache[i] EXCEPT ![index] = again]
                 ELSE IF i \in written.pushed
                      THEN [cache[i] EXCEPT ![index] = pushed(i).set]
                      ELSE cache[i]]
  /\ directory' = Evict([dir EXCEPT ![addr] = written.line], displaced)

Next ==
  \E pid \in Proc :
    \/ \E addr \in Addrs : load_single_line(pid, addr)
    \/ \E addr \in Writable : store_single_line(pid, addr)

Spec == Init /\ [][Next]_vars

-----------------------------------------------------------------------------
Resident(p, a) == holds(cache[p][get_set_index(a)], get_tag(a))

\* The address whose access brought the line of a into p's cache.
InstalledBy(p, a) ==
  cache[p][get_set_index(a)][way_of(cache[p][get_set_index(a)], get_tag(a))].addr

WayOf(p, a) == way_of(cache[p][get_set_index(a)], get_tag(a))

Sharer(p, a) == is_set(directory[a], p)

(* Safety: state invariants.                                               *)

\* A cache holds a line in one way only, the set of the address it came with.
\* It needs every install to follow a lookup of the same tag that failed, also
\* when another processor's store pushes the line.
LinesAreUnique ==
  \A p \in Proc, s \in Sets : \A w \in Ways :
    LET set == cache[p][s] IN
    set[w].status = "CACHED" =>
      /\ get_set_index(set[w].addr) = s
      /\ get_tag(set[w].addr) = set[w].tag
      /\ \A v \in Ways : set[v].tag = set[w].tag => v = w

\* Every directory line, that of the phantom address 0 included, keeps its
\* promise under the evictions that the caches really make.
DirectoryIsCoherent == \A a \in DirAddrs : CoherentLine(directory[a])

-----------------------------------------------------------------------------
(* Safety: what a step may never do.                                       *)

\* A step does at most one handler's work on any directory line: the model of
\* one line (DirProtocol) loses nothing by taking evictions one line at a time.
EachLineOneHandler ==
  [][\A a \in DirAddrs :
       \/ directory'[a] = directory[a]
       \/ HandlerStep(directory[a], directory'[a], get_home_node(a))]_vars

\* Seen through the directory, every address is a location as CopySet promises it:
\* the sharers are the copies, and memory is current unless the line is MODIFIED.
\* That one store pushes into several caches, displaces lines there and brings the
\* phantom address 0 into play does not show.
Promise(a) == INSTANCE CopySet WITH
  Procs   <- Proc,
  Updates <- Detector,
  copies  <- directory[a].sharer_vector,
  memory  <- IF directory[a].state = "MODIFIED" THEN "stale" ELSE "current"

LinesImplementCopySet ==
  /\ \A a \in DirAddrs : Promise(a)!Init
  /\ [][\A a \in DirAddrs : [Promise(a)!Next]_(Promise(a)!copyVars)]_vars

\* A line leaves a set only when no way of the set was free: pushes, which do
\* not count as uses, never make a line look less used than a free way.
FullBeforeEvict ==
  [][\A p \in Proc, a \in Addrs :
       Resident(p, a) /\ ~Resident(p, a)'
         => \A w \in Ways : cache[p][get_set_index(a)][w].status = "CACHED"]_vars

\* A processor is listed as a sharer of a line its cache lacks only after an
\* eviction that told the directory nothing of it: out of way 0, or of a line
\* that came in with another of its addresses.  No load, store or push adds a
\* sharer without a cached line.
SharersLoseLinesByEviction ==
  [][\A p \in Proc, a \in Addrs :
       Sharer(p, a)' /\ ~Resident(p, a)'
         => \/ Sharer(p, a) /\ ~Resident(p, a)
            \/ Resident(p, a) /\ (WayOf(p, a) = 0 \/ InstalledBy(p, a) # a)]_vars

-----------------------------------------------------------------------------
(* What a comment says and the code does otherwise.                        *)

\* coherence.cpp:37 and cache.H:91: an eviction invalidates the directory line.
\* The code invalidates address 0 when the victim is way 0.
EvictionUpdatesDirectory ==
  [][\A p \in Proc, a \in Addrs :
       Resident(p, a) /\ InstalledBy(p, a) = a /\ ~Resident(p, a)' => ~Sharer(p, a)']_vars

=============================================================================

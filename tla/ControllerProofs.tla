-------------------------- MODULE ControllerProofs --------------------------
(***************************************************************************)
(* Proofs about Controller: for every number of processors and every       *)
(* geometry of the caches, the directory keeps its promises under the      *)
(* evictions the caches make, a cache holds a line in one way only, and a  *)
(* step is at most one handler's work on any directory line.  A set that   *)
(* loses a line had no way free, although a push fills a way without       *)
(* counting a use of it, and a directory line lists a processor without a  *)
(* copy only after an eviction that told it nothing.                       *)
(*                                                                         *)
(* The last two need to know where pushes go: a processor with a counted   *)
(* read of an address still has its line, or its set is full.              *)
(***************************************************************************)
EXTENDS Controller, DirMSIProofs, WellFoundedInduction, TLAPS

USE NumProcessorsAssumption, DetectorAssumption, AssociativityAssumption

-----------------------------------------------------------------------------
(* The directory.                                                          *)

LEMMA HomeIsProc == \A a \in Nat : get_home_node(a) \in Proc
  BY DEF get_home_node, Proc

DirectoryInv == directory \in [DirAddrs -> Line] /\ DirectoryIsCoherent

\* A directory of coherent lines.
Coherent(dir) == dir \in [DirAddrs -> Line] /\ \A b \in DirAddrs : CoherentLine(dir[b])

LEMMA EvictIsCoherent ==
  ASSUME NEW dir, Coherent(dir), NEW E
  PROVE  Coherent(Evict(dir, E))
  <1> DEFINE S(b) == {p \in Proc : <<p, b>> \in E}
  <1>1. \A b \in DirAddrs : invalidate(dir[b], S(b)).line \in Line
                              /\ CoherentLine(invalidate(dir[b], S(b)).line)
    BY InvalidateIsCoherent DEF Coherent
  <1>2. Evict(dir, E) = [b \in DirAddrs |-> IF S(b) = {} THEN dir[b]
                                             ELSE invalidate(dir[b], S(b)).line]
    BY DEF Evict
  <1> HIDE DEF S
  <1> QED
    BY <1>1, <1>2 DEF Coherent

LEMMA HandlerIsCoherent ==
  ASSUME NEW dir, Coherent(dir), NEW a \in DirAddrs, NEW e \in Line, CoherentLine(e)
  PROVE  Coherent([dir EXCEPT ![a] = e])
  BY DEF Coherent

LEMMA LoadDirectory ==
  ASSUME DirectoryInv, NEW pid \in Proc, NEW addr \in Addrs, load_single_line(pid, addr)
  PROVE  DirectoryInv'
  <1> DEFINE dir == Evict(directory, {pid} \X fetch_cache_line(pid, addr, TRUE).evicted)
             r   == process_read(dir[addr], pid, get_home_node(addr))
  <1>1. addr \in DirAddrs /\ get_home_node(addr) \in Proc
    BY ControllerAssumption, HomeIsProc DEF DirAddrs
  <1>2. Coherent(dir)
    BY EvictIsCoherent DEF DirectoryInv, DirectoryIsCoherent, Coherent
  <1>3. directory' = [dir EXCEPT ![addr] = r.line]
    BY DEF load_single_line
  <1> HIDE DEF dir
  <1>4. r.line \in Line /\ CoherentLine(r.line)
    BY <1>1, <1>2, ReadIsCoherent DEF Coherent
  <1> HIDE DEF r
  <1>5. Coherent(directory')
    BY <1>1, <1>2, <1>3, <1>4, HandlerIsCoherent
  <1> QED
    BY <1>5 DEF Coherent, DirectoryInv, DirectoryIsCoherent

LEMMA StoreDirectory ==
  ASSUME DirectoryInv, NEW pid \in Proc, NEW addr \in Writable, store_single_line(pid, addr)
  PROVE  DirectoryInv'
  <1> DEFINE dir == Evict(directory, {pid} \X fetch_cache_line(pid, addr, TRUE).evicted)
             w   == process_write(dir[addr], pid, get_home_node(addr))
             displaced == {e \in w.pushed \X DirAddrs :
                             e[2] \in fetch_cache_line(e[1], addr, FALSE).evicted}
  <1>1. addr \in DirAddrs /\ get_home_node(addr) \in Proc
    BY ControllerAssumption, HomeIsProc DEF DirAddrs
  <1>2. Coherent(dir)
    BY EvictIsCoherent DEF DirectoryInv, DirectoryIsCoherent, Coherent
  <1>3. directory' = Evict([dir EXCEPT ![addr] = w.line], displaced)
    BY DEF store_single_line
  <1> HIDE DEF dir
  <1>4. w.line \in Line /\ CoherentLine(w.line)
    BY <1>1, <1>2, WriteIsCoherent DEF Coherent
  <1> HIDE DEF w, displaced
  <1>5. Coherent([dir EXCEPT ![addr] = w.line])
    BY <1>1, <1>2, <1>4, HandlerIsCoherent
  <1>6. Coherent(directory')
    BY <1>3, <1>5, EvictIsCoherent
  <1> QED
    BY <1>6 DEF Coherent, DirectoryInv, DirectoryIsCoherent

LEMMA InitDirectory == Init => DirectoryInv
  <1> SUFFICES ASSUME Init PROVE DirectoryInv
    OBVIOUS
  <1>1. Directory_Line \in Line
    <2>1. [p \in Proc |-> 0] \in [Proc -> ReadCounts]
      BY DEF ReadCounts
    <2> QED
      BY <2>1 DEF Directory_Line, Line, CACHE_STATE
  <1>2. CoherentLine(Directory_Line)
    BY DEF Directory_Line, CoherentLine
  <1>3. directory = [a \in DirAddrs |-> Directory_Line]
    BY DEF Init
  <1> QED
    BY <1>1, <1>2, <1>3 DEF DirectoryInv, DirectoryIsCoherent

LEMMA NextDirectory == DirectoryInv /\ [Next]_vars => DirectoryInv'
  <1> SUFFICES ASSUME DirectoryInv, [Next]_vars PROVE DirectoryInv'
    OBVIOUS
  <1>1. ASSUME NEW pid \in Proc, NEW addr \in Addrs, load_single_line(pid, addr)
        PROVE  DirectoryInv'
    BY <1>1, LoadDirectory
  <1>2. ASSUME NEW pid \in Proc, NEW addr \in Writable, store_single_line(pid, addr)
        PROVE  DirectoryInv'
    BY <1>2, StoreDirectory
  <1>3. CASE UNCHANGED vars
    BY <1>3 DEF vars, DirectoryInv, DirectoryIsCoherent
  <1> QED
    BY <1>1, <1>2, <1>3 DEF Next

THEOREM DirectoryInvariance == Spec => []DirectoryInv
  BY InitDirectory, NextDirectory, PTL DEF Spec

\* INVALID means no sharer and a MODIFIED line has someone to write it back, for
\* every address at once and under the evictions the caches make, the phantom
\* evictions of address 0 included.
THEOREM EveryLineIsCoherent == Spec => []DirectoryIsCoherent
  BY DirectoryInvariance, PTL DEF DirectoryInv

-----------------------------------------------------------------------------
(* The sets of the caches.                                                 *)

LEMMA MinNat ==
  ASSUME NEW S \in SUBSET Nat, S # {}
  PROVE  Min(S) \in S /\ \A y \in S : Min(S) <= y
  <1>1. \E x \in S : \A y \in S : <<y, x>> \notin OpToRel(<, Nat)
    BY NatLessThanWellFounded, WFMin
  <1>2. \A x, y \in Nat : <<y, x>> \in OpToRel(<, Nat) <=> y < x
    BY DEF OpToRel
  <1>3. \E x \in S : \A y \in S : x <= y
    <2>1. PICK x \in S : \A y \in S : <<y, x>> \notin OpToRel(<, Nat)
      BY <1>1
    <2>2. \A y \in S : ~(y < x)
      BY <1>2, <2>1
    <2>3. \A y \in S : x <= y
      BY <2>2
    <2> QED
      BY <2>3
  <1> QED
    BY <1>3 DEF Min

LEMMA AddressParts ==
  \A a \in Addrs : a # 0 /\ get_tag(a) \in Nat /\ get_tag(a) # NoTag /\ get_set_index(a) \in Sets
  <1> SUFFICES ASSUME NEW a \in Addrs
               PROVE  a # 0 /\ get_tag(a) \in Nat /\ get_tag(a) # NoTag /\ get_set_index(a) \in Sets
    OBVIOUS
  <1>1. a \in Nat \ {0} /\ LineSize \in Nat \ {0} /\ NumSets \in Nat \ {0}
    BY ControllerAssumption
  <1>2. a - (a % (LineSize * NumSets)) \in Nat
    <2>1. LineSize * NumSets \in Nat \ {0}
      BY <1>1
    <2> QED
      BY <1>1, <2>1
  <1>3. (a % (LineSize * NumSets)) \div LineSize \in 0 .. NumSets - 1
    BY <1>1
  <1> QED
    BY <1>1, <1>2, <1>3 DEF get_tag, get_set_index, Sets, NoTag

Tag == {NoTag} \cup {get_tag(a) : a \in Addrs}

Entry == [ lru : Nat, tag : Tag, addr : DirAddrs, status : LOCAL_STATUS ]

\* Set number s of a cache: what is cached is in the right set under its tag,
\* what is not has no tag, and no two ways have the same tag.
SetInv(set, s) ==
  /\ set \in [Ways -> Entry]
  /\ \A w \in Ways :
       IF set[w].status = "CACHED"
       THEN /\ set[w].addr \in Addrs
            /\ get_set_index(set[w].addr) = s
            /\ get_tag(set[w].addr) = set[w].tag
       ELSE set[w].tag = NoTag
  /\ \A v, w \in Ways : set[v].tag = set[w].tag /\ set[v].tag # NoTag => v = w

LEMMA WayOfHolds ==
  ASSUME NEW set, NEW tag, holds(set, tag)
  PROVE  way_of(set, tag) \in Ways /\ set[way_of(set, tag)].tag = tag
  <1>1. {w \in Ways : set[w].tag = tag} \in SUBSET Nat
    BY DEF Ways
  <1> QED
    BY <1>1, MinNat DEF holds, way_of

LEMMA VictimIsWay ==
  ASSUME NEW set \in [Ways -> Entry]
  PROVE  victim(set) \in Ways
  <1> DEFINE U == {set[w].lru : w \in Ways}
  <1>1. U \in SUBSET Nat /\ U # {}
    BY DEF Ways, Entry
  <1>2. Min(U) \in U /\ \A y \in U : Min(U) <= y
    BY <1>1, MinNat
  <1>3. PICK w \in Ways : Min(U) = set[w].lru
    BY <1>2
  <1>4. \A v \in Ways : set[w].lru <= set[v].lru
    BY <1>2, <1>3
  <1>5. LeastUsed(set) \in SUBSET Nat /\ LeastUsed(set) # {} /\ LeastUsed(set) \subseteq Ways
    BY <1>3, <1>4 DEF LeastUsed, Ways
  <1> QED
    BY <1>5, MinNat DEF victim

\* A lookup or install keeps a set in order, never evicts the address it is
\* for, and counts a use only when asked to.
LEMMA FetchSet ==
  ASSUME NEW a \in Addrs, NEW set, SetInv(set, get_set_index(a)), NEW replace \in BOOLEAN
  PROVE  LET f == fetch_single_line(set, get_tag(a), a, replace) IN
         /\ SetInv(f.set, get_set_index(a))
         /\ \A e \in f.evicted : e \in DirAddrs /\ e # a
         /\ ~replace => \A w \in Ways : f.set[w].lru = set[w].lru
  <1> DEFINE tag == get_tag(a)
             s   == get_set_index(a)
             f   == fetch_single_line(set, tag, a, replace)
  <1>0. a # 0 /\ tag \in Nat /\ tag # NoTag /\ tag \in Tag
    BY AddressParts DEF Tag
  <1>1. CASE holds(set, tag)
    <2> DEFINE w == way_of(set, tag)
    <2>1. w \in Ways /\ set[w].tag = tag
      BY <1>1, WayOfHolds
    <2>2. set[w].status = "CACHED"
      BY <1>0, <2>1 DEF SetInv
    <2>3. f.evicted = {} /\ f.set = IF replace THEN [set EXCEPT ![w].lru = @ + 1] ELSE set
      BY <1>1, <2>2 DEF fetch_single_line, status_of, touch
    <2> HIDE DEF w, f, tag, s
    <2>4. set \in [Ways -> Entry]
      BY DEF SetInv
    <2>5. /\ f.set \in [Ways -> Entry]
          /\ \A v \in Ways : /\ f.set[v].tag = set[v].tag
                             /\ f.set[v].addr = set[v].addr
                             /\ f.set[v].status = set[v].status
      BY <2>1, <2>3, <2>4 DEF Entry
    <2>6. SetInv(f.set, s)
      BY <2>5 DEF SetInv, s
    <2> QED
      BY <2>3, <2>6 DEF f, s, tag
  <1>2. CASE ~holds(set, tag)
    <2> DEFINE w == victim(set)
               l == [ lru |-> IF replace THEN set[w].lru + 1 ELSE set[w].lru,
                      tag |-> tag, addr |-> a, status |-> "CACHED" ]
    <2>1. set \in [Ways -> Entry] /\ w \in Ways
      BY VictimIsWay DEF SetInv
    <2>2. touch(set, tag, replace) = set /\ status_of(set, tag) = "UNCACHED"
      BY <1>2 DEF touch, status_of
    <2>3. f.set = [set EXCEPT ![w] = l]
      BY <2>1, <2>2 DEF fetch_single_line
    <2>4. f.evicted = IF set[w].status = "CACHED" THEN {evict_addr(set)} ELSE {}
      BY <2>2 DEF fetch_single_line
    <2>5. evict_addr(set) = 0 \/ evict_addr(set) = set[w].addr
      BY DEF evict_addr
    <2>6. set[w].tag # tag
      BY <1>2, <2>1 DEF holds
    <2>7. l \in Entry /\ l.tag = tag /\ l.addr = a /\ l.status = "CACHED"
      BY <1>0, <2>1 DEF Entry, LOCAL_STATUS, DirAddrs
    <2>8. ~replace => l.lru = set[w].lru
      OBVIOUS
    <2>9. set[w].status = "CACHED" => get_tag(set[w].addr) = set[w].tag
      BY <2>1 DEF SetInv
    <2>10. set[w].addr \in DirAddrs /\ 0 \in DirAddrs
      BY <2>1 DEF Entry, DirAddrs
    <2>11. \A e \in f.evicted : e \in DirAddrs /\ e # a
      BY <1>0, <2>4, <2>5, <2>6, <2>9, <2>10
    <2>12. \A v \in Ways : v # w => set[v].tag # tag
      BY <1>2 DEF holds
    <2> HIDE DEF w, l, f
    <2>13. \A v \in Ways : f.set[v] = IF v = w THEN l ELSE set[v]
      BY <2>1, <2>3
    <2>14. SetInv(f.set, s)
      <3>1. f.set \in [Ways -> Entry]
        BY <2>1, <2>3, <2>7
      <3>2. ASSUME NEW v \in Ways
            PROVE  IF f.set[v].status = "CACHED"
                   THEN /\ f.set[v].addr \in Addrs
                        /\ get_set_index(f.set[v].addr) = s
                        /\ get_tag(f.set[v].addr) = f.set[v].tag
                   ELSE f.set[v].tag = NoTag
        <4>1. CASE v = w
          BY <2>7, <2>13, <4>1
        <4>2. CASE v # w
          BY <2>13, <4>2 DEF SetInv
        <4> QED
          BY <4>1, <4>2
      <3>3. ASSUME NEW u \in Ways, NEW v \in Ways,
                   f.set[u].tag = f.set[v].tag, f.set[u].tag # NoTag
            PROVE  u = v
        <4> HIDE DEF tag
        <4>1. u = w \/ v = w => u = v
          BY <2>7, <2>12, <2>13, <3>3
        <4>2. u # w /\ v # w => u = v
          BY <2>13, <3>3 DEF SetInv
        <4> QED
          BY <4>1, <4>2
      <3> QED
        BY <3>1, <3>2, <3>3 DEF SetInv
    <2>15. ~replace => \A v \in Ways : f.set[v].lru = set[v].lru
      BY <2>8, <2>13
    <2> QED
      BY <2>11, <2>14, <2>15 DEF f
  <1> QED
    BY <1>1, <1>2

-----------------------------------------------------------------------------
(* The caches.                                                             *)

CacheInv ==
  /\ cache \in [Proc -> [Sets -> [Ways -> Entry]]]
  /\ \A p \in Proc, s \in Sets : SetInv(cache[p][s], s) /\ Bounded(cache[p][s])

Inv == DirectoryInv /\ CacheInv

\* Replacing one set of a cache by another in order.
LEMMA ReplaceSet ==
  ASSUME CacheInv, NEW p \in Proc, NEW s \in Sets, NEW set, SetInv(set, s), Bounded(set)
  PROVE  LET c == [cache[p] EXCEPT ![s] = set] IN
         /\ c \in [Sets -> [Ways -> Entry]]
         /\ \A t \in Sets : SetInv(c[t], t) /\ Bounded(c[t])
  <1>1. cache[p] \in [Sets -> [Ways -> Entry]] /\ set \in [Ways -> Entry]
    BY DEF CacheInv, SetInv
  <1>2. \A t \in Sets : [cache[p] EXCEPT ![s] = set][t] = IF t = s THEN set ELSE cache[p][t]
    BY <1>1
  <1>3. \A t \in Sets : SetInv(cache[p][t], t) /\ Bounded(cache[p][t])
    BY DEF CacheInv
  <1> QED
    BY <1>1, <1>2, <1>3

LEMMA LoadCache ==
  ASSUME CacheInv, NEW pid \in Proc, NEW addr \in Addrs, load_single_line(pid, addr)
  PROVE  CacheInv'
  <1> DEFINE s == get_set_index(addr)
             f == fetch_cache_line(pid, addr, TRUE)
             c == [cache[pid] EXCEPT ![s] = f.set]
  <1>1. s \in Sets
    BY AddressParts
  <1>2. SetInv(cache[pid][s], s)
    BY <1>1 DEF CacheInv
  <1>3. SetInv(f.set, s)
    BY <1>2, FetchSet DEF fetch_cache_line
  <1>4. Bounded(f.set) /\ cache' = [cache EXCEPT ![pid][s] = f.set]
    BY DEF load_single_line
  <1> HIDE DEF f, s
  <1>5. c \in [Sets -> [Ways -> Entry]] /\ \A t \in Sets : SetInv(c[t], t) /\ Bounded(c[t])
    BY <1>1, <1>3, <1>4, ReplaceSet
  <1>6. cache' = [cache EXCEPT ![pid] = c]
    BY <1>4
  <1> HIDE DEF c
  <1>7. \A p \in Proc : cache'[p] = IF p = pid THEN c ELSE cache[p]
    BY <1>6 DEF CacheInv
  <1>8. cache' \in [Proc -> [Sets -> [Ways -> Entry]]]
    BY <1>5, <1>6 DEF CacheInv
  <1>9. \A p \in Proc, t \in Sets : SetInv(cache'[p][t], t) /\ Bounded(cache'[p][t])
    BY <1>5, <1>7 DEF CacheInv
  <1> QED
    BY <1>8, <1>9 DEF CacheInv, SetInv, Bounded

\* A pushed line leaves the consumer's set in order and counts no use.
LEMMA PushSet ==
  ASSUME CacheInv, NEW i \in Proc, NEW addr \in Addrs
  PROVE  LET f == fetch_cache_line(i, addr, FALSE) IN
         SetInv(f.set, get_set_index(addr)) /\ Bounded(f.set)
  <1> DEFINE old == cache[i][get_set_index(addr)]
             f   == fetch_single_line(old, get_tag(addr), addr, FALSE)
  <1>1. SetInv(old, get_set_index(addr)) /\ Bounded(old)
    BY AddressParts DEF CacheInv
  <1> HIDE DEF old
  <1>2. SetInv(f.set, get_set_index(addr)) /\ \A v \in Ways : f.set[v].lru = old[v].lru
    BY <1>1, FetchSet
  <1> HIDE DEF f
  <1>3. Bounded(f.set)
    BY <1>1, <1>2 DEF Bounded
  <1> QED
    BY <1>2, <1>3 DEF f, old, fetch_cache_line

LEMMA StoreCache ==
  ASSUME DirectoryInv, CacheInv,
         NEW pid \in Proc, NEW addr \in Writable, store_single_line(pid, addr)
  PROVE  CacheInv'
  <1> DEFINE s     == get_set_index(addr)
             f     == fetch_cache_line(pid, addr, TRUE)
             dir   == Evict(directory, {pid} \X f.evicted)
             w     == process_write(dir[addr], pid, get_home_node(addr))
             again == IF w.refetch THEN fetch_single_line(f.set, get_tag(addr), addr, TRUE).set
                                   ELSE f.set
             push(i) == fetch_cache_line(i, addr, FALSE).set
             c(i)  == IF i = pid THEN [cache[i] EXCEPT ![s] = again]
                      ELSE IF i \in w.pushed THEN [cache[i] EXCEPT ![s] = push(i)]
                      ELSE cache[i]
  <1>1. addr \in Addrs /\ s \in Sets
    BY ControllerAssumption, AddressParts
  <1>2. \A i \in Proc : SetInv(cache[i][s], s) /\ Bounded(cache[i][s])
    BY <1>1 DEF CacheInv
  <1>3. SetInv(f.set, s)
    BY <1>1, <1>2, FetchSet DEF fetch_cache_line
  <1>4. SetInv(again, s)
    <2> HIDE DEF f, w
    <2> QED
      BY <1>1, <1>3, FetchSet
  <1>5. ASSUME NEW i \in Proc PROVE SetInv(push(i), s) /\ Bounded(push(i))
    BY <1>1, PushSet
  <1>6. Bounded(again) /\ cache' = [i \in Proc |-> c(i)]
    BY DEF store_single_line
  <1> HIDE DEF s, f, dir, w, again, push
  <1>7. ASSUME NEW i \in Proc
        PROVE  /\ c(i) \in [Sets -> [Ways -> Entry]]
               /\ \A t \in Sets : SetInv(c(i)[t], t) /\ Bounded(c(i)[t])
    <2>1. CASE i = pid
      BY <1>1, <1>4, <1>6, <2>1, ReplaceSet
    <2>2. CASE i # pid /\ i \in w.pushed
      BY <1>1, <1>5, <2>2, ReplaceSet
    <2>3. CASE i # pid /\ i \notin w.pushed
      BY <2>3 DEF CacheInv
    <2> QED
      BY <2>1, <2>2, <2>3
  <1> HIDE DEF c
  <1>8. \A i \in Proc : cache'[i] = c(i)
    BY <1>6
  <1>9. cache' \in [Proc -> [Sets -> [Ways -> Entry]]]
    BY <1>6, <1>7
  <1>10. \A p \in Proc, t \in Sets : SetInv(cache'[p][t], t) /\ Bounded(cache'[p][t])
    BY <1>7, <1>8
  <1> QED
    BY <1>9, <1>10 DEF CacheInv, SetInv, Bounded

LEMMA InitCache == Init => CacheInv
  <1> SUFFICES ASSUME Init PROVE CacheInv
    OBVIOUS
  <1>1. Cache_Line \in Entry
    BY DEF Cache_Line, Entry, Tag, DirAddrs, LOCAL_STATUS
  <1>2. Cache_Set \in [Ways -> Entry] /\ \A w \in Ways : Cache_Set[w] = Cache_Line
    BY <1>1 DEF Cache_Set
  <1>3. ASSUME NEW s \in Sets PROVE SetInv(Cache_Set, s) /\ Bounded(Cache_Set)
    <2>1. /\ Cache_Line.status = "UNCACHED"
          /\ Cache_Line.tag = NoTag
          /\ Cache_Line.lru = 0
      BY DEF Cache_Line
    <2> QED
      BY <1>2, <2>1, ControllerAssumption DEF SetInv, Bounded
  <1>4. cache = [p \in Proc |-> [s \in Sets |-> Cache_Set]]
    BY DEF Init
  <1> QED
    BY <1>2, <1>3, <1>4 DEF CacheInv

LEMMA InitInv == Init => Inv
  BY InitDirectory, InitCache DEF Inv

LEMMA NextInv == Inv /\ [Next]_vars => Inv'
  <1> SUFFICES ASSUME Inv, [Next]_vars PROVE CacheInv'
    BY NextDirectory DEF Inv
  <1>1. ASSUME NEW pid \in Proc, NEW addr \in Addrs, load_single_line(pid, addr)
        PROVE  CacheInv'
    BY <1>1, LoadCache DEF Inv
  <1>2. ASSUME NEW pid \in Proc, NEW addr \in Writable, store_single_line(pid, addr)
        PROVE  CacheInv'
    BY <1>2, StoreCache DEF Inv
  <1>3. CASE UNCHANGED vars
    BY <1>3 DEF vars, Inv, CacheInv, SetInv, Bounded
  <1> QED
    BY <1>1, <1>2, <1>3 DEF Next

THEOREM Invariance == Spec => []Inv
  BY InitInv, NextInv, PTL DEF Spec

\* The caches and the directory stay well formed.
THEOREM TypeCorrect == Spec => []TypeOK
  <1>1. Inv => TypeOK
    <2> SUFFICES ASSUME Inv PROVE TypeOK
      OBVIOUS
    <2> DEFINE B == [ lru : 0 .. MaxLru, tag : {NoTag} \cup {get_tag(a) : a \in Addrs},
                      addr : DirAddrs, status : LOCAL_STATUS ]
    <2>1. ASSUME NEW p \in Proc, NEW s \in Sets, NEW w \in Ways
          PROVE  cache[p][s][w] \in B
      <3>1. cache[p][s][w] \in Entry
        BY DEF Inv, CacheInv
      <3>2. cache[p][s][w].lru <= MaxLru
        BY DEF Inv, CacheInv, Bounded
      <3>3. cache[p][s][w].lru \in 0 .. MaxLru
        BY <3>1, <3>2, ControllerAssumption DEF Entry
      <3> QED
        BY <3>1, <3>3 DEF Entry, Tag
    <2> HIDE DEF B
    <2>2. cache \in [Proc -> [Sets -> [Ways -> B]]]
      BY <2>1 DEF Inv, CacheInv
    <2> QED
      BY <2>2 DEF TypeOK, Inv, DirectoryInv, B
  <1> QED
    BY <1>1, Invariance, PTL

\* A cache never holds a line twice, whatever mix of its own accesses and other
\* processors' pushes filled it, and a cached line is in the set of the address
\* it came with.
THEOREM NoLineTwice == Spec => []LinesAreUnique
  <1>1. Inv => LinesAreUnique
    <2> SUFFICES ASSUME Inv, NEW p \in Proc, NEW s \in Sets, NEW w \in Ways,
                        cache[p][s][w].status = "CACHED"
                 PROVE  /\ get_set_index(cache[p][s][w].addr) = s
                        /\ get_tag(cache[p][s][w].addr) = cache[p][s][w].tag
                        /\ \A v \in Ways : cache[p][s][v].tag = cache[p][s][w].tag => v = w
      BY DEF LinesAreUnique
    <2>1. SetInv(cache[p][s], s)
      BY DEF Inv, CacheInv
    <2>2. /\ cache[p][s][w].addr \in Addrs
          /\ get_set_index(cache[p][s][w].addr) = s
          /\ get_tag(cache[p][s][w].addr) = cache[p][s][w].tag
      BY <2>1 DEF SetInv
    <2>3. cache[p][s][w].tag # NoTag
      BY <2>2, AddressParts
    <2> QED
      BY <2>1, <2>2, <2>3 DEF SetInv
  <1> QED
    BY <1>1, Invariance, PTL

-----------------------------------------------------------------------------
(* One handler per line and step.                                          *)

\* The evictions of one line in a step leave it alone or are one invalidate.
Evicted(d, e) == e = d \/ \E S \in (SUBSET Proc) \ {{}} : e = invalidate(d, S).line

LEMMA EvictedTwice ==
  ASSUME NEW d \in Line, NEW e, NEW f, Evicted(d, e), Evicted(e, f)
  PROVE  Evicted(d, f)
  <1>1. CASE e = d
    BY <1>1
  <1>2. CASE f = e
    BY <1>2
  <1>3. CASE e # d /\ f # e
    <2>1. PICK S \in (SUBSET Proc) \ {{}} : e = invalidate(d, S).line
      BY <1>3 DEF Evicted
    <2>2. PICK T \in (SUBSET Proc) \ {{}} : f = invalidate(e, T).line
      BY <1>3 DEF Evicted
    <2>3. f = invalidate(d, S \cup T).line
      BY <2>1, <2>2, InvalidateTwice
    <2> QED
      BY <2>3 DEF Evicted
  <1> QED
    BY <1>1, <1>2, <1>3

LEMMA EvictIsEvicted ==
  ASSUME NEW dir, NEW E, NEW b \in DirAddrs
  PROVE  Evicted(dir[b], Evict(dir, E)[b])
  <1> DEFINE S == {p \in Proc : <<p, b>> \in E}
  <1>1. Evict(dir, E)[b] = IF S = {} THEN dir[b] ELSE invalidate(dir[b], S).line
    BY DEF Evict
  <1>2. S \in SUBSET Proc
    OBVIOUS
  <1> HIDE DEF S
  <1> QED
    BY <1>1, <1>2 DEF Evicted

LEMMA EvictElsewhere ==
  ASSUME NEW dir, NEW E, NEW b \in DirAddrs, \A p \in Proc : <<p, b>> \notin E
  PROVE  Evict(dir, E)[b] = dir[b]
  BY DEF Evict

\* The eviction before an access is never of the line accessed.
LEMMA FetchSparesLine ==
  ASSUME CacheInv, NEW i \in Proc, NEW addr \in Addrs, NEW replace \in BOOLEAN
  PROVE  addr \notin fetch_cache_line(i, addr, replace).evicted
  <1> DEFINE old == cache[i][get_set_index(addr)]
  <1>1. SetInv(old, get_set_index(addr))
    BY AddressParts DEF CacheInv
  <1> HIDE DEF old
  <1>2. \A e \in fetch_single_line(old, get_tag(addr), addr, replace).evicted : e # addr
    BY <1>1, FetchSet
  <1> QED
    BY <1>2 DEF old, fetch_cache_line

OneHandler ==
  \A a \in DirAddrs : \/ directory'[a] = directory[a]
                      \/ HandlerStep(directory[a], directory'[a], get_home_node(a))

LEMMA LoadOneHandler ==
  ASSUME Inv, NEW pid \in Proc, NEW addr \in Addrs, load_single_line(pid, addr)
  PROVE  OneHandler
  <1> DEFINE E   == {pid} \X fetch_cache_line(pid, addr, TRUE).evicted
             dir == Evict(directory, E)
  <1>1. directory' = [dir EXCEPT ![addr] = process_read(dir[addr], pid, get_home_node(addr)).line]
    BY DEF load_single_line
  <1>2. addr \notin fetch_cache_line(pid, addr, TRUE).evicted /\ addr \in DirAddrs
    BY FetchSparesLine DEF Inv, DirAddrs
  <1>3. \A p \in Proc : <<p, addr>> \notin E
    BY <1>2
  <1>4. dir \in [DirAddrs -> Line]
    BY EvictIsCoherent DEF Inv, DirectoryInv, DirectoryIsCoherent, Coherent
  <1> HIDE DEF E
  <1>5. dir[addr] = directory[addr]
    BY <1>2, <1>3, EvictElsewhere
  <1>6. ASSUME NEW a \in DirAddrs
        PROVE  \/ directory'[a] = directory[a]
               \/ HandlerStep(directory[a], directory'[a], get_home_node(a))
    <2>1. CASE a = addr
      <3>1. directory'[a] = process_read(directory[a], pid, get_home_node(a)).line
        BY <1>1, <1>4, <1>5, <2>1
      <3> QED
        BY <3>1 DEF HandlerStep
    <2>2. CASE a # addr
      <3>1. directory'[a] = dir[a]
        BY <1>1, <1>4, <2>2
      <3>2. Evicted(directory[a], dir[a])
        BY EvictIsEvicted
      <3> QED
        BY <3>1, <3>2 DEF Evicted, HandlerStep
    <2> QED
      BY <2>1, <2>2
  <1> QED
    BY <1>6 DEF OneHandler

LEMMA StoreOneHandler ==
  ASSUME Inv, NEW pid \in Proc, NEW addr \in Writable, store_single_line(pid, addr)
  PROVE  OneHandler
  <1> DEFINE E   == {pid} \X fetch_cache_line(pid, addr, TRUE).evicted
             dir == Evict(directory, E)
             w   == process_write(dir[addr], pid, get_home_node(addr))
             F   == {e \in w.pushed \X DirAddrs :
                       e[2] \in fetch_cache_line(e[1], addr, FALSE).evicted}
             mid == [dir EXCEPT ![addr] = w.line]
  <1>0. addr \in Addrs /\ addr \in DirAddrs /\ get_home_node(addr) \in Proc
    BY ControllerAssumption, HomeIsProc DEF DirAddrs
  <1>1. directory' = Evict(mid, F)
    BY DEF store_single_line
  <1>2. \A p \in Proc : <<p, addr>> \notin E
    BY <1>0, FetchSparesLine DEF Inv
  <1>3. Coherent(dir)
    BY EvictIsCoherent DEF Inv, DirectoryInv, DirectoryIsCoherent, Coherent
  <1> HIDE DEF E
  <1>4. dir[addr] = directory[addr]
    BY <1>0, <1>2, EvictElsewhere
  <1>5. \A a \in DirAddrs : a # addr => Evicted(directory[a], dir[a])
    BY EvictIsEvicted
  <1> HIDE DEF dir
  <1>6. \A p \in Proc : <<p, addr>> \notin F
    BY <1>0, FetchSparesLine DEF Inv
  <1>7. /\ mid[addr] = w.line
        /\ \A a \in DirAddrs : a # addr => mid[a] = dir[a]
    BY <1>0, <1>3 DEF Coherent
  <1> HIDE DEF F, mid
  <1>8. directory'[addr] = process_write(directory[addr], pid, get_home_node(addr)).line
    BY <1>0, <1>1, <1>4, <1>6, <1>7, EvictElsewhere
  <1>9. ASSUME NEW a \in DirAddrs
        PROVE  \/ directory'[a] = directory[a]
               \/ HandlerStep(directory[a], directory'[a], get_home_node(a))
    <2>1. CASE a = addr
      BY <1>8, <2>1 DEF HandlerStep
    <2>2. CASE a # addr
      <3>1. Evicted(directory[a], mid[a])
        BY <1>5, <1>7, <2>2
      <3>2. Evicted(mid[a], directory'[a])
        BY <1>1, EvictIsEvicted
      <3>3. directory[a] \in Line
        BY DEF Inv, DirectoryInv
      <3>4. Evicted(directory[a], directory'[a])
        BY <3>1, <3>2, <3>3, EvictedTwice
      <3> QED
        BY <3>4 DEF Evicted, HandlerStep
    <2> QED
      BY <2>1, <2>2
  <1> QED
    BY <1>9 DEF OneHandler

\* Whatever a load or store displaces in how many caches, any one directory line
\* sees one handler or one round of evictions.
THEOREM StepsAreHandlers == Spec => EachLineOneHandler
  <1>1. Inv /\ [Next]_vars => [OneHandler]_vars
    BY LoadOneHandler, StoreOneHandler DEF Next
  <1> QED
    BY <1>1, Invariance, PTL DEF Spec, EachLineOneHandler, OneHandler

-----------------------------------------------------------------------------
(* Every line implements the abstract promise.                              *)

\* What CopySet says of a step in which a line d becomes e.
LEMMA HandlerKeepsPromise ==
  ASSUME NEW d \in Line, CoherentLine(d), NEW e, NEW home \in Proc, HandlerStep(d, e, home)
  PROVE  \/ \E p \in Proc :
              /\ e.sharer_vector = d.sharer_vector \cup {p}
              /\ e.state = "MODIFIED" <=> p \in d.sharer_vector /\ d.state = "MODIFIED"
         \/ \E p \in Proc, S \in SUBSET Proc :
              /\ p \in S /\ (Detector \/ S = {p})
              /\ e.sharer_vector = S /\ e.state = "MODIFIED"
         \/ \E S \in SUBSET Proc :
              /\ e.sharer_vector = d.sharer_vector \ S
              /\ e.state = "MODIFIED" => d.state = "MODIFIED" /\ e.sharer_vector # {}
  <1>0. d.state = "INVALID" <=> d.sharer_vector = {}
    BY DEF CoherentLine
  <1>1. ASSUME NEW p \in Proc, e = process_read(d, p, home).line
        PROVE  /\ e.sharer_vector = d.sharer_vector \cup {p}
               /\ e.state = "MODIFIED" <=> p \in d.sharer_vector /\ d.state = "MODIFIED"
    <2> DEFINE r == process_read(d, p, home)
    <2>1. /\ r.line.sharer_vector = d.sharer_vector \cup {p}
          /\ r.line.state = IF p \in d.sharer_vector THEN d.state ELSE "SHARED"
      BY <1>0, ReadLine
    <2>2. e = r.line
      BY <1>1
    <2> HIDE DEF r
    <2> QED
      BY <2>1, <2>2
  <1>2. ASSUME NEW p \in Proc, e = process_write(d, p, home).line
        PROVE  /\ e.sharer_vector \in SUBSET Proc
               /\ p \in e.sharer_vector /\ (Detector \/ e.sharer_vector = {p})
               /\ e.state = "MODIFIED"
    <2> DEFINE w == process_write(d, p, home)
    <2>1. /\ w \in Reply
          /\ w.line.state = "MODIFIED"
          /\ w.line.sharer_vector = {p} \cup w.pushed
          /\ ~Detector => w.pushed = {}
      BY <1>0, WriteLine
    <2>2. e = w.line
      BY <1>2
    <2> HIDE DEF w
    <2>3. e.sharer_vector \in SUBSET Proc
      BY <2>1, <2>2 DEF Reply, Line
    <2> QED
      BY <2>1, <2>2, <2>3
  <1>3. ASSUME NEW S \in SUBSET Proc, e = invalidate(d, S).line
        PROVE  /\ e.sharer_vector = d.sharer_vector \ S
               /\ e.state = "MODIFIED" => d.state = "MODIFIED" /\ e.sharer_vector # {}
    BY <1>3, InvalidateLine
  <1>4. CASE \E p \in Proc : e = process_read(d, p, home).line
    BY <1>1, <1>4
  <1>5. CASE \E p \in Proc : e = process_write(d, p, home).line
    BY <1>2, <1>5
  <1>6. CASE \E S \in (SUBSET Proc) \ {{}} : e = invalidate(d, S).line
    BY <1>3, <1>6
  <1> QED
    BY <1>4, <1>5, <1>6 DEF HandlerStep

LEMMA LinePromiseStep ==
  ASSUME Inv, OneHandler, NEW a \in DirAddrs
  PROVE  [Promise(a)!Next]_(Promise(a)!copyVars)
  <1> DEFINE d == directory[a]
             e == directory'[a]
  <1>1. d \in Line /\ CoherentLine(d) /\ get_home_node(a) \in Proc
    BY ControllerAssumption, HomeIsProc DEF Inv, DirectoryInv, DirectoryIsCoherent, DirAddrs
  <1>2. CASE e = d
    BY <1>2 DEF Promise!copyVars
  <1>3. CASE HandlerStep(d, e, get_home_node(a))
    <2>1. ASSUME NEW p \in Proc,
                 e.sharer_vector = d.sharer_vector \cup {p},
                 e.state = "MODIFIED" <=> p \in d.sharer_vector /\ d.state = "MODIFIED"
          PROVE  Promise(a)!Load(p)
      BY <2>1 DEF Promise!Load
    <2>2. ASSUME NEW p \in Proc, NEW S \in SUBSET Proc, p \in S, Detector \/ S = {p},
                 e.sharer_vector = S, e.state = "MODIFIED"
          PROVE  Promise(a)!Store(p)
      BY <2>2 DEF Promise!Store
    <2>3. ASSUME NEW S \in SUBSET Proc,
                 e.sharer_vector = d.sharer_vector \ S,
                 e.state = "MODIFIED" => d.state = "MODIFIED" /\ e.sharer_vector # {}
          PROVE  Promise(a)!Drop(S)
      BY <2>3 DEF Promise!Drop
    <2> QED
      BY <1>1, <1>3, <2>1, <2>2, <2>3, HandlerKeepsPromise DEF Promise!Next
  <1> QED
    BY <1>2, <1>3 DEF OneHandler

\* The whole machine, any number of caches of any geometry with all the evictions
\* and pushes between them, implements at every address what CopySet promises of
\* one location: read through the directory, no value is lost and, without the
\* detector, there is a single writer or there are readers.
THEOREM EveryLineKeepsItsPromise == Spec => LinesImplementCopySet
  <1>1. Init => \A a \in DirAddrs : Promise(a)!Init
    BY DEF Init, Directory_Line, Promise!Init
  <1>2. Inv /\ [Next]_vars =>
          [\A a \in DirAddrs : [Promise(a)!Next]_(Promise(a)!copyVars)]_vars
    BY LoadOneHandler, StoreOneHandler, LinePromiseStep DEF Next
  <1> QED
    BY <1>1, <1>2, Invariance, PTL DEF Spec, LinesImplementCopySet

-----------------------------------------------------------------------------
(* What a fetch does to a set.                                             *)

Full(set) == \A w \in Ways : set[w].status = "CACHED"

\* A way is in use exactly when its counter is above zero.
Used(set) == \A w \in Ways : set[w].status = "CACHED" <=> set[w].lru > 0

LEMMA FetchHit ==
  ASSUME NEW a \in Addrs, NEW set, SetInv(set, get_set_index(a)), NEW replace \in BOOLEAN,
         holds(set, get_tag(a))
  PROVE  LET f == fetch_single_line(set, get_tag(a), a, replace) IN
         /\ f.evicted = {}
         /\ \A w \in Ways : /\ f.set[w].tag = set[w].tag
                            /\ f.set[w].status = set[w].status
                            /\ f.set[w].lru \in Nat /\ f.set[w].lru >= set[w].lru
                            /\ f.set[w].lru = set[w].lru \/ set[w].status = "CACHED"
  <1> DEFINE tag == get_tag(a)
             w   == way_of(set, tag)
             f   == fetch_single_line(set, tag, a, replace)
  <1>1. w \in Ways /\ set[w].tag = tag /\ tag # NoTag
    BY WayOfHolds, AddressParts
  <1>2. set[w].status = "CACHED"
    BY <1>1 DEF SetInv
  <1>3. f.evicted = {} /\ f.set = IF replace THEN [set EXCEPT ![w].lru = @ + 1] ELSE set
    BY <1>2 DEF fetch_single_line, status_of, touch
  <1>4. set \in [Ways -> Entry]
    BY DEF SetInv
  <1> HIDE DEF w, f, tag
  <1>5. ASSUME NEW v \in Ways
        PROVE  /\ f.set[v].tag = set[v].tag
               /\ f.set[v].status = set[v].status
               /\ f.set[v].lru \in Nat /\ f.set[v].lru >= set[v].lru
               /\ f.set[v].lru = set[v].lru \/ set[v].status = "CACHED"
    BY <1>1, <1>2, <1>3, <1>4 DEF Entry
  <1> QED
    BY <1>3, <1>5 DEF f, tag

LEMMA FetchMiss ==
  ASSUME NEW a \in Addrs, NEW set, SetInv(set, get_set_index(a)), NEW replace \in BOOLEAN,
         ~holds(set, get_tag(a))
  PROVE  LET f == fetch_single_line(set, get_tag(a), a, replace) IN
         /\ victim(set) \in Ways
         /\ set[victim(set)].status = "CACHED" => evict_addr(set) \in f.evicted
         /\ \A v \in Ways : v # victim(set) => f.set[v] = set[v]
         /\ f.set[victim(set)].tag = get_tag(a)
         /\ f.set[victim(set)].status = "CACHED"
         /\ replace => f.set[victim(set)].lru = set[victim(set)].lru + 1
         /\ ~replace => f.set[victim(set)].lru = set[victim(set)].lru
  <1> DEFINE tag == get_tag(a)
             w   == victim(set)
             f   == fetch_single_line(set, tag, a, replace)
             l   == [ lru |-> IF replace THEN set[w].lru + 1 ELSE set[w].lru,
                      tag |-> tag, addr |-> a, status |-> "CACHED" ]
  <1>1. set \in [Ways -> Entry] /\ w \in Ways
    BY VictimIsWay DEF SetInv
  <1>2. touch(set, tag, replace) = set /\ status_of(set, tag) = "UNCACHED"
    BY DEF touch, status_of
  <1>3. /\ f.set = [set EXCEPT ![w] = l]
        /\ f.evicted = IF set[w].status = "CACHED" THEN {evict_addr(set)} ELSE {}
    BY <1>1, <1>2 DEF fetch_single_line
  <1>4. /\ l.tag = tag
        /\ l.status = "CACHED"
        /\ replace => l.lru = set[w].lru + 1
        /\ ~replace => l.lru = set[w].lru
    OBVIOUS
  <1> HIDE DEF l, w, f, tag
  <1>5. f.set[w] = l /\ \A v \in Ways : v # w => f.set[v] = set[v]
    BY <1>1, <1>3
  <1> QED
    BY <1>1, <1>3, <1>4, <1>5 DEF f, w, tag

\* A line is where it was fetched, and the only line a fetch can lose is the
\* one in the way it takes: its address is evicted unless that is way 0.
LEMMA FetchLoses ==
  ASSUME NEW a \in Addrs, NEW set, SetInv(set, get_set_index(a)), NEW replace \in BOOLEAN
  PROVE  LET f == fetch_single_line(set, get_tag(a), a, replace) IN
         /\ holds(f.set, get_tag(a))
         /\ holds(set, get_tag(a)) => \A t : holds(set, t) => holds(f.set, t)
         /\ \A t \in Nat : holds(set, t) /\ ~holds(f.set, t)
              => way_of(set, t) = 0 \/ set[way_of(set, t)].addr \in f.evicted
  <1> DEFINE f == fetch_single_line(set, get_tag(a), a, replace)
             w == victim(set)
  <1>1. CASE holds(set, get_tag(a))
    <2>1. \A v \in Ways : f.set[v].tag = set[v].tag
      BY <1>1, FetchHit
    <2> HIDE DEF f
    <2>2. \A t : holds(set, t) => holds(f.set, t)
      BY <2>1 DEF holds
    <2> QED
      BY <1>1, <2>2 DEF f
  <1>2. CASE ~holds(set, get_tag(a))
    <2>1. /\ w \in Ways
          /\ set[w].status = "CACHED" => evict_addr(set) \in f.evicted
          /\ \A v \in Ways : v # w => f.set[v] = set[v]
          /\ f.set[w].tag = get_tag(a)
      BY <1>2, FetchMiss
    <2> HIDE DEF f
    <2>2. holds(f.set, get_tag(a))
      BY <2>1 DEF holds
    <2>3. ASSUME NEW t \in Nat, holds(set, t), ~holds(f.set, t)
          PROVE  way_of(set, t) = 0 \/ set[way_of(set, t)].addr \in f.evicted
      <3>1. way_of(set, t) \in Ways /\ set[way_of(set, t)].tag = t
        BY <2>3, WayOfHolds
      <3>2. way_of(set, t) = w
        BY <2>1, <2>3, <3>1 DEF holds
      <3>3. set[w].status = "CACHED"
        BY <3>1, <3>2 DEF SetInv, NoTag
      <3>4. evict_addr(set) \in f.evicted
        BY <2>1, <3>3
      <3>5. w = 0 \/ evict_addr(set) = set[w].addr
        BY DEF evict_addr
      <3> QED
        BY <3>2, <3>4, <3>5
    <2> QED
      BY <1>2, <2>2, <2>3 DEF f
  <1> QED
    BY <1>1, <1>2

\* The way taken is free when there is a free one.
LEMMA VictimIsFree ==
  ASSUME NEW set \in [Ways -> Entry], Used(set), set[victim(set)].status = "CACHED"
  PROVE  Full(set)
  <1>1. victim(set) \in LeastUsed(set)
    <2>1. victim(set) \in Ways
      BY VictimIsWay
    <2> DEFINE U == {set[w].lru : w \in Ways}
    <2>2. U \in SUBSET Nat /\ U # {}
      BY <2>1 DEF Entry
    <2>3. PICK w \in Ways : \A v \in Ways : set[w].lru <= set[v].lru
      <3>1. Min(U) \in U /\ \A y \in U : Min(U) <= y
        BY <2>2, MinNat
      <3>2. PICK w \in Ways : Min(U) = set[w].lru
        BY <3>1
      <3>3. \A v \in Ways : set[w].lru <= set[v].lru
        BY <3>1, <3>2
      <3> QED
        BY <3>3
    <2>4. LeastUsed(set) \in SUBSET Nat /\ LeastUsed(set) # {}
      BY <2>3 DEF LeastUsed, Ways
    <2> QED
      BY <2>4, MinNat DEF victim
  <1>2. set[victim(set)].lru > 0 /\ victim(set) \in Ways
    BY VictimIsWay DEF Used
  <1>3. \A v \in Ways : set[victim(set)].lru <= set[v].lru
    BY <1>1 DEF LeastUsed
  <1>4. \A v \in Ways : set[v].lru \in Nat
    BY DEF Entry
  <1>5. \A v \in Ways : set[v].lru > 0
    BY <1>2, <1>3, <1>4
  <1> QED
    BY <1>5 DEF Used, Full

\* A counted fetch, or one into a set that is full or has the line, keeps the
\* counters in step with the ways, never empties a way, and displaces a line
\* from a full set only.
LEMMA FetchFull ==
  ASSUME NEW a \in Addrs, NEW set, SetInv(set, get_set_index(a)), Used(set),
         NEW replace \in BOOLEAN, replace \/ holds(set, get_tag(a)) \/ Full(set)
  PROVE  LET f == fetch_single_line(set, get_tag(a), a, replace) IN
         /\ Used(f.set)
         /\ Full(set) => Full(f.set)
         /\ \A t \in Nat : holds(set, t) /\ ~holds(f.set, t) => Full(set)
  <1> DEFINE f == fetch_single_line(set, get_tag(a), a, replace)
             w == victim(set)
  <1>0. set \in [Ways -> Entry] /\ \A v \in Ways : set[v].lru \in Nat
    BY DEF SetInv, Entry
  <1>1. CASE holds(set, get_tag(a))
    <2>1. \A v \in Ways : /\ f.set[v].tag = set[v].tag
                          /\ f.set[v].status = set[v].status
                          /\ f.set[v].lru \in Nat /\ f.set[v].lru >= set[v].lru
                          /\ f.set[v].lru = set[v].lru \/ set[v].status = "CACHED"
      BY <1>1, FetchHit
    <2> HIDE DEF f
    <2>2. Used(f.set)
      <3> SUFFICES ASSUME NEW v \in Ways
                   PROVE  f.set[v].status = "CACHED" <=> f.set[v].lru > 0
        BY DEF Used
      <3>1. set[v].status = "CACHED" <=> set[v].lru > 0
        BY DEF Used
      <3>2. CASE f.set[v].lru = set[v].lru
        BY <2>1, <3>1, <3>2
      <3>3. CASE set[v].status = "CACHED"
        <4>1. /\ f.set[v].lru \in Nat /\ set[v].lru \in Nat
              /\ f.set[v].lru >= set[v].lru /\ set[v].lru > 0
          BY <1>0, <2>1, <3>1, <3>3
        <4>2. f.set[v].lru > 0
          BY <4>1, SMT
        <4> QED
          BY <2>1, <3>3, <4>2
      <3> QED
        BY <2>1, <3>2, <3>3
    <2>3. Full(set) => Full(f.set)
      BY <2>1 DEF Full
    <2>4. \A t : holds(set, t) => holds(f.set, t)
      BY <2>1 DEF holds
    <2> QED
      BY <2>2, <2>3, <2>4 DEF f
  <1>2. CASE ~holds(set, get_tag(a))
    <2>1. /\ w \in Ways
          /\ \A v \in Ways : v # w => f.set[v] = set[v]
          /\ f.set[w].status = "CACHED"
          /\ replace => f.set[w].lru = set[w].lru + 1
          /\ ~replace => f.set[w].lru = set[w].lru
      BY <1>2, FetchMiss
    <2>2. set[w].status = "CACHED" => Full(set)
      BY <1>0, VictimIsFree
    <2> HIDE DEF f, w
    <2>3. f.set[w].lru > 0
      <3>1. CASE replace
        <4>1. f.set[w].lru = set[w].lru + 1 /\ set[w].lru \in Nat
          BY <1>0, <2>1, <3>1
        <4> QED
          BY <4>1
      <3>2. CASE ~replace
        <4>1. Full(set)
          BY <1>2, <3>2
        <4>2. f.set[w].lru = set[w].lru /\ set[w].lru \in Nat
          BY <1>0, <2>1, <3>2
        <4> QED
          BY <2>1, <4>1, <4>2 DEF Full, Used
      <3> QED
        BY <3>1, <3>2
    <2>4. Used(f.set)
      BY <2>1, <2>3 DEF Used
    <2>5. Full(set) => Full(f.set)
      BY <2>1 DEF Full
    <2>6. ASSUME NEW t \in Nat, holds(set, t), ~holds(f.set, t)
          PROVE  Full(set)
      <3>1. PICK v \in Ways : set[v].tag = t
        BY <2>6 DEF holds
      <3>2. v = w
        BY <2>1, <2>6, <3>1 DEF holds
      <3>3. set[w].status = "CACHED"
        BY <3>1, <3>2 DEF SetInv, NoTag
      <3> QED
        BY <2>2, <3>3
    <2> QED
      BY <2>4, <2>5, <2>6 DEF f
  <1> QED
    BY <1>1, <1>2

-----------------------------------------------------------------------------
(* What the handlers do to the fields that matter here.                    *)

LEMMA EvictLine ==
  ASSUME NEW dir, Coherent(dir), NEW E, NEW b \in DirAddrs
  PROVE  /\ Evict(dir, E)[b].sharer_vector
              = dir[b].sharer_vector \ {p \in Proc : <<p, b>> \in E}
         /\ Evict(dir, E)[b].read_count = dir[b].read_count
  <1> DEFINE S == {p \in Proc : <<p, b>> \in E}
  <1>1. Evict(dir, E)[b] = IF S = {} THEN dir[b] ELSE invalidate(dir[b], S).line
    BY DEF Evict
  <1>2. S \in SUBSET Proc /\ dir[b] \in Line
    BY DEF Coherent
  <1> HIDE DEF S
  <1>3. /\ invalidate(dir[b], S).line.sharer_vector = dir[b].sharer_vector \ S
        /\ invalidate(dir[b], S).line.read_count = dir[b].read_count
    BY <1>2, InvalidateLine
  <1> QED
    BY <1>1, <1>3 DEF S

\* Only other processors with counted reads are pushed to.
LEMMA PushedAreConsumers ==
  ASSUME NEW d \in Line, NEW pid \in Proc, NEW home \in Proc,
         NEW i \in process_write(d, pid, home).pushed
  PROVE  Detector /\ i \in Proc /\ i # pid /\ d.read_count[i] > 0
  <1>1. \A e, p : ServedByMemory(e, p, home, "MODIFIED").pushed = {}
    BY DEF ServedByMemory
  <1>2. \A e, p : fetch_and_invalidate(e, p, home).pushed = {}
    BY DEF fetch_and_invalidate, fetch
  <1>3. ReplaceLastWriter(d, pid, home).pushed = {}
    <2> DEFINE e == update_last_writer(decrease_read_count(d, Consumers(d, pid)), pid)
               r == fetch_and_invalidate(e, pid, home)
    <2>1. r.pushed = {}
      BY <1>2
    <2>2. ReplaceLastWriter(d, pid, home).pushed = r.pushed
      BY DEF ReplaceLastWriter, fetch_and_invalidate, fetch
    <2> QED
      BY <2>1, <2>2
  <1>4. PushToConsumers(d, pid, home).pushed = Consumers(d, pid)
    BY DEF PushToConsumers
  <1>5. Detector /\ i \in Consumers(d, pid)
    BY <1>1, <1>2, <1>3, <1>4 DEF process_write, write_miss, push_and_invalidate
  <1>6. d.read_count[i] \in 0 .. 3 /\ d.read_count[i] >= 2
    BY <1>5 DEF Consumers, qualified_reader, Line, ReadCounts
  <1> QED
    BY <1>5, <1>6 DEF Consumers

-----------------------------------------------------------------------------
(* The invariant.                                                          *)

UsedInv == \A p \in Proc, s \in Sets : Used(cache[p][s])

\* A processor with a counted read of an address has the line, or its set has
\* no way left that a push could fill.
ReadInv ==
  Detector =>
    \A p \in Proc, a \in Addrs :
      directory[a].read_count[p] > 0 => Resident(p, a) \/ Full(cache[p][get_set_index(a)])

IInv == Inv /\ UsedInv /\ ReadInv

\* A step on addr brings its line into the cache of p: what it displaces comes
\* out of a full set, and the directory hears of it except about way 0.
Brought(p, addr) ==
  LET old == cache[p][get_set_index(addr)]
      new == cache'[p][get_set_index(addr)]
  IN
  /\ holds(new, get_tag(addr))
  /\ Used(new)
  /\ Full(old) => Full(new)
  /\ \A t \in Nat : holds(old, t) /\ ~holds(new, t)
       => /\ Full(old)
          /\ way_of(old, t) = 0 \/ p \notin directory'[old[way_of(old, t)].addr].sharer_vector

\* It brings the line into the caches of P and leaves everything else alone but
\* for evictions; only those processors become sharers or have reads counted.
Brings(addr, P) ==
  /\ \A p \in P : Brought(p, addr)
  /\ \A p \in Proc, s \in Sets : p \notin P \/ s # get_set_index(addr)
       => cache'[p][s] = cache[p][s]
  /\ \A b \in DirAddrs, p \in Proc : p \in directory'[b].sharer_vector
       => p \in directory[b].sharer_vector \/ (b = addr /\ p \in P)
  /\ Detector => \A b \in DirAddrs, p \in Proc : directory'[b].read_count[p] > 0
       => directory[b].read_count[p] > 0 \/ (b = addr /\ p \in P)

\* One fetch of the line of addr that keeps the counters in step.
LEMMA FetchBrings ==
  ASSUME IInv, NEW p \in Proc, NEW addr \in Addrs, NEW replace \in BOOLEAN,
         replace \/ Resident(p, addr) \/ Full(cache[p][get_set_index(addr)])
  PROVE  LET old == cache[p][get_set_index(addr)]
             f   == fetch_cache_line(p, addr, replace)
         IN
         /\ f.evicted \subseteq DirAddrs
         /\ SetInv(f.set, get_set_index(addr))
         /\ holds(f.set, get_tag(addr))
         /\ Used(f.set)
         /\ Full(old) => Full(f.set)
         /\ \A t \in Nat : holds(old, t) /\ ~holds(f.set, t)
              => /\ Full(old)
                 /\ way_of(old, t) = 0 \/ old[way_of(old, t)].addr \in f.evicted
  <1> DEFINE old == cache[p][get_set_index(addr)]
             f   == fetch_single_line(old, get_tag(addr), addr, replace)
  <1>1. SetInv(old, get_set_index(addr)) /\ Used(old)
    BY AddressParts DEF IInv, Inv, CacheInv, UsedInv
  <1>2. replace \/ holds(old, get_tag(addr)) \/ Full(old)
    BY DEF Resident
  <1>3. f = fetch_cache_line(p, addr, replace)
    BY DEF fetch_cache_line
  <1> HIDE DEF old
  <1>4. SetInv(f.set, get_set_index(addr)) /\ f.evicted \subseteq DirAddrs
    BY <1>1, FetchSet
  <1>5. /\ holds(f.set, get_tag(addr))
        /\ \A t \in Nat : holds(old, t) /\ ~holds(f.set, t)
             => way_of(old, t) = 0 \/ old[way_of(old, t)].addr \in f.evicted
    BY <1>1, FetchLoses
  <1>6. /\ Used(f.set)
        /\ Full(old) => Full(f.set)
        /\ \A t \in Nat : holds(old, t) /\ ~holds(f.set, t) => Full(old)
    BY <1>1, <1>2, FetchFull
  <1> HIDE DEF f
  <1> QED
    BY <1>3, <1>4, <1>5, <1>6 DEF old

LEMMA LoadBrings ==
  ASSUME IInv, NEW pid \in Proc, NEW addr \in Addrs, load_single_line(pid, addr)
  PROVE  Brings(addr, {pid})
  <1> DEFINE s   == get_set_index(addr)
             f   == fetch_cache_line(pid, addr, TRUE)
             E   == {pid} \X f.evicted
             dir == Evict(directory, E)
             r   == process_read(dir[addr], pid, get_home_node(addr))
  <1>0. s \in Sets /\ addr \in DirAddrs /\ get_home_node(addr) \in Proc
    BY AddressParts, HomeIsProc, ControllerAssumption DEF DirAddrs
  <1>1. cache' = [cache EXCEPT ![pid][s] = f.set] /\ directory' = [dir EXCEPT ![addr] = r.line]
    BY DEF load_single_line
  <1>2. Coherent(directory)
    BY DEF IInv, Inv, DirectoryInv, DirectoryIsCoherent, Coherent
  <1>3. \A b \in DirAddrs :
          /\ dir[b].sharer_vector = directory[b].sharer_vector \ {p \in Proc : <<p, b>> \in E}
          /\ dir[b].read_count = directory[b].read_count
    <2> HIDE DEF E
    <2> SUFFICES ASSUME NEW b \in DirAddrs
                 PROVE  /\ dir[b].sharer_vector
                             = directory[b].sharer_vector \ {p \in Proc : <<p, b>> \in E}
                        /\ dir[b].read_count = directory[b].read_count
      OBVIOUS
    <2> QED
      BY <1>2, EvictLine
  <1>4. Coherent(dir)
    BY <1>2, EvictIsCoherent
  <1> HIDE DEF dir
  <1>5. /\ r.line.sharer_vector = dir[addr].sharer_vector \cup {pid}
        /\ \/ r.line.read_count = dir[addr].read_count
           \/ r.line.read_count
                = [dir[addr].read_count EXCEPT ![pid] = IF @ < 3 THEN @ + 1 ELSE @]
    BY <1>0, <1>4, ReadLine DEF Coherent, CoherentLine
  <1> HIDE DEF r
  <1>6. \A b \in DirAddrs : directory'[b] = IF b = addr THEN r.line ELSE dir[b]
    BY <1>1, <1>4 DEF Coherent
  <1>7. \A p \in Proc, t \in Sets :
          cache'[p][t] = IF p = pid /\ t = s THEN f.set ELSE cache[p][t]
    BY <1>0, <1>1 DEF IInv, Inv, CacheInv
  <1>8. Brought(pid, addr)
    <2> DEFINE old == cache[pid][s]
    <2>1. /\ f.evicted \subseteq DirAddrs
          /\ holds(f.set, get_tag(addr))
          /\ Used(f.set)
          /\ Full(old) => Full(f.set)
          /\ \A t \in Nat : holds(old, t) /\ ~holds(f.set, t)
               => /\ Full(old)
                  /\ way_of(old, t) = 0 \/ old[way_of(old, t)].addr \in f.evicted
      BY FetchBrings
    <2>2. addr \notin f.evicted
      BY FetchSparesLine DEF IInv, Inv
    <2>3. \A e \in f.evicted : pid \notin directory'[e].sharer_vector
      <3> SUFFICES ASSUME NEW e \in f.evicted PROVE pid \notin directory'[e].sharer_vector
        OBVIOUS
      <3>1. e \in DirAddrs /\ e # addr /\ <<pid, e>> \in E
        BY <2>1, <2>2
      <3> HIDE DEF f, E
      <3> QED
        BY <1>3, <1>6, <3>1
    <2>4. cache'[pid][s] = f.set
      BY <1>0, <1>7
    <2> HIDE DEF f, s
    <2> QED
      BY <2>1, <2>3, <2>4 DEF Brought, s
  <1>9. ASSUME NEW b \in DirAddrs, NEW p \in Proc, p \in directory'[b].sharer_vector
        PROVE  p \in directory[b].sharer_vector \/ (b = addr /\ p = pid)
    <2>1. CASE b = addr
      BY <1>3, <1>5, <1>6, <1>9, <2>1
    <2>2. CASE b # addr
      <3>1. directory'[b] = dir[b]
        BY <1>6, <2>2
      <3>2. p \in dir[b].sharer_vector
        BY <1>9, <3>1
      <3> QED
        BY <1>3, <3>2
    <2> QED
      BY <2>1, <2>2
  <1>10. ASSUME NEW b \in DirAddrs, NEW p \in Proc, directory'[b].read_count[p] > 0
         PROVE  directory[b].read_count[p] > 0 \/ (b = addr /\ p = pid)
    <2>1. directory[b].read_count \in [Proc -> ReadCounts]
      BY <1>2 DEF Coherent, Line
    <2>2. directory'[b].read_count[p] = directory[b].read_count[p] \/ (b = addr /\ p = pid)
      <3>1. CASE b # addr
        BY <1>3, <1>6, <3>1
      <3>2. CASE b = addr
        <4>1. dir[addr].read_count = directory[b].read_count /\ directory'[b] = r.line
          BY <1>0, <1>3, <1>6, <3>2
        <4>2. p # pid => r.line.read_count[p] = directory[b].read_count[p]
          BY <1>5, <2>1, <4>1
        <4> QED
          BY <3>2, <4>1, <4>2
      <3> QED
        BY <3>1, <3>2
    <2> QED
      BY <1>10, <2>2
  <1> HIDE DEF f, s
  <1> QED
    BY <1>7, <1>8, <1>9, <1>10 DEF Brings, s

LEMMA StoreBrings ==
  ASSUME IInv, NEW pid \in Proc, NEW addr \in Writable, store_single_line(pid, addr)
  PROVE  \E P \in SUBSET Proc : Brings(addr, P)
  <1> DEFINE s     == get_set_index(addr)
             f     == fetch_cache_line(pid, addr, TRUE)
             E     == {pid} \X f.evicted
             dir   == Evict(directory, E)
             w     == process_write(dir[addr], pid, get_home_node(addr))
             again == IF w.refetch THEN fetch_single_line(f.set, get_tag(addr), addr, TRUE).set
                                   ELSE f.set
             push(i) == fetch_cache_line(i, addr, FALSE)
             F     == {e \in w.pushed \X DirAddrs : e[2] \in push(e[1]).evicted}
             mid   == [dir EXCEPT ![addr] = w.line]
             P     == {pid} \cup w.pushed
  <1>0. addr \in Addrs /\ addr \in DirAddrs /\ s \in Sets /\ get_home_node(addr) \in Proc
    BY AddressParts, HomeIsProc, ControllerAssumption DEF DirAddrs
  <1>1. /\ cache' = [i \in Proc |->
                       IF i = pid THEN [cache[i] EXCEPT ![s] = again]
                       ELSE IF i \in w.pushed THEN [cache[i] EXCEPT ![s] = push(i).set]
                       ELSE cache[i]]
        /\ directory' = Evict(mid, F)
    BY DEF store_single_line
  <1>2. Coherent(directory)
    BY DEF IInv, Inv, DirectoryInv, DirectoryIsCoherent, Coherent
  <1>3. ASSUME NEW b \in DirAddrs
        PROVE  /\ dir[b].sharer_vector
                    = directory[b].sharer_vector \ {p \in Proc : <<p, b>> \in E}
               /\ dir[b].read_count = directory[b].read_count
    <2> HIDE DEF E
    <2> QED
      BY <1>2, EvictLine
  <1>4. Coherent(dir)
    BY <1>2, EvictIsCoherent
  <1>5. f.evicted \subseteq DirAddrs /\ addr \notin f.evicted
    BY <1>0, FetchBrings, FetchSparesLine DEF IInv, Inv
  <1> HIDE DEF dir, f
  <1>6. /\ w.line.sharer_vector = P
        /\ w.line \in Line /\ CoherentLine(w.line) /\ w.pushed \subseteq Proc
        /\ Detector => \/ w.line.read_count = [p \in Proc |-> 0]
                       \/ w.line.read_count = dir[addr].read_count
    <2> DEFINE d == dir[addr]
    <2>1. d \in Line /\ CoherentLine(d)
      BY <1>0, <1>4 DEF Coherent
    <2> HIDE DEF d
    <2>2. d.state = "INVALID" <=> d.sharer_vector = {}
      BY <2>1 DEF CoherentLine
    <2> DEFINE v == process_write(d, pid, get_home_node(addr))
    <2>3. v.line \in Line /\ CoherentLine(v.line) /\ v.pushed \subseteq Proc
      BY <1>0, <2>1, WriteIsCoherent
    <2>4. /\ v.line.sharer_vector = {pid} \cup v.pushed
          /\ Detector => \/ v.line.read_count = [p \in Proc |-> 0]
                         \/ v.line.read_count = d.read_count
      BY <1>0, <2>1, <2>2, WriteLine
    <2>5. v = w
      BY DEF d
    <2> HIDE DEF v, w
    <2> QED
      BY <2>3, <2>4, <2>5 DEF d
  <1>7. \A i \in w.pushed : Detector /\ i # pid /\ directory[addr].read_count[i] > 0
    <2>1. dir[addr] \in Line
      BY <1>0, <1>4 DEF Coherent
    <2>2. \A i \in w.pushed : Detector /\ i # pid /\ dir[addr].read_count[i] > 0
      BY <1>0, <2>1, PushedAreConsumers
    <2> QED
      BY <1>0, <1>3, <2>2
  <1>8. \A i \in w.pushed : Resident(i, addr) \/ Full(cache[i][s])
    BY <1>0, <1>6, <1>7 DEF IInv, ReadInv
  <1> DEFINE refetch == w.refetch
             pushed == w.pushed
             written == w.line
  <1>9. /\ \A b \in DirAddrs : mid[b] = IF b = addr THEN written ELSE dir[b]
        /\ Coherent(mid)
    BY <1>0, <1>4, <1>6, HandlerIsCoherent DEF Coherent
  <1>10. pid \in P /\ P \in SUBSET Proc /\ pushed \subseteq P
    BY <1>6
  <1> HIDE DEF w, mid
  <1>11. ASSUME NEW b \in DirAddrs
         PROVE  /\ directory'[b].sharer_vector
                     = mid[b].sharer_vector \ {p \in Proc : <<p, b>> \in F}
                /\ directory'[b].read_count = mid[b].read_count
    <2> HIDE DEF F
    <2> QED
      BY <1>1, <1>9, EvictLine
  <1>12. ASSUME NEW p \in Proc, NEW t \in Sets
         PROVE  cache'[p][t] = IF t # s THEN cache[p][t]
                               ELSE IF p = pid THEN again
                               ELSE IF p \in pushed THEN push(p).set
                               ELSE cache[p][t]
    <2> HIDE DEF again, push, s
    <2> QED
      BY <1>0, <1>1 DEF IInv, Inv, CacheInv
  <1>13. Brought(pid, addr)
    <2> DEFINE old == cache[pid][s]
    <2>1. /\ SetInv(f.set, s)
          /\ holds(f.set, get_tag(addr))
          /\ Used(f.set)
          /\ Full(old) => Full(f.set)
          /\ \A t \in Nat : holds(old, t) /\ ~holds(f.set, t)
               => /\ Full(old)
                  /\ way_of(old, t) = 0 \/ old[way_of(old, t)].addr \in f.evicted
      BY <1>0, FetchBrings DEF f
    <2>2. /\ Used(again)
          /\ Full(f.set) => Full(again)
          /\ \A t : holds(f.set, t) => holds(again, t)
      <3>1. CASE refetch
        <4> DEFINE g == fetch_single_line(f.set, get_tag(addr), addr, TRUE)
        <4>1. again = g.set
          BY <3>1
        <4>2. Used(g.set) /\ (Full(f.set) => Full(g.set))
          BY <1>0, <2>1, FetchFull
        <4>3. \A t : holds(f.set, t) => holds(g.set, t)
          BY <1>0, <2>1, FetchLoses
        <4> QED
          BY <4>1, <4>2, <4>3
      <3>2. CASE ~refetch
        BY <2>1, <3>2
      <3> QED
        BY <3>1, <3>2
    <2>3. ASSUME NEW e \in f.evicted PROVE pid \notin directory'[e].sharer_vector
      <3>1. e \in DirAddrs /\ e # addr /\ <<pid, e>> \in E
        BY <1>5
      <3>2. mid[e] = dir[e]
        BY <1>9, <3>1
      <3> HIDE DEF E
      <3>3. pid \notin dir[e].sharer_vector
        BY <1>3, <3>1
      <3> HIDE DEF F
      <3> QED
        BY <1>11, <3>1, <3>2, <3>3
    <2>4. cache'[pid][s] = again
      BY <1>0, <1>12
    <2> HIDE DEF again, s
    <2> QED
      BY <2>1, <2>2, <2>3, <2>4 DEF Brought, s
  <1>14. ASSUME NEW i \in pushed PROVE Brought(i, addr)
    <2> DEFINE old == cache[i][s]
    <2>0. i \in Proc /\ i # pid
      BY <1>7, <1>10 DEF w
    <2>1. /\ push(i).evicted \subseteq DirAddrs
          /\ holds(push(i).set, get_tag(addr))
          /\ Used(push(i).set)
          /\ Full(old) => Full(push(i).set)
          /\ \A t \in Nat : holds(old, t) /\ ~holds(push(i).set, t)
               => /\ Full(old)
                  /\ way_of(old, t) = 0 \/ old[way_of(old, t)].addr \in push(i).evicted
      BY <1>0, <1>8, <2>0, FetchBrings
    <2>2. ASSUME NEW e \in push(i).evicted PROVE i \notin directory'[e].sharer_vector
      <3>1. e \in DirAddrs /\ <<i, e>> \in F
        BY <2>1
      <3> HIDE DEF F
      <3> QED
        BY <1>11, <2>0, <3>1
    <2>3. cache'[i][s] = push(i).set
      BY <1>0, <1>12, <2>0
    <2> HIDE DEF push, s
    <2> QED
      BY <2>1, <2>2, <2>3 DEF Brought, s
  <1>15. ASSUME NEW b \in DirAddrs, NEW p \in Proc, p \in directory'[b].sharer_vector
         PROVE  p \in directory[b].sharer_vector \/ (b = addr /\ p \in P)
    <2>1. p \in mid[b].sharer_vector
      BY <1>11, <1>15
    <2>2. CASE b = addr
      BY <1>6, <1>9, <2>1, <2>2
    <2>3. CASE b # addr
      BY <1>3, <1>9, <2>1, <2>3
    <2> QED
      BY <2>2, <2>3
  <1>16. ASSUME Detector, NEW b \in DirAddrs, NEW p \in Proc, directory'[b].read_count[p] > 0
         PROVE  directory[b].read_count[p] > 0
    <2>1. mid[b].read_count[p] > 0
      BY <1>11, <1>16
    <2>2. CASE b = addr
      <3>1. \/ mid[b].read_count = [q \in Proc |-> 0]
            \/ mid[b].read_count = directory[b].read_count
        BY <1>3, <1>6, <1>9, <1>16, <2>2
      <3> QED
        BY <2>1, <3>1
    <2>3. CASE b # addr
      BY <1>3, <1>9, <2>1, <2>3
    <2> QED
      BY <2>2, <2>3
  <1>17. \A p \in Proc, t \in Sets : p \notin P \/ t # s => cache'[p][t] = cache[p][t]
    <2> HIDE DEF again, push, s
    <2>1. \A p \in Proc : p \notin P => p # pid /\ p \notin pushed
      BY <1>10
    <2> QED
      BY <1>12, <2>1
  <1>18. \A p \in P : Brought(p, addr)
    BY <1>13, <1>14
  <1> HIDE DEF P
  <1>19. Brings(addr, P)
    BY <1>15, <1>16, <1>17, <1>18 DEF Brings, s
  <1> QED
    BY <1>10, <1>19

-----------------------------------------------------------------------------
(* The steps.                                                              *)

LEMMA StepBrings ==
  ASSUME IInv, Next
  PROVE  \E addr \in Addrs, P \in SUBSET Proc : Brings(addr, P)
  <1>1. ASSUME NEW pid \in Proc, NEW addr \in Addrs, load_single_line(pid, addr)
        PROVE  \E P \in SUBSET Proc : Brings(addr, P)
    <2>1. Brings(addr, {pid}) /\ {pid} \in SUBSET Proc
      BY <1>1, LoadBrings
    <2> QED
      BY <2>1
  <1>2. ASSUME NEW pid \in Proc, NEW addr \in Writable, store_single_line(pid, addr)
        PROVE  addr \in Addrs /\ \E P \in SUBSET Proc : Brings(addr, P)
    BY <1>2, StoreBrings, ControllerAssumption
  <1> QED
    BY <1>1, <1>2 DEF Next

LEMMA InitIInv == Init => IInv
  <1> SUFFICES ASSUME Init PROVE UsedInv /\ ReadInv
    BY InitInv DEF IInv
  <1>1. UsedInv
    <2>1. \A w \in Ways : Cache_Set[w].status = "UNCACHED" /\ Cache_Set[w].lru = 0
      BY DEF Cache_Set, Cache_Line
    <2>2. Used(Cache_Set)
      BY <2>1 DEF Used
    <2> QED
      BY <2>2 DEF Init, UsedInv
  <1>2. ReadInv
    <2>1. \A a \in Addrs, p \in Proc : directory[a].read_count[p] = 0
      BY DEF Init, Directory_Line, DirAddrs
    <2> QED
      BY <2>1 DEF ReadInv
  <1> QED
    BY <1>1, <1>2

LEMMA NextIInv == IInv /\ [Next]_vars => IInv'
  <1> SUFFICES ASSUME IInv, [Next]_vars PROVE UsedInv' /\ ReadInv'
    BY NextInv DEF IInv
  <1>1. CASE Next
    <2>1. PICK addr \in Addrs, P \in SUBSET Proc : Brings(addr, P)
      BY <1>1, StepBrings
    <2>2. get_set_index(addr) \in Sets /\ addr \in DirAddrs
      BY AddressParts DEF DirAddrs
    <2>3. ASSUME NEW p \in Proc, NEW s \in Sets PROVE Used(cache'[p][s])
      <3>1. CASE p \in P /\ s = get_set_index(addr)
        BY <2>1, <3>1 DEF Brings, Brought
      <3>2. CASE p \notin P \/ s # get_set_index(addr)
        BY <2>1, <3>2 DEF Brings, IInv, UsedInv
      <3> QED
        BY <3>1, <3>2
    <2>4. ASSUME Detector, NEW p \in Proc, NEW a \in Addrs, directory'[a].read_count[p] > 0
          PROVE  \/ holds(cache'[p][get_set_index(a)], get_tag(a))
                 \/ Full(cache'[p][get_set_index(a)])
      <3>0. a \in DirAddrs /\ get_set_index(a) \in Sets /\ get_tag(a) \in Nat
        BY AddressParts DEF DirAddrs
      <3>1. CASE a = addr /\ p \in P
        BY <2>1, <3>1 DEF Brings, Brought
      <3>2. CASE ~(a = addr /\ p \in P)
        <4>1. directory[a].read_count[p] > 0
          BY <2>1, <2>4, <3>0, <3>2 DEF Brings
        <4>2. \/ holds(cache[p][get_set_index(a)], get_tag(a))
              \/ Full(cache[p][get_set_index(a)])
          BY <2>4, <4>1 DEF IInv, ReadInv, Resident
        <4>3. CASE p \in P /\ get_set_index(a) = get_set_index(addr)
          BY <2>1, <3>0, <4>2, <4>3 DEF Brings, Brought
        <4>4. CASE p \notin P \/ get_set_index(a) # get_set_index(addr)
          BY <2>1, <3>0, <4>2, <4>4 DEF Brings
        <4> QED
          BY <4>3, <4>4
      <3> QED
        BY <3>1, <3>2
    <2> QED
      BY <2>3, <2>4 DEF UsedInv, ReadInv, Resident, Used, Full
  <1>2. CASE UNCHANGED vars
    BY <1>2 DEF vars, IInv, UsedInv, ReadInv, Resident, Used, Full
  <1> QED
    BY <1>1, <1>2

THEOREM EvictionInvariance == Spec => []IInv
  BY InitIInv, NextIInv, PTL DEF Spec

\* No line is displaced while its set has a way to spare, although a push does
\* not count as a use of the way it fills: the consumers it goes to have the
\* line already or have no way to spare.
THEOREM NoEarlyEviction == Spec => FullBeforeEvict
  <1> DEFINE A == \A p \in Proc, a \in Addrs :
                    Resident(p, a) /\ ~Resident(p, a)'
                      => \A w \in Ways : cache[p][get_set_index(a)][w].status = "CACHED"
  <1>1. ASSUME IInv, [Next]_vars PROVE [A]_vars
    <2> SUFFICES ASSUME Next PROVE A
      BY <1>1
    <2>1. PICK addr \in Addrs, P \in SUBSET Proc : Brings(addr, P)
      BY <1>1, StepBrings
    <2>2. ASSUME NEW p \in Proc, NEW a \in Addrs, Resident(p, a), ~Resident(p, a)'
          PROVE  Full(cache[p][get_set_index(a)])
      <3>1. get_set_index(a) \in Sets /\ get_tag(a) \in Nat
        BY AddressParts
      <3>2. p \in P /\ get_set_index(a) = get_set_index(addr)
        BY <2>1, <2>2, <3>1 DEF Brings, Resident
      <3> QED
        BY <2>1, <2>2, <3>1, <3>2 DEF Brings, Brought, Resident
    <2> QED
      BY <2>2 DEF Full
  <1> QED
    BY <1>1, EvictionInvariance, PTL DEF Spec, FullBeforeEvict

\* The directory lists a processor without a copy only after an eviction it was
\* not told of, out of way 0 or under another address of the line.
THEOREM SharersAreLeftByEviction == Spec => SharersLoseLinesByEviction
  <1> DEFINE A == \A p \in Proc, a \in Addrs :
                    Sharer(p, a)' /\ ~Resident(p, a)'
                      => \/ Sharer(p, a) /\ ~Resident(p, a)
                         \/ Resident(p, a) /\ (WayOf(p, a) = 0 \/ InstalledBy(p, a) # a)
  <1>1. ASSUME IInv, [Next]_vars PROVE [A]_vars
    <2> SUFFICES ASSUME Next, NEW p \in Proc, NEW a \in Addrs,
                        Sharer(p, a)', ~Resident(p, a)'
                 PROVE  \/ Sharer(p, a) /\ ~Resident(p, a)
                        \/ Resident(p, a) /\ (WayOf(p, a) = 0 \/ InstalledBy(p, a) # a)
      BY <1>1
    <2>1. PICK addr \in Addrs, P \in SUBSET Proc : Brings(addr, P)
      BY <1>1, StepBrings
    <2>2. get_set_index(a) \in Sets /\ get_tag(a) \in Nat /\ a \in DirAddrs
      BY AddressParts DEF DirAddrs
    <2>3. p \in directory'[a].sharer_vector /\ ~holds(cache'[p][get_set_index(a)], get_tag(a))
      BY DEF Sharer, is_set, Resident
    <2>4. CASE ~Resident(p, a)
      <3>1. ~(a = addr /\ p \in P)
        BY <2>1, <2>3 DEF Brings, Brought
      <3>2. p \in directory[a].sharer_vector
        BY <2>1, <2>2, <2>3, <3>1 DEF Brings
      <3> QED
        BY <2>4, <3>2 DEF Sharer, is_set
    <2>5. CASE Resident(p, a)
      <3>1. holds(cache[p][get_set_index(a)], get_tag(a))
        BY <2>5 DEF Resident
      <3>2. p \in P /\ get_set_index(a) = get_set_index(addr)
        BY <2>1, <2>2, <2>3, <3>1 DEF Brings
      <3>3. \/ WayOf(p, a) = 0
            \/ p \notin directory'[InstalledBy(p, a)].sharer_vector
        BY <2>1, <2>2, <2>3, <3>1, <3>2 DEF Brings, Brought, WayOf, InstalledBy
      <3> QED
        BY <2>3, <2>5, <3>3
    <2> QED
      BY <2>4, <2>5
  <1> QED
    BY <1>1, EvictionInvariance, PTL DEF Spec, SharersLoseLinesByEviction

=============================================================================

------------------------------ MODULE Profile ------------------------------
(***************************************************************************)
(* class Profile (src/src/simulator/profile.H): the counters of every      *)
(* processor and of every address, what a handler adds to them, and the    *)
(* totals of the report.  An address has hits, misses and count only: its  *)
(* cycles and hops stay 0.                                                 *)
(***************************************************************************)
EXTENDS Integers, FiniteSetsExt

Stat == [hits |-> 0, misses |-> 0, hit_cycles |-> 0, miss_cycles |-> 0, hops |-> 0]

Access_Stat == [load |-> Stat, store |-> Stat, evict |-> Stat, count |-> 0]

IsStat(s) == s \in [DOMAIN Stat -> Nat]

IsAccess_Stat(s) ==
  /\ DOMAIN s = DOMAIN Access_Stat
  /\ \A kind \in {"load", "store", "evict"} : IsStat(s[kind])
  /\ s.count \in Nat

-----------------------------------------------------------------------------
\* One access of a processor: a hit or a miss with its cost, and its hops.
tally(s, response, cost, hops) ==
  IF response = "CACHE_HIT"
  THEN [s EXCEPT !.hits = @ + 1, !.hit_cycles = @ + cost, !.hops = @ + hops]
  ELSE [s EXCEPT !.misses = @ + 1, !.miss_cycles = @ + cost, !.hops = @ + hops]

\* The same access in the line of its address.
mark(s, response) ==
  IF response = "CACHE_HIT" THEN [s EXCEPT !.hits = @ + 1] ELSE [s EXCEPT !.misses = @ + 1]

\* profile_cache_load and profile_cache_store, kind telling which.
profile_cache_access(profiles, line_stat, kind, pid, addr, r) ==
  [ profiles  |-> [profiles EXCEPT ![pid][kind] = tally(@, r.response, r.cost, r.hops)],
    line_stat |-> [line_stat EXCEPT ![addr][kind] = mark(@, r.response),
                                    ![addr].count = @ + 1] ]

\* An eviction is a miss, and no access: count stays.
profile_cache_evict(profiles, line_stat, pid, addr, cost, hops) ==
  [ profiles  |-> [profiles EXCEPT ![pid].evict = tally(@, "CACHE_MISS", cost, hops)],
    line_stat |-> [line_stat EXCEPT ![addr].evict = mark(@, "CACHE_MISS")] ]

-----------------------------------------------------------------------------
\* A sum over processors or addresses of one counter of one kind.
SumOf(stats, kind, counter) ==
  MapThenSumSet(LAMBDA i : stats[i][kind][counter], DOMAIN stats)

\* Access_Stat::stat_to_string: what the percentages of hits and misses are of.
total_accesses(s) == s.load.hits + s.store.hits + s.load.misses + s.store.misses

\* Fault: the totals start at processor 1, to skip the main thread.
Report_SkipMain(profiles) ==
  LET sum(kind, counter) ==
        MapThenSumSet(LAMBDA p : profiles[p][kind][counter], DOMAIN profiles \ {0})
  IN
  [ all_hits   |-> sum("load", "hits") + sum("store", "hits"),
    all_misses |-> sum("load", "misses") + sum("store", "misses"),
    all_loads  |-> sum("load", "hits") + sum("load", "misses") ]

\* Profile::stats_to_string.
Report(profiles) ==
  LET sum(kind, counter) == SumOf(profiles, kind, counter) IN
  [ all_hits         |-> sum("load", "hits") + sum("store", "hits"),
    all_misses       |-> sum("load", "misses") + sum("store", "misses"),
    all_loads        |-> sum("load", "hits") + sum("load", "misses"),
    all_hit_cycles   |-> sum("load", "hit_cycles") + sum("store", "hit_cycles"),
    all_miss_cycles  |-> sum("load", "miss_cycles") + sum("store", "miss_cycles"),
    all_evict_cycles |-> sum("evict", "miss_cycles"),
    all_hops         |-> sum("load", "hops") + sum("store", "hops") + sum("evict", "hops") ]

=============================================================================

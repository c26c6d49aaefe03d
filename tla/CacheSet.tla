------------------------------ MODULE CacheSet ------------------------------
(***************************************************************************)
(* class Cache_Line and class Cache_Set (src/src/simulator/cache.H): the   *)
(* ways of one set of a processor's cache, the lookup of a tag and the     *)
(* choice of the line to evict.                                            *)
(*                                                                         *)
(* lru counts the accesses to the line.  A line that takes over a way      *)
(* takes over its counter too: nothing resets or ages it.                  *)
(***************************************************************************)
EXTENDS Integers, FiniteSetsExt

CONSTANT Associativity       \* _associativity, the number of lines per set

ASSUME AssociativityAssumption == Associativity \in Nat \ {0}

Ways == 0 .. Associativity - 1

NoTag == -1                  \* the ALL_ONES of an unused line

LOCAL_STATUS == {"UNCACHED", "CACHED"}

Cache_Line == [lru |-> 0, tag |-> NoTag, addr |-> 0, status |-> "UNCACHED"]

Cache_Set == [w \in Ways |-> Cache_Line]

-----------------------------------------------------------------------------
holds(set, tag) == \E w \in Ways : set[w].tag = tag

\* The lookup stops at the first way with the tag.
way_of(set, tag) == Min({w \in Ways : set[w].tag = tag})

\* fetch: the set after the lookup, and the status it returns.
touch(set, tag, replace) ==
  IF holds(set, tag) /\ replace
  THEN [set EXCEPT ![way_of(set, tag)].lru = @ + 1]
  ELSE set

status_of(set, tag) ==
  IF holds(set, tag) THEN set[way_of(set, tag)].status ELSE "UNCACHED"

LeastUsed(set) == {w \in Ways : \A v \in Ways : set[w].lru <= set[v].lru}

\* evict scans for the smallest counter, from way 0 and with <.
victim(set) == Min(LeastUsed(set))

\* Way 0 is where the scan starts, and the address it starts with is 0: that
\* is the address evict invalidates when the victim is way 0.
evict_addr(set) == IF victim(set) = 0 THEN 0 ELSE set[victim(set)].addr

\* Fault: the lookup is skipped, the line is always installed.
fetch_single_line_NoLookup(set, tag, addr, replace) ==
  LET w == victim(set) IN
  [ set     |-> [set EXCEPT ![w] = [ lru |-> IF replace THEN @.lru + 1 ELSE @.lru,
                                     tag |-> tag, addr |-> addr, status |-> "CACHED" ]],
    evicted |-> IF set[w].status = "CACHED" THEN {evict_addr(set)} ELSE {} ]

\* Fault: installing a line does not count as a use of it.
fetch_single_line_NotCounted(set, tag, addr, replace) ==
  LET found == touch(set, tag, replace) IN
  IF status_of(set, tag) = "CACHED"
  THEN [set |-> found, evicted |-> {}]
  ELSE fetch_single_line_NoLookup(found, tag, addr, FALSE)

\* Fault: the new line overwrites the victim before the victim's address is
\* read.
fetch_single_line_InstallFirst(set, tag, addr, replace) ==
  LET found == touch(set, tag, replace)
      w     == victim(found)
  IN
  IF status_of(set, tag) = "CACHED"
  THEN [set |-> found, evicted |-> {}]
  ELSE [ set     |-> fetch_single_line_NoLookup(found, tag, addr, replace).set,
         evicted |-> IF found[w].status = "CACHED" THEN {addr} ELSE {} ]

\* The set afterwards, and the address (at most one) whose directory line
\* evict invalidates on the way.
fetch_single_line(set, tag, addr, replace) ==
  LET found == touch(set, tag, replace)
      w     == victim(found)
  IN
  IF status_of(set, tag) = "CACHED"
  THEN [set |-> found, evicted |-> {}]
  ELSE [ set     |-> [found EXCEPT ![w] =
                        [ lru |-> IF replace THEN @.lru + 1 ELSE @.lru,
                          tag |-> tag, addr |-> addr, status |-> "CACHED" ]],
         evicted |-> IF found[w].status = "CACHED" THEN {evict_addr(found)} ELSE {} ]

=============================================================================

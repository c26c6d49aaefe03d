---------------------------- MODULE StaticOrder ----------------------------
(***************************************************************************)
(* What the text of the threads alone says about their order.  A program   *)
(* without data-dependent synchronisation can be judged by it, whatever    *)
(* the interleaving: ParmacsProofs.  threads is what ThreadsOf of Parmacs  *)
(* gives, ops is the code of one thread, and to be at k is to have all     *)
(* operations before the k-th behind one.                                  *)
(***************************************************************************)
EXTENDS Footprint, FiniteSetsExt

Acquires(op) == op.op \in {"lock", "waitpause"}
Releases(op) == op.op \in {"unlock", "clearpause"}

\* The operations before k that took a mutex not released since, and those mutexes.
Holds(ops, k) ==
  {i \in 1 .. k - 1 : Acquires(ops[i]) /\ \A j \in i + 1 .. k - 1 : Releases(ops[j]) => ops[j].on # ops[i].on}
Kept(ops, k) == {ops[i].on : i \in Holds(ops, k)}

\* A thread releases only what it has, and comes to a barrier, to WAIT_FOR_END and
\* to its end without a mutex.
WellLocked(ops) ==
  /\ \A k \in DOMAIN ops : Releases(ops[k]) => ops[k].on \in Kept(ops, k)
  /\ \A k \in DOMAIN ops : ops[k].op \in {"barrier", "join"} => Kept(ops, k) = {}
  /\ Kept(ops, Len(ops) + 1) = {}

\* How many operations before k are of a kind, and how many of them concern e.
Phase(ops, k)          == Cardinality({i \in 1 .. k - 1 : ops[i].op = "barrier"})
Count(ops, k, kind, e) == Cardinality({i \in 1 .. k - 1 : ops[i].op = kind /\ ops[i].on = e})

Starts(ops, k) == ops[k].op = "create" /\ \A i \in 1 .. k - 1 : ops[i].op # "create"

-----------------------------------------------------------------------------
(* Order.  behind[t][k][u] claims that the first behind[t][k][u] operations *)
(* of thread u are over when thread t is at k: a vector clock.              *)

\* SETPAUSE of an event before operation l of s: how often thread t, that waits for
\* it, has cleared it for certain.
Turn(threads, behind, s, l, t) ==
  Count(threads[t].code, behind[s][l][t] + 1, "clearpause", threads[s].code[l].on)

\* Operation k of t is not over before operation l of s is.  An event that was
\* cleared n times is the one that is set after n times.
Follows(threads, behind, t, k, s, l) ==
  LET main == Max(DOMAIN threads)
      op   == threads[t].code[k]
      of   == threads[s].code[l]
  IN
  \/ /\ op.op = "barrier" /\ of.op = "barrier" /\ main \notin {s, t}
     /\ Phase(threads[s].code, l) = Phase(threads[t].code, k)
  \/ op.op = "begin" /\ s = main /\ Starts(threads[s].code, l)
  \/ op.op = "join" /\ t = main /\ s # main
  \/ /\ op.op = "waitpause" /\ of.op = "setpause" /\ op.on = of.on
     /\ Turn(threads, behind, s, l, t) = Count(threads[t].code, k, "clearpause", op.on)

\* The claims hold: there is none at the start, and what is new after an operation
\* is the operation itself, or one it follows and what is behind that one.
Vouched(threads, behind) ==
  \A t, u \in DOMAIN threads :
    /\ behind[t][1][u] = 0
    /\ \A k \in DOMAIN threads[t].code :
         \/ behind[t][k + 1][u] <= IF u = t THEN k ELSE behind[t][k][u]
         \/ \E s \in DOMAIN threads : \E l \in DOMAIN threads[s].code :
              /\ behind[t][k + 1][u] <= IF u = s THEN l ELSE behind[s][l][u]
              /\ Follows(threads, behind, t, k, s, l)

\* One thread waits for an event and clears it, each time before it waits again, and
\* no two SETPAUSE of the event come after the same number of times.
EventsTakeTurns(threads, behind) ==
  \A t \in DOMAIN threads :
    LET ops     == threads[t].code
        Awaited == {ops[k].on : k \in {k \in DOMAIN ops : ops[k].op = "waitpause"}}
        Sets(e) == {r \in UNION {{s} \X DOMAIN threads[s].code : s \in DOMAIN threads} :
                      threads[r[1]].code[r[2]].op = "setpause" /\ threads[r[1]].code[r[2]].on = e}
    IN  \A e \in Awaited :
          /\ \A u \in DOMAIN threads \ {t} : \A l \in DOMAIN threads[u].code :
               threads[u].code[l].op \in {"waitpause", "clearpause"} => threads[u].code[l].on # e
          /\ \A k \in DOMAIN ops : ops[k].op = "waitpause" /\ ops[k].on = e =>
               Count(ops, k, "clearpause", e) = Count(ops, k, "waitpause", e)
          /\ \A k \in DOMAIN ops : ops[k].op = "clearpause" /\ ops[k].on = e =>
               Count(ops, k, "clearpause", e) < Count(ops, k, "waitpause", e)
          /\ \A q, r \in Sets(e) :
               Turn(threads, behind, q[1], q[2], t) = Turn(threads, behind, r[1], r[2], t) => q = r

\* The claims are about these threads, and hold.
Clock(threads, behind) ==
  /\ \A t, u \in DOMAIN threads : \A k \in 1 .. Len(threads[t].code) + 1 : behind[t][k][u] \in Nat
  /\ Vouched(threads, behind)
  /\ EventsTakeTurns(threads, behind)

-----------------------------------------------------------------------------
(* What follows from it.                                                    *)

\* The locations that one of two operations writes and the other one uses, if not
\* both write the same value.
Conflict(a, b) ==
  (a.writes \cap (b.reads \cup Stores(b))) \cup (b.writes \cap (a.reads \cup Stores(a))) \cup
  (a.same \cap b.reads) \cup (b.same \cap a.reads)

Works(ops) == {k \in DOMAIN ops : ops[k].op = "work"}

\* Work of two threads that can be done at the same time, neither being behind the
\* other one and no mutex kept in both, conflicts on L only.
OrderedBut(threads, behind, L) ==
  \A t, u \in DOMAIN threads : t < u =>
    LET a == threads[t].code
        b == threads[u].code
    IN  \A k \in Works(a), l \in Works(b) :
          \/ l <= behind[t][k][u] \/ k <= behind[u][l][t]
          \/ Conflict(a[k], b[l]) \subseteq L
          \/ Kept(a, k) \cap Kept(b, l) # {}

\* What is read has been stored before, but for L.
WrittenBut(threads, behind, L) ==
  \A t \in DOMAIN threads : \A k \in Works(threads[t].code) : threads[t].code[k].on = "memory" =>
    \A x \in threads[t].code[k].reads \ L :
      \E u \in DOMAIN threads : x \in DOMAIN threads[u].stored /\ threads[u].stored[x] <= behind[t][k][u]

-----------------------------------------------------------------------------
(* Progress.  rank[t][k] claims a place for operation k of thread t in one  *)
(* line of all operations, so that nobody waits for what comes later.       *)

NoCircularWait(threads, behind, rank) ==
  LET main    == Max(DOMAIN threads)
      workers == DOMAIN threads \ {main}
      Anyone  == {"work", "lock", "unlock", "setpause", "waitpause", "clearpause"}
      After(t, k, s, l) == Follows(threads, behind, t, k, s, l) /\ rank[s][l] < rank[t][k]
      With(t, k, s, l)  ==
        /\ Follows(threads, behind, t, k, s, l) /\ rank[s][l] = rank[t][k]
        /\ threads[s].code[l].on = threads[t].code[k].on
  IN
  \A t \in DOMAIN threads :
    LET ops == threads[t].code IN
    \A k \in DOMAIN ops :
      /\ rank[t][k] \in Nat
      /\ \A l \in 1 .. k - 1 : rank[t][l] < rank[t][k]
      /\ ops[k].op \in Anyone \cup IF t = main THEN {"create", "join"} ELSE {"begin", "barrier"}
      /\ Kept(ops, k) # {} => ops[k].op \in {"work", "unlock", "clearpause"}
      /\ ops[k].op = "barrier" => \A s \in workers : \E l \in DOMAIN threads[s].code : With(t, k, s, l)
      /\ ops[k].op \in {"begin", "waitpause"} =>
           \E s \in DOMAIN threads : \E l \in DOMAIN threads[s].code : After(t, k, s, l)
      /\ ops[k].op = "join" => \A s \in workers : \A l \in DOMAIN threads[s].code : After(t, k, s, l)

=============================================================================

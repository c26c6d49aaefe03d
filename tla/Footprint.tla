----------------------------- MODULE Footprint -----------------------------
(***************************************************************************)
(* The vocabulary in which the SPLASH-2 programs are written down.  What a *)
(* C function does to shared memory is its footprint: the locations it     *)
(* reads before it has written them itself, and those it writes.  Numbers, *)
(* and the order inside a function, are left out; which process does what  *)
(* to which part of which array between which two synchronisations is kept.*)
(*                                                                         *)
(* A thread is a sequence of operations: work, and the macros of           *)
(* null_macros/c.m4.null.POSIX_BARRIER, whose meaning is in Parmacs.       *)
(***************************************************************************)
EXTENDS Integers, Sequences, FiniteSets, TLC

LOCAL INSTANCE SequencesExt
LOCAL INSTANCE FiniteSetsExt
LOCAL INSTANCE Functions

\* same: locations to which all threads that get here store the same value.
Foot(r, w) == [reads |-> r, writes |-> w, same |-> {}]
Nothing    == Foot({}, {})
Read(r)    == Foot(r, {})
Write(w)   == Foot({}, w)
Update(u)  == Foot(u, u)
Agree(w)   == [Nothing EXCEPT !.same = w]
Stores(f)  == f.writes \cup f.same

\* First a and then b: what a wrote, b does not read from others.
Then(a, b) ==
  [reads  |-> a.reads \cup (b.reads \ Stores(a)),
   writes |-> a.writes \cup b.writes,
   same   |-> a.same \cup b.same]

\* A loop of independent iterations, and one whose iterations build on each other.
Each(S) ==
  [reads  |-> UNION {f.reads : f \in S},
   writes |-> UNION {f.writes : f \in S},
   same   |-> UNION {f.same : f \in S}]

InOrder(seq) ==
  LET StoredBefore(i) == UNION {Stores(seq[j]) : j \in 1 .. i - 1} IN
  [Each(Range(seq)) EXCEPT !.reads = UNION {seq[i].reads \ StoredBefore(i) : i \in DOMAIN seq}]

When(condition, f) == IF condition THEN f ELSE Nothing

-----------------------------------------------------------------------------
(* Operations.                                                              *)

Operation(kind, name, f) == [op |-> kind, on |-> name] @@ f

Work(f)          == IF f = Nothing THEN << >> ELSE <<Operation("work", "memory", f)>>
\* Reads for the sake of the cache, whose values are not used.
Touch(f)         == <<Operation("work", "cache", f)>>
BARRIER(b)       == <<Operation("barrier", b, Nothing)>>
LOCK(l)          == <<Operation("lock", l, Nothing)>>
UNLOCK(l)        == <<Operation("unlock", l, Nothing)>>
SETPAUSE(e)      == <<Operation("setpause", e, Nothing)>>
WAITPAUSE(e)     == <<Operation("waitpause", e, Nothing)>>
CLEARPAUSE(e)    == <<Operation("clearpause", e, Nothing)>>
CREATE           == <<Operation("create", "threads", Nothing)>>
Created          == <<Operation("begin", "threads", Nothing)>>
WAIT_FOR_END     == <<Operation("join", "threads", Nothing)>>

Locked(l, f) == LOCK(l) \o Work(f) \o UNLOCK(l)

\* The code of a loop over i = a, ..., b.
Loop(a, b, body(_)) == FlattenSeq([i \in 1 .. (IF b < a THEN 0 ELSE b - a + 1) |-> body(a + i - 1)])

Skip == << >>
If(condition, ops) == IF condition THEN ops ELSE Skip

\* Work that follows work without a synchronisation in between is one operation:
\* all of it meets the same work of the others.
Fused(code) ==
  LET IsWork(i) == code[i].op = "work" /\ code[i].on = "memory"
      Starts(i) == i = 1 \/ ~IsWork(i) \/ ~IsWork(i - 1)
      starts    == SelectSeq([i \in DOMAIN code |-> i], Starts)
      last(n)   == IF n = Len(starts) THEN Len(code) ELSE starts[n + 1] - 1
      Run(n)    == IF IsWork(starts[n])
                   THEN Operation("work", "memory", InOrder(SubSeq(code, starts[n], last(n))))
                   ELSE code[starts[n]]
  IN  << >> \o [n \in DOMAIN starts |-> Run(n)]

\* A thread: its code, and the first of its operations that stores to a location.
Thread(code) ==
  LET Enumerated(S) ==                       \* for TLC to build and sort each set once
        LET T == {x \in S : TRUE} IN IF Cardinality(T) = 0 THEN {} ELSE T
      ops == << >> \o [i \in DOMAIN code |->
                [code[i] EXCEPT !.reads = Enumerated(@), !.writes = Enumerated(@), !.same = Enumerated(@)]]
      kept == << >> \o [i \in DOMAIN ops |-> Enumerated(Stores(ops[i]))]
      First(x) == CHOOSE i \in DOMAIN ops : x \in kept[i] /\ \A j \in 1 .. i - 1 : x \notin kept[j]
  IN  [code |-> ops, stored |-> [x \in UNION Range(kept) |-> First(x)] @@ << >>]

\* The threads 0, ..., P - 1 and, as thread P, what main does before CREATE and
\* after WAIT_FOR_END.
Program(workers, main) ==
  [t \in DOMAIN workers |-> Thread(Fused(workers[t]))] @@
  (Cardinality(DOMAIN workers) :> Thread(Fused(main)))

=============================================================================

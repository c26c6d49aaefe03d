--------------------------- MODULE ParmacsProofs ---------------------------
(***************************************************************************)
(* Theorems of Parmacs, for every set of programs that satisfies           *)
(* ThreadsAssumption: mutual exclusion, and that the text of a program is  *)
(* enough to tell that it has no data race, reads nothing undefined and    *)
(* never gets stuck.                                                       *)
(***************************************************************************)
EXTENDS Parmacs, FiniteSetTheorems, TLAPS

-----------------------------------------------------------------------------
(* What the operators of StaticOrder make of one operation more.            *)

\* No operation both takes and releases a mutex.
LEMMA TakesOrReleases == ASSUME NEW op PROVE ~(Acquires(op) /\ Releases(op))
BY DEF Acquires, Releases

\* An operation that takes a mutex adds it to those that are kept.
LEMMA KeptAcquire ==
  ASSUME NEW ops, NEW k \in Nat \ {0}, Acquires(ops[k])
  PROVE  Kept(ops, k + 1) = Kept(ops, k) \cup {ops[k].on}
<1>1. ~Releases(ops[k])
  BY TakesOrReleases
<1>2. 1 .. (k + 1) - 1 = (1 .. k - 1) \cup {k}
  OBVIOUS
<1>3. \A i \in 1 .. k - 1 : i + 1 .. (k + 1) - 1 = (i + 1 .. k - 1) \cup {k}
  OBVIOUS
<1>4. k + 1 .. (k + 1) - 1 = {}
  OBVIOUS
<1>5. Holds(ops, k + 1) = Holds(ops, k) \cup {k}
  BY <1>1, <1>2, <1>3, <1>4 DEF Holds
<1>6. QED
  BY <1>5 DEF Kept

\* One that releases a mutex takes it out.
LEMMA KeptRelease ==
  ASSUME NEW ops, NEW k \in Nat \ {0}, Releases(ops[k])
  PROVE  Kept(ops, k + 1) = Kept(ops, k) \ {ops[k].on}
<1>1. ~Acquires(ops[k])
  BY TakesOrReleases
<1>2. 1 .. (k + 1) - 1 = (1 .. k - 1) \cup {k}
  OBVIOUS
<1>3. \A i \in 1 .. k - 1 : i + 1 .. (k + 1) - 1 = (i + 1 .. k - 1) \cup {k}
  OBVIOUS
<1>4. Holds(ops, k + 1) = {i \in Holds(ops, k) : ops[i].on # ops[k].on}
  BY <1>1, <1>2, <1>3 DEF Holds
<1>5. QED
  BY <1>4 DEF Kept

\* Any other leaves them as they are.
LEMMA KeptSame ==
  ASSUME NEW ops, NEW k \in Nat \ {0}, ~Acquires(ops[k]), ~Releases(ops[k])
  PROVE  Kept(ops, k + 1) = Kept(ops, k)
<1>1. 1 .. (k + 1) - 1 = (1 .. k - 1) \cup {k}
  OBVIOUS
<1>2. \A i \in 1 .. k - 1 : i + 1 .. (k + 1) - 1 = (i + 1 .. k - 1) \cup {k}
  OBVIOUS
<1>3. Holds(ops, k + 1) = Holds(ops, k)
  BY <1>1, <1>2 DEF Holds
<1>4. QED
  BY <1>3 DEF Kept

\* Counting the members of S below k.
LEMMA Tally ==
  ASSUME NEW S, NEW k \in Nat \ {0}
  PROVE  /\ Cardinality((1 .. 1 - 1) \cap S) = 0
         /\ Cardinality((1 .. k - 1) \cap S) \in Nat
         /\ Cardinality((1 .. (k + 1) - 1) \cap S) =
              Cardinality((1 .. k - 1) \cap S) + (IF k \in S THEN 1 ELSE 0)
         /\ \A l \in Nat \ {0} : k <= l =>
              Cardinality((1 .. k - 1) \cap S) <= Cardinality((1 .. l - 1) \cap S)
<1> DEFINE B(n) == (1 .. n - 1) \cap S
<1>1. ASSUME NEW n \in Nat \ {0} PROVE IsFiniteSet(B(n)) /\ Cardinality(B(n)) \in Nat
  <2>1. IsFiniteSet(1 .. n - 1)
    BY FS_Interval
  <2>2. IsFiniteSet(B(n))
    BY <2>1, FS_Subset
  <2>3. QED
    BY <2>2, FS_CardinalityType
<1>2. Cardinality(B(1)) = 0
  <2>1. B(1) = {}
    OBVIOUS
  <2>2. QED
    BY <2>1, FS_EmptySet
<1>3. k \notin B(k) /\ 1 .. (k + 1) - 1 = (1 .. k - 1) \cup {k}
  OBVIOUS
<1>4. Cardinality(B(k + 1)) = Cardinality(B(k)) + (IF k \in S THEN 1 ELSE 0)
  <2>1. CASE k \in S
    <3>1. B(k + 1) = B(k) \cup {k}
      BY <1>3, <2>1
    <3>2. Cardinality(B(k) \cup {k}) = Cardinality(B(k)) + 1
      BY <1>1, <1>3, FS_AddElement
    <3>3. QED
      BY <2>1, <3>1, <3>2
  <2>2. CASE k \notin S
    <3>1. B(k + 1) = B(k)
      BY <1>3, <2>2
    <3>2. QED
      BY <1>1, <2>2, <3>1
  <2>3. QED
    BY <2>1, <2>2
<1>5. ASSUME NEW l \in Nat \ {0}, k <= l PROVE Cardinality(B(k)) <= Cardinality(B(l))
  <2>1. B(k) \subseteq B(l)
    BY <1>5
  <2>2. QED
    BY <1>1, <2>1, FS_Subset
<1>6. QED
  BY <1>1, <1>2, <1>4, <1>5

\* The phase counts the barriers passed.
LEMMA PhaseCounts ==
  ASSUME NEW ops, NEW k \in Nat \ {0}
  PROVE  /\ Phase(ops, 1) = 0
         /\ Phase(ops, k) \in Nat
         /\ Phase(ops, k + 1) = Phase(ops, k) + (IF ops[k].op = "barrier" THEN 1 ELSE 0)
         /\ \A l \in Nat \ {0} : k <= l => Phase(ops, k) <= Phase(ops, l)
<1> DEFINE S == {i \in Nat \ {0} : ops[i].op = "barrier"}
           T(n) == Cardinality((1 .. n - 1) \cap S)
<1>1. ASSUME NEW n PROVE Phase(ops, n) = T(n)
  <2>1. {i \in 1 .. n - 1 : ops[i].op = "barrier"} = (1 .. n - 1) \cap S
    OBVIOUS
  <2>2. QED
    BY <2>1 DEF Phase
<1>2. k \in S <=> ops[k].op = "barrier"
  OBVIOUS
<1> HIDE DEF S
<1>3. /\ T(1) = 0 /\ T(k) \in Nat
      /\ T(k + 1) = T(k) + (IF k \in S THEN 1 ELSE 0)
      /\ \A l \in Nat \ {0} : k <= l => T(k) <= T(l)
  BY Tally
<1> HIDE DEF T
<1>4. QED
  BY <1>1, <1>2, <1>3

\* The same for the operations of a kind on an event.
LEMMA CountCounts ==
  ASSUME NEW ops, NEW k \in Nat \ {0}, NEW kind, NEW e
  PROVE  /\ Count(ops, 1, kind, e) = 0
         /\ Count(ops, k, kind, e) \in Nat
         /\ Count(ops, k + 1, kind, e) =
              Count(ops, k, kind, e) + (IF ops[k].op = kind /\ ops[k].on = e THEN 1 ELSE 0)
         /\ \A l \in Nat \ {0} : k <= l => Count(ops, k, kind, e) <= Count(ops, l, kind, e)
<1> DEFINE S == {i \in Nat \ {0} : ops[i].op = kind /\ ops[i].on = e}
           T(n) == Cardinality((1 .. n - 1) \cap S)
<1>1. ASSUME NEW n PROVE Count(ops, n, kind, e) = T(n)
  <2>1. {i \in 1 .. n - 1 : ops[i].op = kind /\ ops[i].on = e} = (1 .. n - 1) \cap S
    OBVIOUS
  <2>2. QED
    BY <2>1 DEF Count
<1>2. k \in S <=> ops[k].op = kind /\ ops[k].on = e
  OBVIOUS
<1> HIDE DEF S
<1>3. /\ T(1) = 0 /\ T(k) \in Nat
      /\ T(k + 1) = T(k) + (IF k \in S THEN 1 ELSE 0)
      /\ \A l \in Nat \ {0} : k <= l => T(k) <= T(l)
  BY Tally
<1> HIDE DEF T
<1>4. QED
  BY <1>1, <1>2, <1>3

\* At the first operation no mutex is kept.
LEMMA NothingKept == ASSUME NEW ops PROVE Kept(ops, 1) = {}
<1>1. 1 .. 1 - 1 = {}
  OBVIOUS
<1>2. QED
  BY <1>1 DEF Kept, Holds

-----------------------------------------------------------------------------
(* The inductive invariant: the mutexes that threads have are those their   *)
(* code keeps where they are, the workers have passed the same number of    *)
(* barriers, and main is past CREATE when created says so.                  *)

MutexInv ==
  /\ \A h \in holding : h[1] \in Kept(Ops(h[2]), pc[h[2]])
  /\ \A t \in Threads : \A m \in Kept(Ops(t), pc[t]) : <<m, t>> \in holding
  /\ \A g, h \in holding : g[1] = h[1] => g = h

OrderInv ==
  /\ \A t, u \in Workers : Phase(Ops(t), pc[t]) = Phase(Ops(u), pc[u])
  /\ created => \A l \in DOMAIN Ops(Main) : Starts(Ops(Main), l) => l < pc[Main]

IInv == TypeOK /\ MutexInv /\ OrderInv

\* Threads are numbers, main is the last one, and codes are sequences.
LEMMA ThreadsAreNumbered ==
  ASSUME TypeOK
  PROVE  /\ Threads \subseteq Int
         /\ Main \in Threads
         /\ \A t \in Threads : t <= Main
         /\ Workers \subseteq Threads
<1>1. PICK m \in Threads : \A t \in Threads : t <= m
  BY ThreadsAssumption DEF ThreadsAssumption, TypeOK, Threads
<1>2. Threads \subseteq Int
  BY ThreadsAssumption DEF ThreadsAssumption, TypeOK, Threads
<1>3. \A t \in Threads : m >= t
  BY <1>1, <1>2
<1>4. Main \in Threads /\ \A t \in Threads : Main >= t
  BY <1>1, <1>3 DEF Main, Max
<1>5. QED
  BY <1>2, <1>4 DEF Workers

LEMMA CodeIsWellLocked ==
  ASSUME TypeOK, NEW t \in Threads
  PROVE  /\ WellLocked(Ops(t))
         /\ Len(Ops(t)) \in Nat
         /\ DOMAIN Ops(t) = 1 .. Len(Ops(t))
<1>1. Ops(t) \in Seq({Ops(t)[i] : i \in DOMAIN Ops(t)}) /\ WellLocked(Ops(t))
  BY ThreadsAssumption DEF ThreadsAssumption, TypeOK, Threads, Ops
<1>2. QED
  BY <1>1

\* Where a thread is.
LEMMA WhereAThreadIs ==
  ASSUME TypeOK, NEW t \in Threads
  PROVE  /\ pc[t] \in Nat \ {0}
         /\ Done(t) => pc[t] = Len(Ops(t)) + 1
         /\ ~Done(t) => pc[t] \in DOMAIN Ops(t)
<1>1. Len(Ops(t)) \in Nat /\ DOMAIN Ops(t) = 1 .. Len(Ops(t))
  BY CodeIsWellLocked
<1>2. pc[t] \in 1 .. Len(Ops(t)) + 1
  BY DEF TypeOK
<1>3. QED
  BY <1>1, <1>2 DEF Done

-----------------------------------------------------------------------------
(* What a step does to a thread that it brings forward.                     *)

Takes(t) ==
  /\ Acquires(Next_(t)) /\ Free(Next_(t).on)
  /\ holding' = holding \cup {<<Next_(t).on, t>>}
  /\ created' = created

Gives(t) ==
  /\ Releases(Next_(t))
  /\ holding' = {h \in holding : h[1] # Next_(t).on}
  /\ created' = created

Passes(t) ==
  /\ ~Acquires(Next_(t)) /\ ~Releases(Next_(t)) /\ Next_(t).op # "barrier"
  /\ holding' = holding
  /\ Next_(t).op = "begin" => created
  /\ IF t = Main /\ Next_(t).op = "create" THEN created' = TRUE ELSE created' = created
  /\ t = Main /\ Next_(t).op = "join" => \A u \in Workers : Done(u)

Forward(t) ==
  /\ t \in Threads /\ ~Done(t) /\ Advance({t})
  /\ Takes(t) \/ Gives(t) \/ Passes(t)

LEMMA EveryStep ==
  ASSUME TypeOK, [Next]_vars
  PROVE  /\ UNCHANGED <<prog, code>>
         /\ \/ \E t \in Threads : Forward(t)
            \/ Barrier /\ UNCHANGED <<holding, created>>
            \/ UNCHANGED <<pc, holding, created>>
<1> USE DEF At
<1>1. ASSUME NEW t \in Threads, DoWork(t)
      PROVE  UNCHANGED <<prog, code>> /\ Forward(t)
  BY <1>1 DEF DoWork, Forward, Passes, Acquires, Releases
<1>2. ASSUME NEW t \in Threads, Lock(t)
      PROVE  UNCHANGED <<prog, code>> /\ Forward(t)
  BY <1>2 DEF Lock, Forward, Takes, Acquires
<1>3. ASSUME NEW t \in Threads, Unlock(t)
      PROVE  UNCHANGED <<prog, code>> /\ Forward(t)
  BY <1>3 DEF Unlock, Forward, Gives, Releases
<1>4. ASSUME NEW t \in Threads, Begin(t)
      PROVE  UNCHANGED <<prog, code>> /\ Forward(t)
  BY <1>4 DEF Begin, Forward, Passes, Acquires, Releases
<1>5. ASSUME NEW t \in Threads, SetPause(t)
      PROVE  UNCHANGED <<prog, code>> /\ Forward(t)
  BY <1>5 DEF SetPause, Forward, Passes, Acquires, Releases
<1>6. ASSUME NEW t \in Threads, WaitPause(t)
      PROVE  UNCHANGED <<prog, code>> /\ Forward(t)
  BY <1>6 DEF WaitPause, Forward, Takes, Acquires
<1>7. ASSUME NEW t \in Threads, Sleep(t)
      PROVE  UNCHANGED <<prog, code>> /\ UNCHANGED <<pc, holding, created>>
  BY <1>7 DEF Sleep
<1>8. ASSUME NEW t \in Threads, Resume(t)
      PROVE  UNCHANGED <<prog, code>> /\ Forward(t)
  BY <1>8 DEF Resume, Forward, Takes, Acquires, TypeOK
<1>9. ASSUME NEW t \in Threads, ClearPause(t)
      PROVE  UNCHANGED <<prog, code>> /\ Forward(t)
  BY <1>9 DEF ClearPause, Forward, Gives, Releases
<1>10. CASE Barrier
  BY <1>10 DEF Barrier
<1>11. CASE Create
  <2>1. Main \in Threads
    BY ThreadsAreNumbered
  <2>2. Forward(Main)
    BY <1>11, <2>1 DEF Create, Forward, Passes, Acquires, Releases
  <2>3. QED
    BY <1>11, <2>1, <2>2 DEF Create
<1>12. CASE WaitForEnd
  <2>1. Main \in Threads
    BY ThreadsAreNumbered
  <2>2. Forward(Main)
    BY <1>12, <2>1 DEF WaitForEnd, Forward, Passes, Acquires, Releases
  <2>3. QED
    BY <1>12, <2>1, <2>2 DEF WaitForEnd
<1>13. CASE Finished \/ UNCHANGED vars
  BY <1>13 DEF Finished, vars
<1>14. QED
  BY <1>1, <1>2, <1>3, <1>4, <1>5, <1>6, <1>7, <1>8, <1>9, <1>10, <1>11, <1>12, <1>13 DEF Next, Step

\* Who goes forward and who stays.
LEMMA ForwardMoves ==
  ASSUME TypeOK, UNCHANGED <<prog, code>>, NEW t, Forward(t)
  PROVE  /\ pc'[t] = pc[t] + 1
         /\ \A u \in Threads \ {t} : pc'[u] = pc[u]
         /\ Threads' = Threads /\ Main' = Main /\ Workers' = Workers
         /\ \A u : Ops(u)' = Ops(u)
         /\ pc[t] \in Nat \ {0} /\ pc[t] \in DOMAIN Ops(t) /\ Next_(t) = Ops(t)[pc[t]]
<1>1. pc[t] \in Nat \ {0} /\ pc[t] \in DOMAIN Ops(t)
  BY WhereAThreadIs DEF Forward
<1>2. QED
  BY <1>1 DEF Forward, Advance, Threads, Main, Workers, Ops, Next_

-----------------------------------------------------------------------------
(* The initial states, and each part of the invariant over a step.          *)

LEMMA InitType == ASSUME Init PROVE TypeOK
<1>1. ASSUME NEW t \in Threads
      PROVE  pc[t] \in 1 .. Len(Ops(t)) + 1
  <2>1. Ops(t) \in Seq({Ops(t)[i] : i \in DOMAIN Ops(t)})
    BY ThreadsAssumption DEF ThreadsAssumption, Init, Threads, Ops
  <2>2. Len(Ops(t)) \in Nat
    BY <2>1
  <2>3. pc[t] = 1
    BY DEF Init, Threads
  <2>4. QED
    BY <2>2, <2>3
<1>2. QED
  BY <1>1 DEF Init, TypeOK

LEMMA InitInv == ASSUME Init PROVE IInv
<1>1. TypeOK
  BY InitType
<1>2. \A t \in Threads : pc[t] = 1
  BY DEF Init, Threads
<1>3. Main \in Threads /\ Workers \subseteq Threads
  BY <1>1, ThreadsAreNumbered
<1>4. MutexInv
  BY <1>2, NothingKept DEF Init, MutexInv
<1>5. OrderInv
  BY <1>2, <1>3, PhaseCounts DEF Init, OrderInv
<1>6. QED
  BY <1>1, <1>4, <1>5 DEF IInv

LEMMA TypeStep == ASSUME IInv, [Next]_vars PROVE TypeOK'
<1>0. TypeOK
  BY DEF IInv
<1>1. UNCHANGED <<prog, code>>
  BY <1>0, EveryStep
<1>2. Threads' = Threads /\ \A t : Ops(t)' = Ops(t)
  BY <1>1 DEF Threads, Ops
<1>3. \A t \in Threads : pc'[t] \in 1 .. Len(Ops(t)) + 1
  <2>1. CASE \E t \in Threads : Forward(t)
    <3>1. PICK t \in Threads : Forward(t)
      BY <2>1
    <3>2. pc[t] \in DOMAIN Ops(t) /\ Len(Ops(t)) \in Nat /\ DOMAIN Ops(t) = 1 .. Len(Ops(t))
      BY <1>0, <1>1, <3>1, ForwardMoves, CodeIsWellLocked
    <3>3. pc'[t] = pc[t] + 1 /\ \A u \in Threads \ {t} : pc'[u] = pc[u]
      BY <1>0, <1>1, <3>1, ForwardMoves
    <3>4. QED
      BY <1>0, <3>2, <3>3 DEF TypeOK
  <2>2. CASE Barrier
    <3>1. ASSUME NEW t \in Threads PROVE pc'[t] \in 1 .. Len(Ops(t)) + 1
      <4>1. Len(Ops(t)) \in Nat /\ pc[t] \in 1 .. Len(Ops(t)) + 1
        BY <1>0, CodeIsWellLocked DEF TypeOK
      <4>2. CASE t \in Workers
        <5>1. pc'[t] = pc[t] + 1 /\ ~(pc[t] > Len(Ops(t)))
          BY <2>2, <4>2 DEF Barrier, Advance, At, Done
        <5>2. QED
          BY <4>1, <5>1
      <4>3. CASE t \notin Workers
        BY <2>2, <4>1, <4>3 DEF Barrier, Advance
      <4>4. QED
        BY <4>2, <4>3
    <3>2. QED
      BY <3>1
  <2>3. CASE UNCHANGED <<pc, holding, created>>
    BY <1>0, <2>3 DEF TypeOK
  <2>4. QED
    BY <1>0, <2>1, <2>2, <2>3, EveryStep
<1>4. \A h \in holding' : h = <<h[1], h[2]>> /\ h[2] \in Threads
  <2>1. \A h \in holding : h = <<h[1], h[2]>> /\ h[2] \in Threads
    BY <1>0 DEF TypeOK
  <2>2. ASSUME NEW t \in Threads, Forward(t), NEW h \in holding'
        PROVE  h \in holding \/ \E m : h = <<m, t>>
    BY <2>2 DEF Forward, Takes, Gives, Passes
  <2>3. ASSUME NEW t \in Threads, NEW m PROVE <<m, t>> = <<(<<m, t>>)[1], (<<m, t>>)[2]>> /\ (<<m, t>>)[2] \in Threads
    OBVIOUS
  <2>4. CASE \E t \in Threads : Forward(t)
    BY <2>1, <2>2, <2>3, <2>4
  <2>5. CASE holding' = holding
    BY <2>1, <2>5
  <2>6. QED
    BY <1>0, <2>4, <2>5, EveryStep
<1>5. created' \in BOOLEAN
  BY <1>0, EveryStep DEF TypeOK, Forward, Takes, Gives, Passes
<1>6. /\ asleep' \cap woken' = {}
      /\ \A t \in asleep' \cup woken' : t \in Threads /\ At(t, "waitpause")'
  <2> DEFINE Waits(t) == t \in Threads /\ ~(pc[t] > Len(Ops(t))) /\ Ops(t)[pc[t]].op = "waitpause"
  <2>1. asleep \cap woken = {} /\ \A t \in asleep \cup woken : Waits(t)
    BY <1>0 DEF TypeOK, At, Done, Next_
  <2>2. SUFFICES /\ asleep' \cap woken' = {}
                 /\ \A t \in asleep' \cup woken' : Waits(t) /\ pc'[t] = pc[t]
    BY <1>2 DEF At, Done, Next_
  <2> USE <2>1 DEF At, Done, Next_, Advance
  <2>3. ASSUME NEW t \in Threads, DoWork(t) \/ Lock(t) \/ Unlock(t) \/ Begin(t) \/ ClearPause(t)
        PROVE  /\ asleep' \cap woken' = {}
               /\ \A u \in asleep' \cup woken' : Waits(u) /\ pc'[u] = pc[u]
    BY <2>3 DEF DoWork, Lock, Unlock, Begin, ClearPause
  <2>4. ASSUME NEW t \in Threads, SetPause(t)
        PROVE  /\ asleep' \cap woken' = {}
               /\ \A u \in asleep' \cup woken' : Waits(u) /\ pc'[u] = pc[u]
    BY <2>4 DEF SetPause
  <2>5. ASSUME NEW t \in Threads, WaitPause(t) \/ Sleep(t) \/ Resume(t)
        PROVE  /\ asleep' \cap woken' = {}
               /\ \A u \in asleep' \cup woken' : Waits(u) /\ pc'[u] = pc[u]
    BY <2>5 DEF WaitPause, Sleep, Resume
  <2>6. CASE Barrier \/ Create \/ WaitForEnd
    BY <2>6 DEF Barrier, Create, WaitForEnd
  <2>7. CASE Finished \/ UNCHANGED vars
    BY <2>7 DEF Finished, vars
  <2>8. QED
    BY <2>3, <2>4, <2>5, <2>6, <2>7 DEF Next, Step
<1>7. prog' \in Programs /\ code' = ThreadsOf(prog')
  BY <1>0, <1>1 DEF TypeOK
<1>8. QED
  BY <1>2, <1>3, <1>4, <1>5, <1>6, <1>7 DEF TypeOK

\* A thread that goes forward is the only one whose mutexes change.
LEMMA MutexForward ==
  ASSUME TypeOK, MutexInv, UNCHANGED <<prog, code>>, NEW t, Forward(t)
  PROVE  MutexInv'
<1> DEFINE m    == Next_(t).on
           K(u) == Kept(Ops(u), pc[u])
<1>1. /\ pc'[t] = pc[t] + 1
      /\ \A u \in Threads \ {t} : pc'[u] = pc[u]
      /\ Threads' = Threads
      /\ \A u : Ops(u)' = Ops(u)
      /\ pc[t] \in Nat \ {0} /\ pc[t] \in DOMAIN Ops(t) /\ Next_(t) = Ops(t)[pc[t]]
      /\ t \in Threads
  BY ForwardMoves DEF Forward
<1>2. \A u \in Threads \ {t} : Kept(Ops(u)', pc'[u]) = K(u)
  BY <1>1
<1>3. /\ \A h \in holding : h = <<h[1], h[2]>> /\ h[2] \in Threads /\ h[1] \in K(h[2])
      /\ \A u \in Threads : \A n \in K(u) : <<n, u>> \in holding
      /\ \A g, h \in holding : g[1] = h[1] => g = h
  BY DEF TypeOK, MutexInv
<1>4. CASE Takes(t)
  <2>1. Kept(Ops(t)', pc'[t]) = K(t) \cup {m}
    BY <1>1, <1>4, KeptAcquire DEF Takes
  <2>2. holding' = holding \cup {<<m, t>>} /\ \A h \in holding : h[1] # m
    BY <1>4 DEF Takes, Free
  <2> HIDE DEF m, K
  <2>3. \A h \in holding' : h[1] \in Kept(Ops(h[2])', pc'[h[2]])
    BY <1>1, <1>2, <1>3, <2>1, <2>2
  <2>4. \A u \in Threads : \A n \in Kept(Ops(u)', pc'[u]) : <<n, u>> \in holding'
    BY <1>1, <1>2, <1>3, <2>1, <2>2
  <2>5. \A g, h \in holding' : g[1] = h[1] => g = h
    BY <1>3, <2>2
  <2>6. QED
    BY <1>1, <2>3, <2>4, <2>5 DEF MutexInv
<1>5. CASE Gives(t)
  <2>1. Kept(Ops(t)', pc'[t]) = K(t) \ {m}
    BY <1>1, <1>5, KeptRelease DEF Gives
  <2>2. holding' = {h \in holding : h[1] # m}
    BY <1>5 DEF Gives
  <2>3. m \in K(t)
    BY <1>1, <1>5, CodeIsWellLocked DEF Gives, WellLocked
  <2> HIDE DEF m, K
  <2>4. \A h \in holding' : h[1] \in Kept(Ops(h[2])', pc'[h[2]])
    BY <1>1, <1>2, <1>3, <2>1, <2>2
  <2>5. <<m, t>> \in holding
    BY <1>1, <1>3, <2>3
  <2>6. \A u \in Threads : \A n \in Kept(Ops(u)', pc'[u]) : <<n, u>> \in holding'
    <3>1. ASSUME NEW u \in Threads, NEW n \in Kept(Ops(u)', pc'[u])
          PROVE  <<n, u>> \in holding'
      <4>1. n \in K(u) /\ <<n, u>> \in holding
        BY <1>1, <1>2, <1>3, <2>1, <3>1
      <4>2. n # m
        <5>1. CASE u = t
          BY <2>1, <3>1, <5>1
        <5>2. CASE u # t
          <6>1. (<<n, u>>)[1] = n /\ (<<m, t>>)[1] = m /\ (<<n, u>>)[2] = u /\ (<<m, t>>)[2] = t
            OBVIOUS
          <6>2. n = m => <<n, u>> = <<m, t>>
            BY <1>3, <2>5, <4>1, <6>1
          <6>3. QED
            BY <5>2, <6>1, <6>2
        <5>3. QED
          BY <5>1, <5>2
      <4>3. QED
        BY <2>2, <4>1, <4>2
    <3>2. QED
      BY <3>1
  <2>7. \A g, h \in holding' : g[1] = h[1] => g = h
    BY <1>3, <2>2
  <2>8. QED
    BY <1>1, <2>4, <2>6, <2>7 DEF MutexInv
<1>6. CASE Passes(t)
  <2>1. Kept(Ops(t)', pc'[t]) = K(t)
    BY <1>1, <1>6, KeptSame DEF Passes
  <2>2. holding' = holding
    BY <1>6 DEF Passes
  <2> HIDE DEF K
  <2>3. \A u \in Threads : Kept(Ops(u)', pc'[u]) = K(u)
    BY <1>2, <2>1
  <2>4. QED
    BY <1>1, <1>3, <2>2, <2>3 DEF MutexInv
<1>7. QED
  BY <1>4, <1>5, <1>6 DEF Forward

LEMMA MutexStep == ASSUME IInv, [Next]_vars PROVE MutexInv'
<1>1. TypeOK /\ MutexInv
  BY DEF IInv
<1>2. UNCHANGED <<prog, code>>
  BY <1>1, EveryStep
<1>3. Threads' = Threads /\ \A t : Ops(t)' = Ops(t)
  BY <1>2 DEF Threads, Ops
<1>4. CASE \E t \in Threads : Forward(t)
  BY <1>1, <1>2, <1>4, MutexForward
<1>5. CASE Barrier /\ UNCHANGED <<holding, created>>
  <2>1. ASSUME NEW t \in Threads
        PROVE  Kept(Ops(t), pc'[t]) = Kept(Ops(t), pc[t])
    <3>1. pc[t] \in Nat \ {0}
      BY <1>1, WhereAThreadIs
    <3>2. CASE t \in Workers
      <4>1. pc'[t] = pc[t] + 1 /\ Ops(t)[pc[t]].op = "barrier"
        BY <1>5, <3>2 DEF Barrier, Advance, At, Next_
      <4>2. ~Acquires(Ops(t)[pc[t]]) /\ ~Releases(Ops(t)[pc[t]])
        BY <4>1 DEF Acquires, Releases
      <4>3. QED
        BY <3>1, <4>1, <4>2, KeptSame
    <3>3. CASE t \notin Workers
      BY <1>5, <3>3 DEF Barrier, Advance
    <3>4. QED
      BY <3>2, <3>3
  <2>2. \A h \in holding : h[2] \in Threads
    BY <1>1 DEF TypeOK
  <2>3. QED
    BY <1>1, <1>3, <1>5, <2>1, <2>2 DEF MutexInv
<1>6. CASE UNCHANGED <<pc, holding, created>>
  BY <1>1, <1>3, <1>6 DEF MutexInv
<1>7. QED
  BY <1>1, <1>4, <1>5, <1>6, EveryStep

LEMMA OrderForward ==
  ASSUME TypeOK, OrderInv, UNCHANGED <<prog, code>>, NEW t, Forward(t)
  PROVE  OrderInv'
<1>1. /\ pc'[t] = pc[t] + 1
      /\ \A u \in Threads \ {t} : pc'[u] = pc[u]
      /\ Main' = Main /\ Workers' = Workers
      /\ \A u : Ops(u)' = Ops(u)
      /\ pc[t] \in Nat \ {0} /\ Next_(t) = Ops(t)[pc[t]]
      /\ t \in Threads
  BY ForwardMoves DEF Forward
<1>2. Main \in Threads /\ Workers \subseteq Threads /\ pc[Main] \in Nat \ {0}
  BY ThreadsAreNumbered, WhereAThreadIs
<1>3. DOMAIN Ops(Main) \subseteq Nat \ {0}
  BY <1>2, CodeIsWellLocked
<1>4. Next_(t).op # "barrier"
  BY DEF Forward, Takes, Gives, Passes, Acquires, Releases
<1>5. \A u \in Threads : Phase(Ops(u), pc'[u]) = Phase(Ops(u), pc[u])
  <2>1. Phase(Ops(t), pc'[t]) = Phase(Ops(t), pc[t])
    BY <1>1, <1>4, PhaseCounts
  <2>2. QED
    BY <1>1, <2>1
<1>6. ASSUME created', NEW l \in DOMAIN Ops(Main), Starts(Ops(Main), l)
      PROVE  l < pc'[Main]
  <2>1. pc'[Main] \in {pc[Main], pc[Main] + 1} /\ l \in Nat
    BY <1>1, <1>2, <1>3, <1>6
  <2>2. CASE created
    <3>1. l < pc[Main]
      BY <1>6, <2>2 DEF OrderInv
    <3>2. QED
      BY <1>2, <2>1, <3>1
  <2>3. CASE ~created
    <3>1. t = Main /\ Next_(Main).op = "create"
      BY <1>6, <2>3 DEF Forward, Takes, Gives, Passes
    <3>2. Ops(Main)[pc[Main]].op = "create" /\ pc'[Main] = pc[Main] + 1
      BY <1>1, <3>1
    <3>3. pc[Main] \notin 1 .. l - 1
      BY <1>6, <3>2 DEF Starts
    <3>4. QED
      BY <1>2, <2>1, <3>2, <3>3
  <2>4. QED
    BY <2>2, <2>3
<1>7. QED
  BY <1>1, <1>2, <1>5, <1>6 DEF OrderInv

LEMMA OrderStep == ASSUME IInv, [Next]_vars PROVE OrderInv'
<1>1. TypeOK /\ OrderInv
  BY DEF IInv
<1>2. UNCHANGED <<prog, code>>
  BY <1>1, EveryStep
<1>3. Threads' = Threads /\ Main' = Main /\ Workers' = Workers /\ \A t : Ops(t)' = Ops(t)
  BY <1>2 DEF Threads, Main, Workers, Ops
<1>4. Main \in Threads /\ Workers \subseteq Threads /\ Main \notin Workers
  BY <1>1, ThreadsAreNumbered DEF Workers
<1>5. CASE \E t \in Threads : Forward(t)
  BY <1>1, <1>2, <1>5, OrderForward
<1>6. CASE Barrier /\ UNCHANGED <<holding, created>>
  <2>1. ASSUME NEW t \in Workers
        PROVE  Phase(Ops(t), pc'[t]) = Phase(Ops(t), pc[t]) + 1
    <3>1. pc'[t] = pc[t] + 1 /\ pc[t] \in Nat \ {0} /\ Ops(t)[pc[t]].op = "barrier"
      BY <1>1, <1>4, <1>6, WhereAThreadIs DEF Barrier, Advance, At, Next_
    <3>2. QED
      BY <3>1, PhaseCounts
  <2>2. pc'[Main] = pc[Main]
    BY <1>4, <1>6 DEF Barrier, Advance
  <2>3. QED
    BY <1>1, <1>3, <1>6, <2>1, <2>2 DEF OrderInv
<1>7. CASE UNCHANGED <<pc, holding, created>>
  BY <1>1, <1>3, <1>7 DEF OrderInv
<1>8. QED
  BY <1>1, <1>5, <1>6, <1>7, EveryStep

\* The invariant holds in every state that the threads reach.
THEOREM Invariance == Spec => []IInv
<1>1. Init => IInv
  BY InitInv
<1>2. IInv /\ [Next]_vars => IInv'
  BY TypeStep, MutexStep, OrderStep DEF IInv
<1>3. QED
  BY <1>1, <1>2, PTL DEF Spec

-----------------------------------------------------------------------------
(* Mutexes.                                                                 *)

\* Threads, program counters, sleepers and owners are what they should be.
THEOREM TypeCorrect == Spec => []TypeOK
<1>1. IInv => TypeOK
  BY DEF IInv
<1>2. QED
  BY <1>1, Invariance, PTL

\* LOCK, UNLOCK, SETPAUSE, WAITPAUSE and CLEARPAUSE keep mutual exclusion, and no
\* thread waits for all others, or ends, with a mutex, for every set of programs
\* that release what they take; a sleeper has given up its mutex and has it again
\* when it goes on.
THEOREM MutualExclusion == Spec => []MutexesAreInOrder
<1>1. ASSUME IInv PROVE MutexesAreInOrder
  <2>1. TypeOK /\ MutexInv
    BY <1>1 DEF IInv
  <2>2. \A g, h \in holding : g[1] = h[1] => g = h
    BY <2>1 DEF MutexInv
  <2>3. ASSUME NEW t \in Threads, At(t, "unlock") \/ At(t, "clearpause")
        PROVE  <<Next_(t).on, t>> \in holding
    <3>1. pc[t] \in DOMAIN Ops(t)
      BY <2>1, <2>3, WhereAThreadIs DEF At
    <3>2. Releases(Ops(t)[pc[t]])
      BY <2>3 DEF At, Next_, Releases
    <3>3. Next_(t).on \in Kept(Ops(t), pc[t])
      BY <2>1, <3>1, <3>2, CodeIsWellLocked DEF WellLocked, Next_
    <3>4. QED
      BY <2>1, <3>3 DEF MutexInv
  <2>4. ASSUME NEW t \in Threads, Done(t) \/ At(t, "barrier") \/ At(t, "join"), NEW h \in holding
        PROVE  h[2] # t
    <3>1. CASE Done(t)
      <4>1. pc[t] = Len(Ops(t)) + 1
        BY <2>1, <3>1, WhereAThreadIs
      <4>2. Kept(Ops(t), pc[t]) = {}
        BY <2>1, <4>1, CodeIsWellLocked DEF WellLocked
      <4>3. QED
        BY <2>1, <4>2 DEF MutexInv
    <3>2. CASE At(t, "barrier") \/ At(t, "join")
      <4>1. pc[t] \in DOMAIN Ops(t) /\ Ops(t)[pc[t]].op \in {"barrier", "join"}
        BY <2>1, <3>2, WhereAThreadIs DEF At, Next_
      <4>2. Kept(Ops(t), pc[t]) = {}
        BY <2>1, <4>1, CodeIsWellLocked DEF WellLocked
      <4>3. QED
        BY <2>1, <4>2 DEF MutexInv
    <3>3. QED
      BY <2>4, <3>1, <3>2
  <2>5. QED
    BY <2>2, <2>3, <2>4 DEF MutexesAreInOrder
<1>2. QED
  BY <1>1, Invariance, PTL

-----------------------------------------------------------------------------
(* Order.  What a clock (StaticOrder) says of the text is so when threads   *)
(* run, whatever their interleaving.                                        *)

Is(t, k, kind, e) == k \in DOMAIN Ops(t) /\ Ops(t)[k].op = kind /\ Ops(t)[k].on = e
Awaits(t, e)      == \E k \in DOMAIN Ops(t) : Is(t, k, "waitpause", e)
Waits(t, e)       == Count(Ops(t), pc[t], "waitpause", e)
Clears(t, e)      == Count(Ops(t), pc[t], "clearpause", e)

\* What the clock puts behind a thread is over.
ClockInv(behind) == \A t, u \in Threads : \A k \in 1 .. pc[t] : behind[t][k][u] < pc[u]

\* Thread t waits for e, and operation l of s is a SETPAUSE of it, that comes after t
\* has cleared it n times.  It is over when t has waited once more than that, and
\* when t has cleared n times and finds the flag set or is woken.
TurnInv(behind, t, e, s, l) ==
  LET n == Turn(code, behind, s, l, t) IN
  /\ n < Waits(t, e) => l < pc[s]
  /\ n = Clears(t, e) /\ (e \in raised \/ (t \in woken /\ Next_(t).on = e)) => l < pc[s]

EventInv(behind) ==
  \A t \in Threads : \A e : Awaits(t, e) =>
    /\ Clears(t, e) <= Waits(t, e)
    /\ \A s \in Threads : \A l : Is(s, l, "setpause", e) => TurnInv(behind, t, e, s, l)

Placed(behind) == Clock(code, behind) /\ ClockInv(behind) /\ EventInv(behind)

\* How far a step brings a thread, and who passes a barrier.
LEMMA HowFar ==
  ASSUME IInv, [Next]_vars, NEW t \in Threads
  PROVE  /\ pc[t] \in Nat \ {0}
         /\ pc'[t] = pc[t] \/ (pc'[t] = pc[t] + 1 /\ pc[t] \in DOMAIN Ops(t))
         /\ pc'[t] # pc[t] => IF Next_(t).op = "barrier" THEN Barrier ELSE Forward(t)
<1>1. TypeOK
  BY DEF IInv
<1>2. UNCHANGED <<prog, code>>
  BY <1>1, EveryStep
<1>3. pc[t] \in Nat \ {0} /\ (~Done(t) => pc[t] \in DOMAIN Ops(t))
  BY <1>1, WhereAThreadIs
<1>4. ASSUME NEW u \in Threads, Forward(u)
      PROVE  /\ pc'[t] # pc[t] => t = u
             /\ Next_(u).op # "barrier"
             /\ t = u => pc'[t] = pc[t] + 1 /\ ~Done(t)
  BY <1>4 DEF Forward, Advance, Takes, Gives, Passes, Acquires, Releases
<1>5. CASE \E u \in Threads : Forward(u)
  BY <1>3, <1>4, <1>5
<1>6. CASE Barrier
  <2>1. t \in Workers => Next_(t).op = "barrier" /\ ~Done(t) /\ pc'[t] = pc[t] + 1
    BY <1>6 DEF Barrier, Advance, At
  <2>2. t \notin Workers => pc'[t] = pc[t]
    BY <1>6 DEF Barrier, Advance
  <2>3. QED
    BY <1>3, <1>6, <2>1, <2>2
<1>7. CASE UNCHANGED pc
  BY <1>3, <1>7
<1>8. QED
  BY <1>1, <1>5, <1>6, <1>7, EveryStep

\* What a step does to an event: it is set, or a thread goes on that waited for it,
\* or clears it; or the step is about something else.
LEMMA EventStep ==
  ASSUME IInv, [Next]_vars, NEW e
  PROVE  \/ \E s \in Threads : Is(s, pc[s], "setpause", e) /\ Advance({s})
         \/ \E t \in Threads :
              /\ Is(t, pc[t], "waitpause", e) /\ Advance({t})
              /\ e \in raised \/ t \in woken
         \/ \E t \in Threads : Is(t, pc[t], "clearpause", e) /\ Advance({t}) /\ e \notin raised' /\ woken' = woken
         \/ /\ \A t \in Threads : pc'[t] # pc[t] =>
                 ~Is(t, pc[t], "waitpause", e) /\ ~Is(t, pc[t], "clearpause", e)
            /\ e \in raised' => e \in raised
            /\ \A t \in woken' : Ops(t)[pc'[t]].on = e => t \in woken /\ Next_(t).on = e
<1> DEFINE other ==
      /\ \A t \in Threads : pc'[t] # pc[t] =>
           ~Is(t, pc[t], "waitpause", e) /\ ~Is(t, pc[t], "clearpause", e)
      /\ e \in raised' => e \in raised
      /\ \A t \in woken' : Ops(t)[pc'[t]].on = e => t \in woken /\ Next_(t).on = e
<1>1. TypeOK
  BY DEF IInv
<1>2. \A t \in asleep \cup woken : t \in Threads /\ Next_(t).op = "waitpause"
  BY <1>1 DEF TypeOK, At
<1>3. \A t \in Threads : ~Done(t) => pc[t] \in DOMAIN Ops(t)
  BY <1>1, WhereAThreadIs
<1> USE <1>2, <1>3 DEF At, Next_, Advance, Is
<1>4. ASSUME NEW t \in Threads, DoWork(t) \/ Lock(t) \/ Unlock(t) \/ Begin(t)
      PROVE  other
  BY <1>4 DEF DoWork, Lock, Unlock, Begin
<1>5. ASSUME NEW s \in Threads, SetPause(s)
      PROVE  other \/ (Is(s, pc[s], "setpause", e) /\ Advance({s}))
  BY <1>5 DEF SetPause
<1>6. ASSUME NEW t \in Threads, WaitPause(t)
      PROVE  other \/ (Is(t, pc[t], "waitpause", e) /\ Advance({t}) /\ e \in raised)
  BY <1>6 DEF WaitPause
<1>7. ASSUME NEW t \in Threads, Sleep(t)
      PROVE  other
  BY <1>7 DEF Sleep
<1>8. ASSUME NEW t \in Threads, Resume(t)
      PROVE  other \/ (Is(t, pc[t], "waitpause", e) /\ Advance({t}) /\ t \in woken)
  <2>1. t \in woken /\ Next_(t).op = "waitpause" /\ ~Done(t)
    BY <1>1, <1>8 DEF Resume, TypeOK
  <2>2. QED
    BY <1>8, <2>1 DEF Resume
<1>9. ASSUME NEW t \in Threads, ClearPause(t)
      PROVE  \/ other
             \/ Is(t, pc[t], "clearpause", e) /\ Advance({t}) /\ e \notin raised' /\ woken' = woken
  BY <1>9 DEF ClearPause
<1>10. CASE Barrier
  BY <1>10 DEF Barrier
<1>11. CASE Create \/ WaitForEnd
  BY <1>11 DEF Create, WaitForEnd
<1>12. CASE Finished \/ UNCHANGED vars
  BY <1>12 DEF Finished, vars
<1> HIDE DEF other, At, Next_, Advance, Is
<1>13. QED
  <2>1. CASE \E t \in Threads : Step(t)
    <3>1. PICK t \in Threads : Step(t)
      BY <2>1
    <3>2. \/ other
          \/ Is(t, pc[t], "setpause", e) /\ Advance({t})
          \/ Is(t, pc[t], "waitpause", e) /\ Advance({t}) /\ (e \in raised \/ t \in woken)
          \/ Is(t, pc[t], "clearpause", e) /\ Advance({t}) /\ e \notin raised' /\ woken' = woken
      BY <3>1, <1>4, <1>5, <1>6, <1>7, <1>8, <1>9 DEF Step
    <3>3. QED
      BY <3>2 DEF other
  <2>2. CASE ~(\E t \in Threads : Step(t))
    <3>1. Barrier \/ (Create \/ WaitForEnd) \/ (Finished \/ UNCHANGED vars)
      BY <2>2 DEF Next
    <3>2. QED
      BY <3>1, <1>10, <1>11, <1>12
  <2>3. QED
    BY <2>1, <2>2

\* A thread that a clock is about, and one more operation of it.
LEMMA PlacedThread ==
  ASSUME IInv, NEW behind, Clock(code, behind), NEW t \in Threads, NEW k \in DOMAIN Ops(t)
  PROVE  /\ k \in Nat \ {0} /\ k <= Len(Ops(t)) /\ Len(Ops(t)) \in Nat
         /\ \A u \in Threads : behind[t][k][u] \in Nat /\ behind[t][k + 1][u] \in Nat
<1>1. Len(Ops(t)) \in Nat /\ DOMAIN Ops(t) = 1 .. Len(Ops(t))
  BY CodeIsWellLocked DEF IInv
<1>2. k \in 1 .. Len(Ops(t)) + 1 /\ k + 1 \in 1 .. Len(Ops(t)) + 1
  BY <1>1
<1>3. \A u \in Threads : \A i \in 1 .. Len(Ops(t)) + 1 : behind[t][i][u] \in Nat
  BY DEF Clock, Threads, Ops
<1>4. QED
  BY <1>1, <1>2, <1>3

\* The text about an event that a thread waits for.
LEMMA TurnsOfText ==
  ASSUME IInv, NEW behind, Clock(code, behind), NEW t \in Threads, NEW e, Awaits(t, e)
  PROVE  /\ \A u \in Threads : \A k :
              Is(u, k, "waitpause", e) \/ Is(u, k, "clearpause", e) => u = t
         /\ \A k : Is(t, k, "waitpause", e) =>
              Count(Ops(t), k, "clearpause", e) = Count(Ops(t), k, "waitpause", e)
         /\ \A k : Is(t, k, "clearpause", e) =>
              Count(Ops(t), k, "clearpause", e) < Count(Ops(t), k, "waitpause", e)
         /\ \A s, r \in Threads : \A l, m :
              /\ Is(s, l, "setpause", e) /\ Is(r, m, "setpause", e)
              /\ Turn(code, behind, s, l, t) = Turn(code, behind, r, m, t)
              => s = r /\ l = m
<1> DEFINE Sets == {r \in UNION {{s} \X DOMAIN code[s].code : s \in DOMAIN code} :
                      code[r[1]].code[r[2]].op = "setpause" /\ code[r[1]].code[r[2]].on = e}
<1>1. e \in {code[t].code[k].on : k \in {k \in DOMAIN code[t].code : code[t].code[k].op = "waitpause"}}
  BY DEF Awaits, Is, Ops
<1>2. /\ \A u \in DOMAIN code \ {t} : \A l \in DOMAIN code[u].code :
           code[u].code[l].op \in {"waitpause", "clearpause"} => code[u].code[l].on # e
      /\ \A k \in DOMAIN code[t].code : code[t].code[k].op = "waitpause" /\ code[t].code[k].on = e =>
           Count(code[t].code, k, "clearpause", e) = Count(code[t].code, k, "waitpause", e)
      /\ \A k \in DOMAIN code[t].code : code[t].code[k].op = "clearpause" /\ code[t].code[k].on = e =>
           Count(code[t].code, k, "clearpause", e) < Count(code[t].code, k, "waitpause", e)
      /\ \A q, r \in Sets :
           Turn(code, behind, q[1], q[2], t) = Turn(code, behind, r[1], r[2], t) => q = r
  BY <1>1 DEF Clock, EventsTakeTurns, Threads
<1>3. ASSUME NEW s \in Threads, NEW l, Is(s, l, "setpause", e)
      PROVE  <<s, l>> \in Sets
  BY <1>3 DEF Is, Ops, Threads
<1>4. ASSUME NEW s \in Threads, NEW l, Is(s, l, "setpause", e),
             NEW r \in Threads, NEW m, Is(r, m, "setpause", e),
             Turn(code, behind, s, l, t) = Turn(code, behind, r, m, t)
      PROVE  s = r /\ l = m
  <2>1. <<s, l>> \in Sets /\ <<r, m>> \in Sets
    BY <1>3, <1>4
  <2> HIDE DEF Sets
  <2>2. <<s, l>>[1] = s /\ <<s, l>>[2] = l /\ <<r, m>>[1] = r /\ <<r, m>>[2] = m
    OBVIOUS
  <2>3. <<s, l>> = <<r, m>>
    BY <1>2, <1>4, <2>1, <2>2
  <2>4. QED
    BY <2>2, <2>3
<1> HIDE DEF Sets
<1>5. QED
  BY <1>2, <1>4 DEF Is, Ops, Threads

\* How the counts of a thread change.
LEMMA CountsMove ==
  ASSUME IInv, [Next]_vars, NEW t \in Threads, NEW e
  PROVE  /\ Waits(t, e) \in Nat /\ Clears(t, e) \in Nat
         /\ Waits(t, e)' = Waits(t, e) +
              (IF pc'[t] # pc[t] /\ Is(t, pc[t], "waitpause", e) THEN 1 ELSE 0)
         /\ Clears(t, e)' = Clears(t, e) +
              (IF pc'[t] # pc[t] /\ Is(t, pc[t], "clearpause", e) THEN 1 ELSE 0)
<1>1. Ops(t)' = Ops(t)
  BY EveryStep DEF IInv, Ops
<1>2. pc[t] \in Nat \ {0} /\ (pc'[t] = pc[t] \/ (pc'[t] = pc[t] + 1 /\ pc[t] \in DOMAIN Ops(t)))
  BY HowFar
<1>3. /\ Waits(t, e) \in Nat /\ Clears(t, e) \in Nat
      /\ Count(Ops(t), pc[t] + 1, "waitpause", e) = Waits(t, e) +
           (IF Ops(t)[pc[t]].op = "waitpause" /\ Ops(t)[pc[t]].on = e THEN 1 ELSE 0)
      /\ Count(Ops(t), pc[t] + 1, "clearpause", e) = Clears(t, e) +
           (IF Ops(t)[pc[t]].op = "clearpause" /\ Ops(t)[pc[t]].on = e THEN 1 ELSE 0)
  <2>1. ASSUME NEW kind
        PROVE  /\ Count(Ops(t), pc[t], kind, e) \in Nat
               /\ Count(Ops(t), pc[t] + 1, kind, e) = Count(Ops(t), pc[t], kind, e) +
                    (IF Ops(t)[pc[t]].op = kind /\ Ops(t)[pc[t]].on = e THEN 1 ELSE 0)
    <3>1. ASSUME NEW ops, NEW k \in Nat \ {0}
          PROVE  /\ Count(ops, k, kind, e) \in Nat
                 /\ Count(ops, k + 1, kind, e) = Count(ops, k, kind, e) +
                      (IF ops[k].op = kind /\ ops[k].on = e THEN 1 ELSE 0)
      BY CountCounts
    <3>2. QED
      BY <1>2, <3>1
  <2>2. QED
    BY <2>1 DEF Waits, Clears
<1>4. /\ Waits(t, e)' = Count(Ops(t), pc'[t], "waitpause", e)
      /\ Clears(t, e)' = Count(Ops(t), pc'[t], "clearpause", e)
  BY <1>1 DEF Waits, Clears
<1>5. CASE pc'[t] = pc[t]
  BY <1>3, <1>4, <1>5 DEF Waits, Clears
<1>6. CASE pc'[t] = pc[t] + 1 /\ pc[t] \in DOMAIN Ops(t)
  <2>1. pc'[t] # pc[t]
    BY <1>2, <1>6
  <2>2. QED
    BY <1>3, <1>4, <1>6, <2>1 DEF Is
<1>7. QED
  BY <1>2, <1>5, <1>6

\* When an event is set, the thread that waits for it has cleared it as often as the
\* text says that comes before, and not more.
LEMMA SetInTurn ==
  ASSUME IInv, NEW behind, Placed(behind), NEW t \in Threads, NEW e, Awaits(t, e),
         NEW s \in Threads, Is(s, pc[s], "setpause", e)
  PROVE  Turn(code, behind, s, pc[s], t) = Clears(t, e)
<1> DEFINE n == Turn(code, behind, s, pc[s], t)
           b == behind[s][pc[s]][t]
<1>1. pc[s] \in Nat \ {0} /\ pc[t] \in Nat \ {0}
  BY WhereAThreadIs DEF IInv
<1>2. b \in Nat /\ b < pc[t]
  <2>1. b \in Nat
    BY PlacedThread DEF Placed, Is
  <2>2. pc[s] \in 1 .. pc[s]
    BY <1>1
  <2>3. QED
    BY <2>1, <2>2 DEF Placed, ClockInv
<1>3. n = Count(Ops(t), b + 1, "clearpause", e)
  BY DEF Turn, Is, Ops
<1> HIDE DEF b
<1>4. b + 1 \in Nat \ {0} /\ b + 1 <= pc[t]
  BY <1>1, <1>2
<1>5. n \in Nat /\ Clears(t, e) \in Nat /\ n <= Clears(t, e)
  BY <1>1, <1>3, <1>4, CountCounts DEF Clears
<1>6. Clears(t, e) <= Waits(t, e) /\ Waits(t, e) \in Nat
  BY <1>1, CountCounts DEF Placed, EventInv, Waits
<1>7. TurnInv(behind, t, e, s, pc[s])
  BY DEF Placed, EventInv
<1>8. ~(n < Waits(t, e))
  BY <1>1, <1>7 DEF TurnInv
<1> HIDE DEF n
<1>9. n = Clears(t, e)
  BY <1>5, <1>6, <1>8
<1>10. QED
  BY <1>9 DEF n

LEMMA TurnStep ==
  ASSUME IInv, [Next]_vars, NEW behind, Placed(behind), NEW t \in Threads, NEW e, Awaits(t, e)
  PROVE  /\ Clears(t, e)' <= Waits(t, e)'
         /\ \A s \in Threads : \A l : Is(s, l, "setpause", e) => TurnInv(behind, t, e, s, l)'
<1>1. UNCHANGED code /\ \A u : Ops(u)' = Ops(u)
  BY EveryStep DEF IInv, Ops
<1>2. /\ Waits(t, e) \in Nat /\ Clears(t, e) \in Nat
      /\ Waits(t, e)' = Waits(t, e) +
           (IF pc'[t] # pc[t] /\ Is(t, pc[t], "waitpause", e) THEN 1 ELSE 0)
      /\ Clears(t, e)' = Clears(t, e) +
           (IF pc'[t] # pc[t] /\ Is(t, pc[t], "clearpause", e) THEN 1 ELSE 0)
  BY CountsMove
<1>3. Clears(t, e) <= Waits(t, e)
  BY DEF Placed, EventInv
<1>4. \A u \in Threads : \A k : Is(u, k, "waitpause", e) \/ Is(u, k, "clearpause", e) => u = t
  BY TurnsOfText DEF Placed
<1>5. ASSUME NEW u, Is(u, pc[u], "waitpause", e) PROVE ~Is(u, pc[u], "clearpause", e)
  BY <1>5 DEF Is
<1>6. ASSUME Is(t, pc[t], "waitpause", e) PROVE Clears(t, e) = Waits(t, e)
  BY <1>6, TurnsOfText DEF Placed, Waits, Clears
<1>7. ASSUME Is(t, pc[t], "clearpause", e) PROVE Clears(t, e) < Waits(t, e)
  BY <1>7, TurnsOfText DEF Placed, Waits, Clears
<1>8. Clears(t, e)' <= Waits(t, e)'
  BY <1>2, <1>3, <1>7
<1>9. ASSUME NEW s \in Threads, NEW l, Is(s, l, "setpause", e)
      PROVE  TurnInv(behind, t, e, s, l)'
  <2> DEFINE n == Turn(code, behind, s, l, t)
             Woken == t \in woken /\ Next_(t).on = e
  <2>1. /\ n < Waits(t, e) => l < pc[s]
        /\ n = Clears(t, e) /\ (e \in raised \/ Woken) => l < pc[s]
    BY <1>9 DEF Placed, EventInv, TurnInv
  <2>2. l \in Nat /\ pc[s] \in Nat /\ n \in Nat
    <3>1. l \in Nat /\ behind[s][l][t] \in Nat
      BY <1>9, PlacedThread DEF Placed, Is
    <3>2. behind[s][l][t] + 1 \in Nat \ {0}
      BY <3>1
    <3>3. n \in Nat
      BY <3>2, CountCounts DEF Turn
    <3>4. QED
      BY <3>1, <3>3, HowFar
  <2>3. l < pc[s] => l < pc'[s]
    BY <2>2, HowFar
  <2>4. SUFFICES /\ n < Waits(t, e)' => l < pc'[s]
                 /\ n = Clears(t, e)' /\ (e \in raised' \/ (t \in woken' /\ Ops(t)[pc'[t]].on = e)) => l < pc'[s]
    BY <1>1 DEF TurnInv, Turn, Next_
  <2> HIDE DEF n
  <2>5. ASSUME NEW r \in Threads, Is(r, pc[r], "setpause", e), Advance({r})
        PROVE  /\ n < Waits(t, e)' => l < pc'[s]
               /\ n = Clears(t, e)' => l < pc'[s]
    <3>1. Turn(code, behind, r, pc[r], t) = Clears(t, e)
      BY <2>5, SetInTurn
    <3>2. /\ pc'[r] = pc[r] + 1
          /\ \A u \in Threads \ {r} : pc'[u] = pc[u]
      BY <2>5 DEF Advance
    <3>3. ~Is(r, pc[r], "waitpause", e) /\ ~Is(r, pc[r], "clearpause", e)
      BY <2>5 DEF Is
    <3>4. Waits(t, e)' = Waits(t, e) /\ Clears(t, e)' = Clears(t, e)
      BY <1>2, <3>2, <3>3
    <3>5. ASSUME n = Clears(t, e) PROVE l < pc'[s]
      <4>1. s = r /\ l = pc[r]
        BY <1>9, <2>5, <3>1, <3>5, TurnsOfText DEF Placed, n
      <4>2. QED
        BY <2>2, <3>2, <4>1
    <3>6. QED
      BY <2>1, <2>3, <3>4, <3>5
  <2>6. ASSUME NEW u \in Threads, Is(u, pc[u], "waitpause", e), Advance({u}), e \in raised \/ u \in woken
        PROVE  /\ n < Waits(t, e)' => l < pc'[s]
               /\ n = Clears(t, e)' => l < pc'[s]
    <3>1. u = t
      BY <1>4, <2>6
    <3>2. Clears(t, e) = Waits(t, e) /\ ~Is(t, pc[t], "clearpause", e)
      BY <1>5, <1>6, <2>6, <3>1
    <3>3. e \in raised \/ Woken
      BY <2>6, <3>1 DEF Is, Next_
    <3>4. n = Clears(t, e) => l < pc'[s]
      BY <2>1, <2>3, <3>3
    <3>5. Clears(t, e)' = Clears(t, e) /\ Waits(t, e)' <= Waits(t, e) + 1 /\ Waits(t, e)' \in Nat
      BY <1>2, <3>2
    <3>6. n < Waits(t, e)' => n < Waits(t, e) \/ n = Clears(t, e)
      BY <1>2, <2>2, <3>2, <3>5
    <3>7. QED
      BY <2>1, <2>3, <3>4, <3>5, <3>6
  <2>7. ASSUME NEW u \in Threads, Is(u, pc[u], "clearpause", e), e \notin raised', woken' = woken
        PROVE  /\ n < Waits(t, e)' => l < pc'[s]
               /\ ~(e \in raised' \/ t \in woken')
    <3>1. u = t /\ ~Is(t, pc[t], "waitpause", e)
      BY <1>4, <1>5, <2>7
    <3>2. Waits(t, e)' = Waits(t, e)
      BY <1>2, <3>1
    <3>3. t \notin woken
      BY <2>7, <3>1 DEF IInv, TypeOK, At, Next_, Is
    <3>4. QED
      BY <2>1, <2>3, <2>7, <3>2, <3>3
  <2>8. ASSUME /\ \A u \in Threads : pc'[u] # pc[u] =>
                    ~Is(u, pc[u], "waitpause", e) /\ ~Is(u, pc[u], "clearpause", e)
               /\ e \in raised' => e \in raised
               /\ \A u \in woken' : Ops(u)[pc'[u]].on = e => u \in woken /\ Next_(u).on = e
        PROVE  /\ n < Waits(t, e)' => l < pc'[s]
               /\ n = Clears(t, e)' /\ (e \in raised' \/ (t \in woken' /\ Ops(t)[pc'[t]].on = e)) => l < pc'[s]
    <3>1. Waits(t, e)' = Waits(t, e) /\ Clears(t, e)' = Clears(t, e)
      BY <1>2, <2>8
    <3>2. QED
      BY <2>1, <2>3, <2>8, <3>1
  <2> HIDE DEF Woken
  <2>9. QED
    BY <2>5, <2>6, <2>7, <2>8, EventStep
<1>10. QED
  BY <1>8, <1>9

\* What an operation follows is over when it is.
LEMMA WhatFollows ==
  ASSUME IInv, [Next]_vars, NEW behind, Placed(behind),
         NEW t \in Threads, pc'[t] # pc[t], NEW s \in Threads, NEW l \in DOMAIN Ops(s),
         Follows(code, behind, t, pc[t], s, l)
  PROVE  l < pc'[s]
<1> DEFINE op == Next_(t).op
           on == Next_(t).on
<1>1. TypeOK /\ OrderInv
  BY DEF IInv
<1>2. /\ l \in Nat \ {0} /\ l <= Len(Ops(s)) /\ Len(Ops(s)) \in Nat
      /\ pc[s] \in Nat \ {0} /\ pc'[s] \in {pc[s], pc[s] + 1}
      /\ pc[t] \in Nat \ {0} /\ pc[t] \in DOMAIN Ops(t)
  BY HowFar, PlacedThread DEF Placed
<1>3. \/ /\ op = "barrier" /\ Main \notin {s, t}
         /\ Ops(s)[l].op = "barrier" /\ Phase(Ops(s), l) = Phase(Ops(t), pc[t])
      \/ op = "begin" /\ s = Main /\ Starts(Ops(s), l)
      \/ op = "join" /\ t = Main /\ s # Main
      \/ /\ op = "waitpause" /\ Is(s, l, "setpause", on)
         /\ Turn(code, behind, s, l, t) = Clears(t, on)
  BY DEF Follows, Main, Threads, Ops, Next_, Is, Clears
<1>4. op # "barrier" => Forward(t)
  BY HowFar
<1>5. CASE /\ op = "barrier" /\ Main \notin {s, t}
           /\ Ops(s)[l].op = "barrier" /\ Phase(Ops(s), l) = Phase(Ops(t), pc[t])
  <2>1. s \in Workers /\ t \in Workers /\ Barrier
    BY <1>5, HowFar DEF Workers
  <2>2. pc'[s] = pc[s] + 1 /\ Ops(s)[pc[s]].op = "barrier"
    BY <2>1 DEF Barrier, Advance, At, Next_
  <2>3. Phase(Ops(s), pc[s]) = Phase(Ops(s), l)
    BY <1>1, <1>5, <2>1 DEF OrderInv
  <2>4. /\ Phase(Ops(s), pc[s]) \in Nat
        /\ Phase(Ops(s), pc[s] + 1) = Phase(Ops(s), pc[s]) + 1
    BY <1>2, <2>2, PhaseCounts
  <2>5. pc[s] + 1 <= l => Phase(Ops(s), pc[s] + 1) <= Phase(Ops(s), l)
    <3>1. pc[s] + 1 \in Nat \ {0}
      BY <1>2
    <3>2. QED
      BY <1>2, <3>1, PhaseCounts
  <2>6. QED
    BY <1>2, <2>2, <2>3, <2>4, <2>5
<1>6. CASE op = "begin" /\ s = Main /\ Starts(Ops(s), l)
  <2>1. created
    BY <1>4, <1>6 DEF Forward, Takes, Gives, Passes, Acquires, Releases
  <2>2. l < pc[s]
    BY <1>1, <1>6, <2>1 DEF OrderInv
  <2>3. QED
    BY <1>2, <2>2
<1>7. CASE op = "join" /\ t = Main /\ s # Main
  <2>1. Done(s)
    BY <1>4, <1>7 DEF Forward, Takes, Gives, Passes, Acquires, Releases, Workers
  <2>2. QED
    BY <1>2, <2>1 DEF Done
<1>8. CASE /\ op = "waitpause" /\ Is(s, l, "setpause", on)
           /\ Turn(code, behind, s, l, t) = Clears(t, on)
  <2>1. Is(t, pc[t], "waitpause", on)
    BY <1>2, <1>8 DEF Is, Next_
  <2>2. \A u \in Threads : Advance({u}) => u = t
    BY DEF Advance
  <2>3. ~Is(t, pc[t], "setpause", on) /\ ~Is(t, pc[t], "clearpause", on)
    BY <2>1 DEF Is
  <2> HIDE DEF on
  <2>4. on \in raised \/ t \in woken
    BY <2>1, <2>2, <2>3, EventStep
  <2>5. TurnInv(behind, t, on, s, l)
    BY <1>8, <2>1 DEF Placed, EventInv, Awaits, Is
  <2>6. l < pc[s]
    BY <1>8, <2>4, <2>5 DEF TurnInv, on
  <2>7. QED
    BY <1>2, <2>6
<1> HIDE DEF op, on
<1>9. QED
  BY <1>3, <1>5, <1>6, <1>7, <1>8

LEMMA ClockStep ==
  ASSUME IInv, [Next]_vars, NEW behind, Placed(behind)
  PROVE  ClockInv(behind)'
<1>1. Threads' = Threads /\ \A u : Ops(u)' = Ops(u)
  BY EveryStep DEF IInv, Threads, Ops
<1>2. \A u \in Threads : pc[u] \in Nat \ {0} /\ pc'[u] \in {pc[u], pc[u] + 1}
  BY HowFar
<1>3. SUFFICES ASSUME NEW t \in Threads, NEW u \in Threads, NEW k \in 1 .. pc'[t]
               PROVE  behind[t][k][u] < pc'[u]
  BY <1>1 DEF ClockInv
<1>4. ASSUME NEW s \in Threads, NEW l \in 1 .. pc[s], behind[s][l][u] \in Nat
      PROVE  behind[s][l][u] < pc'[u]
  <2>1. behind[s][l][u] < pc[u]
    BY <1>4 DEF Placed, ClockInv
  <2>2. QED
    BY <1>2, <1>4, <2>1
<1>5. \A s \in Threads : \A l \in 1 .. pc[s] : behind[s][l][u] \in Nat
  <2>1. ASSUME NEW s \in Threads, NEW l \in 1 .. pc[s] PROVE l \in 1 .. Len(Ops(s)) + 1
    <3>1. pc[s] \in 1 .. Len(Ops(s)) + 1 /\ Len(Ops(s)) \in Nat
      BY CodeIsWellLocked DEF IInv, TypeOK
    <3>2. QED
      BY <2>1, <3>1
  <2>2. QED
    BY <2>1 DEF Placed, Clock, Threads, Ops
<1>6. CASE k \in 1 .. pc[t]
  BY <1>4, <1>5, <1>6
<1>7. CASE k \notin 1 .. pc[t]
  <2>1. k = pc[t] + 1 /\ pc'[t] = pc[t] + 1 /\ pc[t] \in DOMAIN Ops(t)
    BY <1>2, <1>7, HowFar
  <2>2. pc'[t] # pc[t]
    BY <1>2, <2>1
  <2>3. \/ behind[t][k][u] <= IF u = t THEN pc[t] ELSE behind[t][pc[t]][u]
        \/ \E s \in Threads : \E l \in DOMAIN Ops(s) :
             /\ behind[t][k][u] <= IF u = s THEN l ELSE behind[s][l][u]
             /\ Follows(code, behind, t, pc[t], s, l)
    BY <2>1 DEF Placed, Clock, Vouched, Threads, Ops
  <2>4. behind[t][k][u] \in Nat
    BY <2>1, PlacedThread DEF Placed
  <2>5. ASSUME NEW s \in Threads, NEW l \in DOMAIN Ops(s), l < pc'[s],
               behind[t][k][u] <= IF u = s THEN l ELSE behind[s][l][u]
        PROVE  behind[t][k][u] < pc'[u]
    <3>1. l \in Nat \ {0} /\ l \in 1 .. pc[s]
      <4>1. l \in Nat \ {0}
        BY PlacedThread DEF Placed
      <4>2. QED
        BY <1>2, <2>5, <4>1
    <3>2. CASE u = s
      BY <1>2, <2>4, <2>5, <3>1, <3>2
    <3>3. CASE u # s
      <4>1. behind[s][l][u] \in Nat /\ behind[s][l][u] < pc'[u]
        BY <1>4, <1>5, <3>1
      <4>2. QED
        BY <1>2, <2>4, <2>5, <3>3, <4>1
    <3>4. QED
      BY <3>2, <3>3
  <2>6. pc[t] < pc'[t]
    BY <1>2, <2>1
  <2>7. QED
    BY <2>1, <2>2, <2>3, <2>5, <2>6, WhatFollows
<1>8. QED
  BY <1>6, <1>7

LEMMA PlacedInit == ASSUME Init, NEW behind, Clock(code, behind) PROVE Placed(behind)
<1>1. IInv /\ raised = {} /\ woken = {}
  BY InitInv DEF Init
<1>2. \A t \in Threads : pc[t] = 1
  BY DEF Init, Threads
<1>3. ClockInv(behind)
  <2>1. 1 .. 1 = {1}
    OBVIOUS
  <2>2. \A t, u \in Threads : behind[t][1][u] = 0
    BY DEF Clock, Vouched, Threads
  <2>3. QED
    BY <1>2, <2>1, <2>2 DEF ClockInv
<1>4. \A t \in Threads : \A e : Waits(t, e) = 0 /\ Clears(t, e) = 0
  <2>1. ASSUME NEW ops, NEW kind, NEW e PROVE Count(ops, 1, kind, e) = 0
    <3>1. 1 \in Nat \ {0}
      OBVIOUS
    <3>2. QED
      BY <3>1, CountCounts
  <2>2. QED
    BY <1>2, <2>1 DEF Waits, Clears
<1>5. ASSUME NEW t \in Threads, NEW e, NEW s \in Threads, NEW l, Is(s, l, "setpause", e)
      PROVE  TurnInv(behind, t, e, s, l)
  <2>1. behind[s][l][t] \in Nat
    BY <1>1, <1>5, PlacedThread DEF Is
  <2>2. behind[s][l][t] + 1 \in Nat \ {0}
    BY <2>1
  <2>3. Turn(code, behind, s, l, t) \in Nat
    BY <2>2, CountCounts DEF Turn
  <2>4. QED
    BY <1>1, <1>4, <2>3 DEF TurnInv
<1>6. QED
  BY <1>3, <1>4, <1>5 DEF Placed, EventInv

LEMMA PlacedStep == ASSUME IInv, [Next]_vars, NEW behind, Placed(behind) PROVE Placed(behind)'
<1>1. code' = code /\ Threads' = Threads /\ \A u : Ops(u)' = Ops(u)
  BY EveryStep DEF IInv, Threads, Ops
<1>2. \A t, k, kind, e : Is(t, k, kind, e)' <=> Is(t, k, kind, e)
  BY <1>1 DEF Is
<1>3. \A t, e : Awaits(t, e)' <=> Awaits(t, e)
  BY <1>1, <1>2 DEF Awaits
<1>4. EventInv(behind)'
  BY <1>1, <1>2, <1>3, TurnStep DEF EventInv
<1>5. Clock(code, behind)'
  BY <1>1 DEF Placed
<1>6. QED
  BY <1>4, <1>5, ClockStep DEF Placed

\* If a clock is right about the text of every program, and what it and the mutexes
\* allow to be done at the same time has known conflicts only, then no interleaving
\* of the threads has another data race: BARRIER, LOCK, the events, CREATE and
\* WAIT_FOR_END order what they should.
THEOREM OrderedProgramsHaveNoRace ==
  ASSUME \A p \in Programs : \E behind :
           Clock(ThreadsOf(p), behind) /\ OrderedBut(ThreadsOf(p), behind, KnownRaces(p))
  PROVE  Spec => []NoOtherRace
<1> DEFINE J == \E behind : Placed(behind) /\ OrderedBut(code, behind, KnownRaces(prog))
<1>1. Init => J
  <2>1. SUFFICES ASSUME Init PROVE J
    OBVIOUS
  <2>2. PICK behind : Clock(code, behind) /\ OrderedBut(code, behind, KnownRaces(prog))
    BY <2>1 DEF Init
  <2>3. QED
    BY <2>1, <2>2, PlacedInit
<1>2. IInv /\ J /\ [Next]_vars => J'
  <2>1. SUFFICES ASSUME IInv, J, [Next]_vars PROVE J'
    OBVIOUS
  <2>2. PICK behind : Placed(behind) /\ OrderedBut(code, behind, KnownRaces(prog))
    BY <2>1
  <2>3. code' = code /\ prog' = prog
    BY <2>1, EveryStep DEF IInv
  <2>4. Placed(behind)' /\ OrderedBut(code, behind, KnownRaces(prog))'
    BY <2>1, <2>2, <2>3, PlacedStep
  <2>5. QED
    BY <2>4
<1>3. IInv /\ J => NoOtherRace
  <2>1. SUFFICES ASSUME IInv, J, NEW t \in Threads, NEW u \in Threads, t < u, Doing(t), Doing(u)
                 PROVE  RaceOn(t, u) \subseteq KnownRaces(prog)
    BY DEF NoOtherRace
  <2>2. PICK behind : Placed(behind) /\ OrderedBut(code, behind, KnownRaces(prog))
    BY <2>1
  <2>3. \A v \in {t, u} : pc[v] \in Works(Ops(v)) /\ pc[v] \in Nat \ {0}
    BY <2>1, WhereAThreadIs DEF IInv, Doing, At, Next_, Works
  <2>4. ~(pc[u] <= behind[t][pc[t]][u]) /\ ~(pc[t] <= behind[u][pc[u]][t])
    <3>1. pc[t] \in 1 .. pc[t] /\ pc[u] \in 1 .. pc[u]
      BY <2>3
    <3>2. behind[t][pc[t]][u] < pc[u] /\ behind[u][pc[u]][t] < pc[t]
      BY <2>1, <2>2, <3>1 DEF Placed, ClockInv
    <3>3. behind[t][pc[t]][u] \in Nat /\ behind[u][pc[u]][t] \in Nat
      BY <2>1, <2>2, <2>3, PlacedThread DEF Placed, Works
    <3>4. QED
      BY <2>3, <3>2, <3>3
  <2>5. Kept(Ops(t), pc[t]) \cap Kept(Ops(u), pc[u]) = {}
    <3>1. SUFFICES ASSUME NEW m \in Kept(Ops(t), pc[t]), m \in Kept(Ops(u), pc[u])
                   PROVE  FALSE
      OBVIOUS
    <3>2. <<m, t>> \in holding /\ <<m, u>> \in holding
      BY <2>1, <3>1 DEF IInv, MutexInv
    <3>3. <<m, t>>[1] = <<m, u>>[1]
      OBVIOUS
    <3>4. <<m, t>> = <<m, u>>
      BY <2>1, <3>2, <3>3 DEF IInv, MutexInv
    <3>5. t = u /\ t \in Int
      BY <2>1, <3>4, ThreadsAreNumbered DEF IInv
    <3>6. QED
      BY <2>1, <3>5
  <2>6. Conflict(Ops(t)[pc[t]], Ops(u)[pc[u]]) \subseteq KnownRaces(prog)
    BY <2>1, <2>2, <2>3, <2>4, <2>5 DEF OrderedBut, Threads, Ops
  <2>7. QED
    BY <2>6 DEF RaceOn, Next_
<1> HIDE DEF J
<1>4. QED
  BY <1>1, <1>2, <1>3, Invariance, PTL DEF Spec

\* The same for values: if a clock that is right about the text puts a store behind
\* everything that is read, but for the known cases, no interleaving uses another
\* undefined value.
THEOREM WrittenProgramsReadNothingUndefined ==
  ASSUME \A p \in Programs : \E behind :
           Clock(ThreadsOf(p), behind) /\ WrittenBut(ThreadsOf(p), behind, KnownRaces(p) \cup KnownUndefined(p))
  PROVE  Spec => []ReadsAreDefined
<1> DEFINE J == \E behind : Placed(behind) /\ WrittenBut(code, behind, KnownRaces(prog) \cup KnownUndefined(prog))
<1>1. Init => J
  <2>1. SUFFICES ASSUME Init PROVE J
    OBVIOUS
  <2>2. PICK behind : Clock(code, behind) /\ WrittenBut(code, behind, KnownRaces(prog) \cup KnownUndefined(prog))
    BY <2>1 DEF Init
  <2>3. QED
    BY <2>1, <2>2, PlacedInit
<1>2. IInv /\ J /\ [Next]_vars => J'
  <2>1. SUFFICES ASSUME IInv, J, [Next]_vars PROVE J'
    OBVIOUS
  <2>2. PICK behind : Placed(behind) /\ WrittenBut(code, behind, KnownRaces(prog) \cup KnownUndefined(prog))
    BY <2>1
  <2>3. code' = code /\ prog' = prog
    BY <2>1, EveryStep DEF IInv
  <2>4. Placed(behind)' /\ WrittenBut(code, behind, KnownRaces(prog) \cup KnownUndefined(prog))'
    BY <2>1, <2>2, <2>3, PlacedStep
  <2>5. QED
    BY <2>4
<1>3. IInv /\ J => ReadsAreDefined
  <2>1. SUFFICES ASSUME IInv, J, NEW t \in Threads, Doing(t), Next_(t).on = "memory",
                        NEW x \in Next_(t).reads \ (KnownRaces(prog) \cup KnownUndefined(prog))
                 PROVE  \E u \in Threads : x \in DOMAIN code[u].stored /\ code[u].stored[x] < pc[u]
    BY DEF ReadsAreDefined
  <2>2. PICK behind : Placed(behind) /\ WrittenBut(code, behind, KnownRaces(prog) \cup KnownUndefined(prog))
    BY <2>1
  <2>3. pc[t] \in Works(code[t].code) /\ Next_(t) = code[t].code[pc[t]] /\ pc[t] \in Nat \ {0}
    BY <2>1, WhereAThreadIs DEF IInv, Doing, At, Works, Next_, Ops
  <2>4. PICK u \in Threads : x \in DOMAIN code[u].stored /\ code[u].stored[x] <= behind[t][pc[t]][u]
    BY <2>1, <2>2, <2>3 DEF WrittenBut, Threads
  <2>5. code[u].stored[x] \in DOMAIN Ops(u)
    BY <2>1, <2>4, ThreadsAssumption DEF ThreadsAssumption, IInv, TypeOK, Threads, Ops
  <2>6. code[u].stored[x] \in Nat \ {0}
    BY <2>1, <2>2, <2>5, PlacedThread DEF Placed
  <2>7. behind[t][pc[t]][u] < pc[u] /\ behind[t][pc[t]][u] \in Nat /\ pc[u] \in Nat
    <3>1. pc[t] \in 1 .. pc[t] /\ pc[t] \in DOMAIN Ops(t)
      BY <2>3 DEF Works, Ops
    <3>2. QED
      BY <2>1, <2>2, <3>1, PlacedThread, WhereAThreadIs DEF Placed, ClockInv, IInv
  <2>8. QED
    BY <2>4, <2>6, <2>7
<1> HIDE DEF J
<1>4. QED
  BY <1>1, <1>2, <1>3, Invariance, PTL DEF Spec

-----------------------------------------------------------------------------
(* Progress.  What the clock puts behind a wait is not only over, it has    *)
(* had its effect: the flag is set and nobody sleeps on it.                 *)

\* A SETPAUSE that is over, and comes after as many CLEARPAUSE as thread t has done,
\* has set the flag that t waits for, and t does not sleep on it.
SetInv(behind) ==
  \A t \in Threads : \A e : Awaits(t, e) =>
    \A s \in Threads : \A l :
      Is(s, l, "setpause", e) /\ l < pc[s] /\ Turn(code, behind, s, l, t) = Clears(t, e) =>
        e \in raised /\ ~(t \in asleep /\ Next_(t).on = e)

\* Main is past CREATE only after it.
StartInv == \A l \in DOMAIN Ops(Main) : l < pc[Main] /\ Ops(Main)[l].op = "create" => created

\* What a step does to those who sleep on an event: it is set, and they are awake; it
\* is cleared; or the step leaves the flag set, if it was, and then nobody more sleeps.
LEMMA SleepStep ==
  ASSUME IInv, [Next]_vars, NEW e
  PROVE  /\ \A u \in asleep' : u \in Threads /\ pc'[u] = pc[u]
         /\ \/ /\ e \in raised' /\ \A u \in asleep' : Next_(u).on # e
               /\ \A u \in Threads : pc'[u] # pc[u] => ~Is(u, pc[u], "clearpause", e)
            \/ \E t \in Threads : Is(t, pc[t], "clearpause", e) /\ Advance({t})
            \/ /\ e \in raised => e \in raised' /\ \A u \in asleep' : Next_(u).on = e => u \in asleep
               /\ \A u \in Threads : pc'[u] # pc[u] =>
                    ~Is(u, pc[u], "setpause", e) /\ ~Is(u, pc[u], "clearpause", e)
<1> DEFINE still == \A u \in asleep' : u \in Threads /\ pc'[u] = pc[u]
           set   == /\ e \in raised' /\ \A u \in asleep' : Next_(u).on # e
                    /\ \A u \in Threads : pc'[u] # pc[u] => ~Is(u, pc[u], "clearpause", e)
           cleared(t) == Is(t, pc[t], "clearpause", e) /\ Advance({t})
           other == /\ e \in raised => e \in raised' /\ \A u \in asleep' : Next_(u).on = e => u \in asleep
                    /\ \A u \in Threads : pc'[u] # pc[u] =>
                         ~Is(u, pc[u], "setpause", e) /\ ~Is(u, pc[u], "clearpause", e)
<1>1. TypeOK
  BY DEF IInv
<1>2. \A t \in asleep \cup woken : t \in Threads /\ Next_(t).op = "waitpause"
  BY <1>1 DEF TypeOK, At
<1>3. /\ \A t \in Threads : ~Done(t) => pc[t] \in DOMAIN Ops(t)
      /\ asleep \cap woken = {}
  BY <1>1, WhereAThreadIs DEF TypeOK
<1> USE <1>2, <1>3 DEF At, Next_, Advance, Is
<1>4. ASSUME NEW t \in Threads, DoWork(t) \/ Lock(t) \/ Unlock(t) \/ Begin(t)
      PROVE  still /\ other
  BY <1>4 DEF DoWork, Lock, Unlock, Begin
<1>5. ASSUME NEW t \in Threads, SetPause(t)
      PROVE  still /\ (other \/ set)
  BY <1>5 DEF SetPause
<1>6. ASSUME NEW t \in Threads, WaitPause(t)
      PROVE  still /\ other
  BY <1>6 DEF WaitPause
<1>7. ASSUME NEW t \in Threads, Sleep(t)
      PROVE  still /\ other
  BY <1>7 DEF Sleep
<1>8. ASSUME NEW t \in Threads, Resume(t)
      PROVE  still /\ other
  <2>1. t \in woken /\ Next_(t).op = "waitpause" /\ t \notin asleep
    BY <1>8 DEF Resume
  <2>2. QED
    BY <1>8, <2>1 DEF Resume
<1>9. ASSUME NEW t \in Threads, ClearPause(t)
      PROVE  still /\ (other \/ cleared(t))
  BY <1>9 DEF ClearPause
<1>10. ASSUME Barrier PROVE still /\ other
  BY <1>10 DEF Barrier
<1>11. ASSUME Create \/ WaitForEnd PROVE still /\ other
  BY <1>11 DEF Create, WaitForEnd
<1>12. ASSUME Finished \/ UNCHANGED vars PROVE still /\ other
  BY <1>12 DEF Finished, vars
<1> HIDE DEF still, set, other, At, Next_, Advance, Is
<1>13. still /\ (set \/ other \/ \E t \in Threads : cleared(t))
  <2>1. CASE \E t \in Threads : Step(t)
    <3>1. PICK t \in Threads : Step(t)
      BY <2>1
    <3> HIDE DEF cleared
    <3>2. still /\ (set \/ other \/ cleared(t))
      BY <3>1, <1>4, <1>5, <1>6, <1>7, <1>8, <1>9 DEF Step
    <3>3. QED
      BY <3>2
  <2>2. CASE ~(\E t \in Threads : Step(t))
    <3>1. Barrier \/ (Create \/ WaitForEnd) \/ (Finished \/ UNCHANGED vars)
      BY <2>2 DEF Next
    <3>2. QED
      BY <3>1, <1>10, <1>11, <1>12
  <2>3. QED
    BY <2>1, <2>2
<1>14. QED
  BY <1>13 DEF still, set, other

\* The turn of a SETPAUSE that a thread has come to is not ahead of the one that
\* waits for it.
LEMMA TurnNotAhead ==
  ASSUME IInv, NEW behind, Placed(behind), NEW t \in Threads, NEW e,
         NEW s \in Threads, NEW l, Is(s, l, "setpause", e), l <= pc[s]
  PROVE  Turn(code, behind, s, l, t) \in Nat /\ Turn(code, behind, s, l, t) <= Clears(t, e)
<1> DEFINE b == behind[s][l][t]
<1>1. pc[s] \in Nat \ {0} /\ pc[t] \in Nat \ {0} /\ l \in Nat \ {0} /\ b \in Nat
  BY WhereAThreadIs, PlacedThread DEF IInv, Placed, Is
<1>2. b < pc[t]
  <2>1. l \in 1 .. pc[s]
    BY <1>1
  <2>2. QED
    BY <2>1 DEF Placed, ClockInv
<1>3. Turn(code, behind, s, l, t) = Count(Ops(t), b + 1, "clearpause", e)
  BY DEF Turn, Is, Ops
<1> HIDE DEF b
<1>4. b + 1 \in Nat \ {0} /\ b + 1 <= pc[t]
  BY <1>1, <1>2
<1>5. QED
  BY <1>1, <1>3, <1>4, CountCounts DEF Clears

\* SetInv and StartInv over a step.
LEMMA SetStep ==
  ASSUME IInv, [Next]_vars, NEW behind, Placed(behind), SetInv(behind)
  PROVE  SetInv(behind)'
<1>1. code' = code /\ Threads' = Threads /\ \A u : Ops(u)' = Ops(u)
  BY EveryStep DEF IInv, Threads, Ops
<1>2. /\ \A t, k, kind, e : Is(t, k, kind, e)' <=> Is(t, k, kind, e)
      /\ \A t, e : Awaits(t, e)' <=> Awaits(t, e)
  BY <1>1 DEF Is, Awaits
<1>3. SUFFICES ASSUME NEW t \in Threads, NEW e, Awaits(t, e), NEW s \in Threads, NEW l,
                      Is(s, l, "setpause", e), l < pc'[s], Turn(code, behind, s, l, t) = Clears(t, e)'
               PROVE  e \in raised' /\ ~(t \in asleep' /\ Ops(t)[pc'[t]].on = e)
  BY <1>1, <1>2 DEF SetInv, Turn, Next_
<1>4. /\ l \in Nat \ {0} /\ pc[s] \in Nat \ {0}
      /\ pc'[s] \in {pc[s], pc[s] + 1}
  BY <1>3, HowFar, PlacedThread DEF Placed, Is
<1>5. l <= pc[s] /\ (l # pc[s] => l < pc[s])
  BY <1>3, <1>4
<1>6. /\ Clears(t, e) \in Nat
      /\ Clears(t, e)' = Clears(t, e) +
           (IF pc'[t] # pc[t] /\ Is(t, pc[t], "clearpause", e) THEN 1 ELSE 0)
  BY CountsMove
<1>7. t \in asleep' => Ops(t)[pc'[t]] = Next_(t)
  BY SleepStep DEF Next_
<1>8. CASE /\ e \in raised' /\ \A u \in asleep' : Next_(u).on # e
  BY <1>7, <1>8
<1>9. ASSUME NEW u \in Threads, Is(u, pc[u], "clearpause", e), Advance({u})
      PROVE  FALSE
  <2>1. u = t
    BY <1>3, <1>9, TurnsOfText DEF Placed
  <2>2. pc'[t] = pc[t] + 1 /\ pc[t] \in Nat
    BY <1>9, <2>1, HowFar DEF Advance
  <2>3. Clears(t, e)' = Clears(t, e) + 1
    BY <1>6, <1>9, <2>1, <2>2
  <2>4. Turn(code, behind, s, l, t) \in Nat /\ Turn(code, behind, s, l, t) <= Clears(t, e)
    BY <1>3, <1>5, TurnNotAhead
  <2>5. QED
    BY <1>3, <1>6, <2>3, <2>4
<1>10. CASE /\ e \in raised => e \in raised' /\ \A u \in asleep' : Next_(u).on = e => u \in asleep
            /\ \A u \in Threads : pc'[u] # pc[u] =>
                 ~Is(u, pc[u], "setpause", e) /\ ~Is(u, pc[u], "clearpause", e)
  <2>1. Clears(t, e)' = Clears(t, e)
    BY <1>6, <1>10
  <2>2. l < pc[s]
    <3>1. CASE l = pc[s]
      <4>1. pc'[s] # pc[s]
        BY <1>3, <1>4, <3>1
      <4>2. QED
        BY <1>3, <1>10, <3>1, <4>1
    <3>2. QED
      BY <1>5, <3>1
  <2>3. e \in raised /\ ~(t \in asleep /\ Next_(t).on = e)
    BY <1>3, <2>1, <2>2 DEF SetInv
  <2>4. QED
    BY <1>7, <1>10, <2>3
<1>11. QED
  BY <1>8, <1>9, <1>10, SleepStep

LEMMA StartStep == ASSUME IInv, [Next]_vars, StartInv PROVE StartInv'
<1>1. Main' = Main /\ \A u : Ops(u)' = Ops(u)
  BY EveryStep DEF IInv, Threads, Main, Ops
<1>2. Main \in Threads
  BY ThreadsAreNumbered DEF IInv
<1>3. SUFFICES ASSUME NEW l \in DOMAIN Ops(Main), l < pc'[Main], Ops(Main)[l].op = "create"
               PROVE  created'
  BY <1>1 DEF StartInv
<1>4. created => created'
  BY EveryStep DEF IInv, Forward, Takes, Gives, Passes
<1>5. l \in Nat /\ pc[Main] \in Nat /\ pc'[Main] \in {pc[Main], pc[Main] + 1}
  BY <1>2, HowFar, CodeIsWellLocked DEF IInv
<1>6. CASE l < pc[Main]
  BY <1>3, <1>4, <1>6 DEF StartInv
<1>7. CASE l = pc[Main] /\ pc'[Main] # pc[Main]
  <2>1. Next_(Main).op = "create"
    BY <1>3, <1>7 DEF Next_
  <2>2. Forward(Main)
    BY <1>2, <1>7, <2>1, HowFar
  <2>3. QED
    BY <2>1, <2>2 DEF Forward, Takes, Gives, Passes, Acquires, Releases
<1>8. QED
  BY <1>3, <1>5, <1>6, <1>7

WF == INSTANCE WellFoundedInduction

\* A set of numbers that is not empty has a least one.
LEMMA LeastNumber ==
  ASSUME NEW S, S \subseteq Nat, S # {}
  PROVE  \E n \in S : \A k \in S : n <= k
<1>1. WF!IsWellFoundedOn(WF!OpToRel(<, Nat), Nat)
  BY WF!NatLessThanWellFounded
<1>2. PICK n \in S : \A k \in S : ~(<<k, n>> \in WF!OpToRel(<, Nat))
  BY <1>1, WF!WFMin
<1>3. \A k \in S : ~(k < n)
  BY <1>2 DEF WF!OpToRel
<1>4. QED
  BY <1>3

\* The line of all operations, in the words of Parmacs.
LEMMA LineOfText ==
  ASSUME NEW behind, NEW rank, NoCircularWait(code, behind, rank), NEW t \in Threads, NEW k \in DOMAIN Ops(t)
  PROVE  /\ rank[t][k] \in Nat
         /\ \A l \in 1 .. k - 1 : rank[t][l] < rank[t][k]
         /\ Ops(t)[k].op \in {"work", "lock", "unlock", "setpause", "waitpause", "clearpause"} \cup
              IF t = Main THEN {"create", "join"} ELSE {"begin", "barrier"}
         /\ Kept(Ops(t), k) # {} => Ops(t)[k].op \in {"work", "unlock", "clearpause"}
         /\ Ops(t)[k].op = "barrier" => \A s \in Workers : \E l \in DOMAIN Ops(s) :
              /\ Follows(code, behind, t, k, s, l) /\ rank[s][l] = rank[t][k]
              /\ Ops(s)[l].on = Ops(t)[k].on
         /\ Ops(t)[k].op \in {"begin", "waitpause"} => \E s \in Threads : \E l \in DOMAIN Ops(s) :
              Follows(code, behind, t, k, s, l) /\ rank[s][l] < rank[t][k]
         /\ Ops(t)[k].op = "join" => \A s \in Workers : \A l \in DOMAIN Ops(s) :
              Follows(code, behind, t, k, s, l) /\ rank[s][l] < rank[t][k]
BY DEF NoCircularWait, Threads, Ops, Main, Workers

\* The thread whose next operation comes first in the line can move, or one that has
\* a mutex.
LEMMA SomebodyMoves ==
  ASSUME IInv, StartInv, NEW behind, Placed(behind), SetInv(behind),
         NEW rank, NoCircularWait(code, behind, rank)
  PROVE  NeverStuck
<1>1. SUFFICES ASSUME NEW w \in Threads, ~Done(w), \A t \in Threads : ~CanStep(t),
                      ~CanPass, ~At(Main, "create"), ~CanJoin
               PROVE  FALSE
  BY DEF NeverStuck
<1>2. /\ TypeOK /\ MutexInv /\ OrderInv
      /\ Main \in Threads /\ Workers \subseteq Threads
  BY ThreadsAreNumbered DEF IInv
<1>3. ASSUME NEW t \in Threads
      PROVE  /\ pc[t] \in Nat \ {0} /\ DOMAIN Ops(t) = 1 .. Len(Ops(t)) /\ Len(Ops(t)) \in Nat
             /\ IF Done(t) THEN pc[t] = Len(Ops(t)) + 1 ELSE pc[t] \in DOMAIN Ops(t)
  BY <1>2, WhereAThreadIs, CodeIsWellLocked
<1>4. ASSUME NEW m PROVE Free(m)
  <2>1. SUFFICES ASSUME NEW h \in holding PROVE FALSE
    BY DEF Free
  <2>2. PICK u \in Threads : u = h[2] /\ Kept(Ops(u), pc[u]) # {}
    BY <1>2 DEF TypeOK, MutexInv
  <2>3. ~Done(u)
    BY <1>2, <1>3, <2>2, CodeIsWellLocked DEF WellLocked
  <2>4. Next_(u).op \in {"work", "unlock", "clearpause"}
    BY <1>3, <2>2, <2>3, LineOfText DEF Next_
  <2>5. QED
    BY <1>1, <2>3, <2>4 DEF CanStep, At
<1> DEFINE place(u) == rank[u][pc[u]]
<1>5. PICK t \in Threads : ~Done(t) /\ \A u \in Threads : ~Done(u) => place(t) <= place(u)
  <2> DEFINE S == {place(u) : u \in {u \in Threads : ~Done(u)}}
  <2>1. \A u \in Threads : ~Done(u) => place(u) \in Nat
    BY <1>3, LineOfText
  <2>2. S \subseteq Nat /\ S # {}
    BY <1>1, <2>1
  <2>3. PICK n \in S : \A k \in S : n <= k
    <3> HIDE DEF S
    <3>1. QED
      BY <2>2, LeastNumber
  <2>4. QED
    BY <2>3
<1>6. /\ pc[t] \in DOMAIN Ops(t) /\ pc[t] \in Nat \ {0} /\ Next_(t) = Ops(t)[pc[t]]
      /\ place(t) \in Nat
  BY <1>3, <1>5, LineOfText DEF Next_
<1>7. ASSUME NEW s \in Threads, NEW l \in DOMAIN Ops(s), ~Done(s), pc[s] < l
      PROVE  place(t) < rank[s][l]
  <2>1. pc[s] \in 1 .. l - 1 /\ pc[s] \in DOMAIN Ops(s)
    BY <1>3, <1>7
  <2>2. place(s) < rank[s][l] /\ place(s) \in Nat /\ rank[s][l] \in Nat
    BY <2>1, LineOfText
  <2>3. QED
    BY <1>5, <1>6, <1>7, <2>2
<1>8. ASSUME NEW s \in Threads, NEW l \in DOMAIN Ops(s), rank[s][l] < place(t)
      PROVE  l < pc[s]
  <2>1. l \in Nat \ {0} /\ l <= Len(Ops(s)) /\ rank[s][l] \in Nat
    BY <1>3, LineOfText
  <2>2. CASE Done(s)
    BY <1>3, <2>1, <2>2
  <2>3. CASE ~Done(s)
    <3>1. pc[s] # l
      BY <1>5, <1>6, <1>8, <2>1, <2>3
    <3>2. ~(pc[s] < l)
      BY <1>6, <1>7, <1>8, <2>1, <2>3
    <3>3. QED
      BY <1>3, <2>1, <3>1, <3>2
  <2>4. QED
    BY <2>2, <2>3
<1> HIDE DEF place
<1>9. Next_(t).op \notin {"work", "unlock", "clearpause", "lock", "setpause", "create"}
  BY <1>1, <1>4, <1>5, <1>6, LineOfText DEF CanStep, At
<1>10. CASE Next_(t).op = "begin"
  <2>1. PICK l \in DOMAIN Ops(Main) : Starts(Ops(Main), l) /\ rank[Main][l] < rank[t][pc[t]]
    BY <1>6, <1>10, LineOfText DEF Follows, Main, Threads, Ops
  <2>2. l < pc[Main] /\ Ops(Main)[l].op = "create"
    BY <1>2, <1>8, <2>1 DEF Starts, place
  <2>3. created
    BY <2>2 DEF StartInv
  <2>4. QED
    BY <1>1, <1>5, <1>10, <2>3 DEF CanStep, At
<1>11. CASE Next_(t).op = "waitpause"
  <2> DEFINE e == Next_(t).on
  <2>1. Is(t, pc[t], "waitpause", e) /\ Awaits(t, e)
    BY <1>6, <1>11 DEF Is, Awaits
  <2>2. PICK s \in Threads : \E l \in DOMAIN Ops(s) :
          /\ Is(s, l, "setpause", e) /\ rank[s][l] < rank[t][pc[t]]
          /\ Turn(code, behind, s, l, t) = Clears(t, e)
    BY <1>6, <1>11, LineOfText DEF Follows, Main, Threads, Ops, Is, Clears
  <2>3. PICK l \in DOMAIN Ops(s) :
          /\ Is(s, l, "setpause", e) /\ rank[s][l] < rank[t][pc[t]]
          /\ Turn(code, behind, s, l, t) = Clears(t, e)
    BY <2>2
  <2>4. l < pc[s]
    BY <1>8, <2>3 DEF place
  <2>5. t \notin asleep
    BY <2>1, <2>3, <2>4 DEF SetInv
  <2>6. QED
    BY <1>1, <1>4, <1>5, <1>11, <2>5 DEF CanStep, At
<1>12. CASE Next_(t).op = "join"
  <2>1. t = Main
    BY <1>6, <1>12, LineOfText
  <2>2. ASSUME NEW s \in Workers PROVE Done(s)
    <3>1. SUFFICES ASSUME ~Done(s) PROVE FALSE
      OBVIOUS
    <3>2. pc[s] \in DOMAIN Ops(s) /\ s \in Threads
      BY <1>2, <1>3, <3>1
    <3>3. rank[s][pc[s]] < rank[t][pc[t]]
      BY <1>6, <1>12, <3>2, LineOfText
    <3>4. pc[s] < pc[s] /\ pc[s] \in Nat
      BY <1>3, <1>8, <3>2, <3>3 DEF place
    <3>5. QED
      BY <3>4
  <2>3. QED
    BY <1>1, <1>5, <1>12, <2>1, <2>2 DEF CanJoin, At
<1>13. CASE Next_(t).op = "barrier"
  <2>1. t \in Workers
    BY <1>6, <1>13, LineOfText DEF Workers
  <2>2. ASSUME NEW s \in Workers PROVE At(s, "barrier") /\ Next_(s).on = Next_(t).on
    <3>1. s \in Threads
      BY <1>2
    <3>2. PICK l \in DOMAIN Ops(s) :
            /\ Ops(s)[l].op = "barrier" /\ Ops(s)[l].on = Next_(t).on
            /\ Phase(Ops(s), l) = Phase(Ops(t), pc[t])
            /\ rank[s][l] = rank[t][pc[t]]
      BY <1>6, <1>13, LineOfText DEF Follows, Main, Threads, Ops
    <3>3. Phase(Ops(s), pc[s]) = Phase(Ops(s), l)
      BY <1>2, <2>1, <3>2 DEF OrderInv
    <3>4. l \in Nat \ {0} /\ l <= Len(Ops(s)) /\ pc[s] \in Nat \ {0} /\ l + 1 \in Nat \ {0}
      BY <1>3, <3>1
    <3>5. /\ Phase(Ops(s), l) \in Nat
          /\ Phase(Ops(s), l + 1) = Phase(Ops(s), l) + 1
          /\ l + 1 <= pc[s] => Phase(Ops(s), l + 1) <= Phase(Ops(s), pc[s])
      BY <3>2, <3>4, PhaseCounts
    <3>6. pc[s] <= l
      BY <3>3, <3>4, <3>5
    <3>7. ~Done(s)
      BY <1>3, <3>1, <3>4, <3>6
    <3>8. ~(pc[s] < l)
      BY <1>6, <1>7, <3>1, <3>2, <3>7 DEF place
    <3>9. pc[s] = l
      BY <3>4, <3>6, <3>8
    <3>10. QED
      BY <3>2, <3>7, <3>9 DEF At, Next_
  <2>3. QED
    BY <1>1, <2>2 DEF CanPass
<1>14. QED
  BY <1>6, <1>9, <1>10, <1>11, <1>12, <1>13, LineOfText

\* If a clock is right about the text of every program, and all operations can be put
\* in a line in which each comes after those it waits for, and in which nobody waits
\* with a mutex, then no interleaving of the threads gets stuck: no wake-up is lost, no
\* flag is cleared before it was seen, and all come to the same barriers.
THEOREM OrderedProgramsAreNeverStuck ==
  ASSUME \A p \in Programs : \E behind, rank :
           Clock(ThreadsOf(p), behind) /\ NoCircularWait(ThreadsOf(p), behind, rank)
  PROVE  Spec => []NeverStuck
<1> DEFINE J == StartInv /\ \E behind, rank :
                  Placed(behind) /\ SetInv(behind) /\ NoCircularWait(code, behind, rank)
<1>1. Init => J
  <2>1. SUFFICES ASSUME Init PROVE J
    OBVIOUS
  <2>2. PICK behind, rank : Clock(code, behind) /\ NoCircularWait(code, behind, rank)
    BY <2>1 DEF Init
  <2>3. Placed(behind)
    BY <2>1, <2>2, PlacedInit
  <2>4. TypeOK /\ Main \in Threads /\ \A t \in Threads : pc[t] = 1
    BY <2>1, InitType, ThreadsAreNumbered DEF Init, Threads
  <2>5. ASSUME NEW s \in Threads, NEW l \in DOMAIN Ops(s) PROVE ~(l < pc[s])
    <3>1. DOMAIN Ops(s) = 1 .. Len(Ops(s)) /\ Len(Ops(s)) \in Nat
      BY <2>4, CodeIsWellLocked
    <3>2. QED
      BY <2>4, <3>1
  <2>6. SetInv(behind) /\ StartInv
    BY <2>4, <2>5 DEF SetInv, StartInv, Is
  <2>7. QED
    BY <2>2, <2>3, <2>6
<1>2. IInv /\ J /\ [Next]_vars => J'
  <2>1. SUFFICES ASSUME IInv, J, [Next]_vars PROVE J'
    OBVIOUS
  <2>2. PICK behind, rank : Placed(behind) /\ SetInv(behind) /\ NoCircularWait(code, behind, rank)
    BY <2>1
  <2>3. code' = code /\ prog' = prog
    BY <2>1, EveryStep DEF IInv
  <2>4. Placed(behind)' /\ SetInv(behind)' /\ NoCircularWait(code, behind, rank)'
    BY <2>1, <2>2, <2>3, PlacedStep, SetStep
  <2>5. StartInv'
    BY <2>1, StartStep
  <2>6. QED
    BY <2>4, <2>5
<1>3. IInv /\ J => NeverStuck
  BY SomebodyMoves
<1> HIDE DEF J
<1>4. QED
  BY <1>1, <1>2, <1>3, Invariance, PTL DEF Spec

=============================================================================

------------------------------- MODULE Radix -------------------------------
(***************************************************************************)
(* kernels/radix/radix.C with every option on: what a pass computes, the   *)
(* values included, and then the footprint of each thread for given keys.  *)
(*                                                                         *)
(* global->prefix_tree is a binary tree in one array: the nodes of level s *)
(* start at Base(s), the leaves are level 0.  The loops that walk up from  *)
(* a leaf while the last bit of offset is 1 end after trail(MyNum) levels. *)
(***************************************************************************)
EXTENDS Footprint, SequencesExt

CONSTANTS number_of_processors, radix, max_num_digits

P       == number_of_processors
Ids     == 0 .. P - 1
Digits  == 0 .. radix - 1
NumKeys(keys) == Len(keys)
Index(keys)   == 0 .. NumKeys(keys) - 1

bit(x, s)  == (x \div 2^s) % 2
shift(x, s) == x \div 2^s
Base(s)    == MapThenSumSet(LAMBDA r : shift(P, r), 0 .. s - 1)
node(MyNum, s) == Base(s) + shift(MyNum, s)
trail(x)   == CHOOSE s \in 0 .. x : bit(x, s) = 0 /\ \A r \in 0 .. s - 1 : bit(x, r) = 1

my_node(MyNum) == IF MyNum = P - 1 THEN 2 * P - 2 ELSE node(MyNum, trail(MyNum))

their_node(MyNum) ==
  LET u == CHOOSE s \in trail(MyNum) + 1 .. MyNum + 2 :
             /\ bit(MyNum, s) = 0
             /\ \A r \in trail(MyNum) + 1 .. s - 1 : bit(MyNum, r) = 1
  IN  node(MyNum, u)

-----------------------------------------------------------------------------
(* The values of a pass.  keys[i + 1] is key_from[i].                       *)

key_partition(keys, p) == (p * NumKeys(keys)) \div P
MyKeys(keys, p) == key_partition(keys, p) .. key_partition(keys, p + 1) - 1

\* Fault: the shift of a pass is one digit too far.
digit_Next(keys, loopnum, i) == (keys[i + 1] \div radix^(loopnum + 1)) % radix

digit(keys, loopnum, i) == (keys[i + 1] \div radix^loopnum) % radix

\* A function whose values are worked out once.
Table(f) == f @@ << >>

rank_me(keys, loopnum) ==
  [p \in Ids |-> Table([d \in Digits |->
     Cardinality({i \in MyKeys(keys, p) : digit(keys, loopnum, i) = d})])]

Plus(f, g) == Table([d \in Digits |-> f[d] + g[d]])

\* ranks of a node of the tree: those of the leaves below it.
ranks(keys, loopnum) ==
  LET me == Table(rank_me(keys, loopnum))
      sum[s \in 0 .. P, o \in Ids] ==
        IF s = 0 THEN me[o] ELSE Plus(sum[s - 1, 2 * o], sum[s - 1, 2 * o + 1])
  IN  sum

\* Keys up to a digit: what the root collects and the walk down hands to all.
densities(keys, loopnum) ==
  Table([d \in Digits |-> Cardinality({i \in Index(keys) : digit(keys, loopnum, i) <= d})])

\* Where the thread puts its first key of each digit.
rank_ff(keys, loopnum, MyNum) ==
  LET levels   == {s \in 0 .. MyNum : bit(MyNum, s) = 1}
      left(d)  == MapThenSumSet(LAMBDA s : ranks(keys, loopnum)[s, shift(MyNum, s) - 1][d], levels)
      below(d) == IF d = 0 THEN 0 ELSE densities(keys, loopnum)[d - 1]
  IN  Table([d \in Digits |-> left(d) + below(d)])

\* tmp for each key of the thread, in the order of its loop.
Places(keys, loopnum, MyNum) ==
  LET first == rank_ff(keys, loopnum, MyNum)
      d(i)  == digit(keys, loopnum, i)
  IN  Table([i \in MyKeys(keys, MyNum) |->
         first[d(i)] + Cardinality({j \in MyKeys(keys, MyNum) : j < i /\ d(j) = d(i)})])

\* Which key is stored at k, -1 for none.
Sorted(keys, loopnum) ==
  LET place == FoldFunction(LAMBDA f, g : f @@ g, << >>,
                            [p \in Ids |-> Places(keys, loopnum, p)])
      to(k) == {i \in Index(keys) : place[i] = k}
  IN  << >> \o [k \in 1 .. NumKeys(keys) |->
                  IF to(k - 1) = {} THEN -1 ELSE keys[Max(to(k - 1)) + 1]]

\* key_from of a pass.
Pass(keys) ==
  LET pass[n \in 0 .. max_num_digits] ==
        IF n = 0 THEN keys ELSE Sorted(pass[n - 1], n - 1)
  IN  pass

\* The keys come out in order, each as often as it went in.
Sorts(keys) ==
  LET out == Pass(keys)[max_num_digits] IN
  /\ \A i \in 1 .. NumKeys(keys) - 1 : out[i] <= out[i + 1]
  /\ \A k \in Range(keys) \cup Range(out) :
       Cardinality({i \in DOMAIN keys : keys[i] = k}) = Cardinality({i \in DOMAIN out : out[i] = k})

-----------------------------------------------------------------------------
(* Footprints.                                                              *)

key(side, I)  == {<<"key", side, i>> : i \in I}
density(n)    == {<<"densities", n>>}
rank(n)       == {<<"ranks", n>>}
done(n)       == <<"done", n>>
Partitions    == {<<"key_partition">>}
Times(MyNum)  == {<<"times", MyNum>>}
Final         == {<<"final">>}
from(loopnum) == loopnum % 2
to(loopnum)   == 1 - from(loopnum)

init(keys, MyNum) == Write(key(0, MyKeys(keys, MyNum)))

Histogram(keys, loopnum, MyNum) ==
  Then(Read(key(from(loopnum), MyKeys(keys, MyNum))), Write({<<"rank_me", MyNum>>}))

Leaf(MyNum) == Then(Read({<<"rank_me", MyNum>>}), Write(density(MyNum) \cup rank(MyNum)))

\* The node of level s on the way up, its children being node(MyNum, s - 1)
\* and its left neighbour.  ranks are not needed of the last node of a level.
Combine(MyNum, s) ==
  LET r == node(MyNum, s - 1)
      n == node(MyNum, s)
  IN  Then(Foot(density(r) \cup density(r - 1), density(n)),
           When(shift(MyNum, s) # shift(P, s) - 1, Foot(rank(r) \cup rank(r - 1), rank(n))))

WalkUp(MyNum) ==
  LET t == trail(MyNum) IN
  Loop(1, t, LAMBDA s :
    WAITPAUSE(done(node(MyNum, s))) \o CLEARPAUSE(done(node(MyNum, s))) \o
    Work(Combine(MyNum, s))) \o
  SETPAUSE(done(Base(t + 1) + shift(MyNum, t + 1)))

WalkDown(MyNum) ==
  If(MyNum # P - 1,
     WAITPAUSE(done(my_node(MyNum))) \o CLEARPAUSE(done(my_node(MyNum))) \o
     Work(Foot(density(their_node(MyNum)), density(my_node(MyNum))))) \o
  Loop(0, trail(MyNum) - 1, LAMBDA s : SETPAUSE(done(node(MyNum, s) - 1)))

Offsets(MyNum) ==
  Then(Read(UNION {rank(node(MyNum, s) - 1) : s \in {s \in 0 .. MyNum : bit(MyNum, s) = 1}}),
       Foot(density(my_node(MyNum)), {<<"rank_ff", MyNum>>}))

Permute(keys, loopnum, MyNum) ==
  LET place == Places(keys, loopnum, MyNum) IN
  Then(Read({<<"rank_ff", MyNum>>}),
       Foot(key(from(loopnum), MyKeys(keys, MyNum)),
            key(to(loopnum), {place[i] : i \in DOMAIN place}) \cup {<<"rank_ff", MyNum>>}))

Pass_(keys, loopnum, MyNum) ==
  Work(Histogram(keys, loopnum, MyNum)) \o BARRIER("rank") \o
  Work(Leaf(MyNum)) \o WalkUp(MyNum) \o BARRIER("rank") \o
  WalkDown(MyNum) \o Work(Offsets(MyNum)) \o BARRIER("rank") \o
  Work(Permute(keys, loopnum, MyNum)) \o BARRIER("rank")

slave_sort(keys, MyNum) ==
  Created \o Locked(<<"lock_Index", 0>>, Update({<<"Index">>})) \o
  Work(Then(Read(Partitions), init(keys, MyNum))) \o BARRIER("key") \o BARRIER("key") \o
  Loop(0, max_num_digits - 1, LAMBDA loopnum : Pass_(Pass(keys)[loopnum], loopnum, MyNum)) \o
  BARRIER("rank") \o
  Work(Then(Write(Times(MyNum)), When(MyNum = 0, Write(Final))))

PrintStatistics == Read(UNION {Times(p) : p \in Ids})
printout(keys)  == Read(Final \cup key(to(max_num_digits - 1), Index(keys)))
test_sort(keys) == printout(keys)

main(keys) ==
  Work(Write({<<"Index">>} \cup Partitions)) \o CREATE \o WAIT_FOR_END \o
  Work(PrintStatistics) \o Work(printout(keys)) \o Work(test_sort(keys))

Code(keys) == Program([id \in Ids |-> slave_sort(keys, id)], main(keys))

=============================================================================

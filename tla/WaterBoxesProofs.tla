-------------------------- MODULE WaterBoxesProofs --------------------------
(***************************************************************************)
(* Proofs about WaterBoxes: for every number of processes, boxes and       *)
(* molecules, if boxes get molecules of others only after their owners are *)
(* through BNDRY, no molecule is lost, doubled or left in a wrong list, and *)
(* CORREC moves every one exactly once.                                    *)
(*                                                                         *)
(* The invariant tells what the lists mean while they are taken apart.     *)
(* home is the box in whose list a molecule is, or Nowhere between Remove  *)
(* and Push; pos orders the molecules of one list; succ is the next one of *)
(* the list, which next_mol tells except for a molecule at the front whose *)
(* Link is still to come.                                                  *)
(***************************************************************************)
EXTENDS WaterBoxes, Integers, FiniteSetTheorems, WellFoundedInduction, TLAPS

-----------------------------------------------------------------------------
(* The invariant.                                                          *)

Pointer == Molecules \cup {Null}

Nowhere == CHOOSE x : x \notin Boxes

Places == [ phase : 1 .. 5, box : Nat, pc : {"enter", "loop", "remove", "push", "link"},
            curr : Pointer, next : Pointer, last : Pointer, temp : Pointer, to : Boxes \cup {Null} ]

\* A process with these boxes can get to the place r.
Reached(boxes, r) ==
  /\ r.phase <= 4 => r.box \in DOMAIN boxes
  /\ r.pc \in {"remove", "push", "link"} => r.phase = BNDRY /\ r.curr # Null /\ r.to \in Boxes

Types ==
  /\ my_boxes \in Schedules
  /\ list \in [Boxes -> Pointer]
  /\ next_mol \in [Molecules -> Pointer]
  /\ place \in [Molecules -> Boxes]
  /\ at \in [Proc -> Places] /\ \A p \in Proc : Reached(my_boxes[p], at[p])
  /\ corrected \in [Molecules -> 0 .. 2]
  /\ early \in BOOLEAN

\* x is the first member of S in the order of pos.
First(pos, x, S) == (S = {} /\ x = Null) \/ (x \in S /\ \A y \in S : pos[x] <= pos[y])

In(home, b) == {m \in Molecules : home[m] = b}

After(home, pos, m) == {y \in Molecules : home[y] = home[m] /\ pos[m] < pos[y]}

\* The lists, in order.
Ordered(home, pos) ==
  \A m, n \in Molecules : home[m] \in Boxes /\ home[n] = home[m] /\ pos[n] = pos[m] => n = m

Headed(head, home, pos) == \A b \in Boxes : First(pos, head[b], In(home, b))

Linked(home, pos, succ) ==
  \A m \in Molecules : home[m] \in Boxes => First(pos, succ[m], After(home, pos, m))

\* Only of the molecule that a Link is about to change does next_mol not tell the next one.
Told(succ) ==
  \A m \in Molecules : (\A q \in Proc : at[q].pc = "link" => at[q].curr # m) => next_mol[m] = succ[m]

\* The molecule a process is moving to another box.
Moved(home, succ, p) ==
  /\ at[p].pc \in {"remove", "push", "link"} =>
       at[p].to = place[at[p].curr] /\ at[p].to # Box(p)
  /\ at[p].pc = "remove" => at[p].next = succ[at[p].curr]
  /\ at[p].pc = "push" => home[at[p].curr] = Nowhere
  /\ at[p].pc = "link" => /\ home[at[p].curr] = at[p].to
                          /\ succ[at[p].curr] = at[p].temp
                          /\ Owner(at[p].to) = p \/ Through(Owner(at[p].to), BNDRY)

MovedByOne ==
  \A p, q \in Proc : at[p].pc \in {"push", "link"} /\ at[q].pc \in {"push", "link"}
                       /\ at[p].curr = at[q].curr => p = q

LostBySome(home) ==
  \A m \in Molecules : home[m] \notin Boxes =>
    home[m] = Nowhere /\ \E p \in Proc : at[p].pc = "push" /\ at[p].curr = m

\* Where a process is in the list of its box.
Cursor(p) == IF at[p].pc \in {"push", "link"} THEN at[p].next ELSE at[p].curr

Looping(home, succ, p) ==
  at[p].phase \in {2, 3} /\ at[p].pc # "enter" =>
    /\ Cursor(p) # Null => home[Cursor(p)] = Box(p)
    /\ at[p].phase = BNDRY =>
         IF at[p].last = Null THEN list[Box(p)] = Cursor(p)
         ELSE home[at[p].last] = Box(p) /\ succ[at[p].last] = Cursor(p)

\* The loop of a phase is still to come to molecule m of box b.
Yet(pos, ph, b, m) ==
  LET p == Owner(b) IN
  \/ at[p].phase < ph
  \/ at[p].phase = ph /\ \E i \in DOMAIN my_boxes[p] : my_boxes[p][i] = b /\ at[p].box < i
  \/ /\ at[p].phase = ph /\ Box(p) = b
     /\ at[p].pc = "enter" \/ (Cursor(p) # Null /\ pos[Cursor(p)] <= pos[m])

Counted(home, pos) ==
  \A m \in Molecules : corrected[m] = IF home[m] \in Boxes /\ Yet(pos, 2, home[m], m) THEN 0 ELSE 1

Settled(home, pos) ==
  \A m \in Molecules : home[m] \in Boxes => place[m] = home[m] \/ Yet(pos, BNDRY, home[m], m)

Ghosts(home, pos, succ) ==
  /\ home \in [Molecules -> Boxes \cup {Nowhere}]
  /\ pos \in [Molecules -> Int]
  /\ succ \in [Molecules -> Pointer]

Lists(home, pos, succ) ==
  /\ Ghosts(home, pos, succ)
  /\ Ordered(home, pos) /\ Headed(list, home, pos) /\ Linked(home, pos, succ)
  /\ Told(succ)
  /\ \A p \in Proc : Moved(home, succ, p)
  /\ MovedByOne /\ LostBySome(home)
  /\ \A p \in Proc : Looping(home, succ, p)
  /\ Counted(home, pos) /\ Settled(home, pos)

Inv == Types /\ (early \/ \E home, pos, succ : Lists(home, pos, succ))

-----------------------------------------------------------------------------
(* Lists whose molecules are in order.                                     *)

LEMMA NowhereIsNoBox == Nowhere \notin Boxes
  BY NoSetContainsEverything DEF Nowhere

\* Taking a molecule out, when another one is before it.
LEMMA Unlinked ==
  ASSUME NEW head \in [Boxes -> Pointer], NEW home, NEW pos, NEW succ, Ghosts(home, pos, succ),
         Ordered(home, pos), Headed(head, home, pos), Linked(home, pos, succ),
         NEW m \in Molecules, home[m] \in Boxes,
         NEW last \in Molecules, home[last] = home[m], succ[last] = m
  PROVE  LET away == [home EXCEPT ![m] = Nowhere]
             next == [succ EXCEPT ![last] = succ[m]]
         IN  /\ Ghosts(away, pos, next) /\ Ordered(away, pos)
             /\ Headed(head, away, pos) /\ Linked(away, pos, next)
  <1> DEFINE away == [home EXCEPT ![m] = Nowhere]
             next == [succ EXCEPT ![last] = succ[m]]
  <1> USE NowhereIsNoBox DEF Ghosts
  <1>1. Ghosts(away, pos, next) /\ Ordered(away, pos)
    BY DEF Ordered, Pointer
  <1>2. \A y \in Molecules : away[y] = IF y = m THEN Nowhere ELSE home[y]
    OBVIOUS
  <1>3. \A y \in Molecules : next[y] = IF y = last THEN succ[m] ELSE succ[y]
    OBVIOUS
  <1>4. m \in After(home, pos, last) /\ \A y \in After(home, pos, last) : pos[m] <= pos[y]
    BY WaterBoxesAssumption DEF Linked, First
  <1> HIDE DEF away, next
  <1>5. pos \in [Molecules -> Int] /\ last # m /\ pos[last] < pos[m]
    BY <1>4 DEF After
  <1>6. Headed(head, away, pos)
    <2> SUFFICES ASSUME NEW b \in Boxes PROVE First(pos, head[b], In(away, b))
      BY DEF Headed
    <2>1. First(pos, head[b], In(home, b))
      BY DEF Headed
    <2>2. CASE b # home[m]
      BY <1>2, <2>1, <2>2 DEF In
    <2>3. CASE b = home[m]
      <3>1. last \in In(home, b)
        BY <2>3 DEF In
      <3>2. head[b] \in In(home, b) /\ \A y \in In(home, b) : pos[head[b]] <= pos[y]
        BY <2>1, <3>1 DEF First
      <3>3. head[b] # m
        BY <1>5, <3>1, <3>2 DEF In
      <3> QED
        BY <1>2, <3>2, <3>3 DEF First, In
    <2> QED BY <2>2, <2>3
  <1>7. Linked(away, pos, next)
    <2> SUFFICES ASSUME NEW x \in Molecules, away[x] \in Boxes
                 PROVE  First(pos, next[x], After(away, pos, x))
      BY DEF Linked
    <2>1. x # m /\ away[x] = home[x] /\ First(pos, succ[x], After(home, pos, x))
      BY <1>2 DEF Linked
    <2>2. After(away, pos, x) = After(home, pos, x) \ {m}
      BY <1>2, <2>1 DEF After
    <2>3. CASE x = last
      <3>1. After(away, pos, x) = After(home, pos, m)
        BY <1>4, <1>5, <2>2, <2>3 DEF After, Ordered
      <3> QED
        BY <1>3, <2>3, <3>1 DEF Linked
    <2>4. CASE x # last
      <3>1. succ[x] # m
        <4> SUFFICES ASSUME succ[x] = m PROVE FALSE
          OBVIOUS
        <4>1. m \in After(home, pos, x) /\ \A y \in After(home, pos, x) : pos[m] <= pos[y]
          BY <2>1, WaterBoxesAssumption DEF First
        <4>2. home[x] = home[last] /\ pos[x] # pos[last]
          BY <2>4, <4>1 DEF After, Ordered
        <4>3. CASE pos[x] < pos[last]
          BY <1>5, <4>1, <4>2, <4>3 DEF After
        <4>4. CASE pos[last] < pos[x]
          BY <1>4, <4>1, <4>2, <4>4 DEF After
        <4> QED BY <4>2, <4>3, <4>4
      <3> QED
        BY <1>3, <2>1, <2>2, <2>4, <3>1 DEF First
    <2> QED BY <2>3, <2>4
  <1> QED
    BY <1>1, <1>6, <1>7 DEF away, next

\* Taking the first molecule out.
LEMMA UnlinkedFirst ==
  ASSUME NEW head \in [Boxes -> Pointer], NEW home, NEW pos, NEW succ, Ghosts(home, pos, succ),
         Ordered(home, pos), Headed(head, home, pos), Linked(home, pos, succ),
         NEW m \in Molecules, home[m] \in Boxes, head[home[m]] = m
  PROVE  LET away == [home EXCEPT ![m] = Nowhere]
         IN  /\ Ghosts(away, pos, succ) /\ Ordered(away, pos)
             /\ Headed([head EXCEPT ![home[m]] = succ[m]], away, pos) /\ Linked(away, pos, succ)
  <1> DEFINE away  == [home EXCEPT ![m] = Nowhere]
             first == [head EXCEPT ![home[m]] = succ[m]]
  <1> USE NowhereIsNoBox DEF Ghosts
  <1>1. Ghosts(away, pos, succ) /\ Ordered(away, pos)
    BY DEF Ordered
  <1>2. \A y \in Molecules : away[y] = IF y = m THEN Nowhere ELSE home[y]
    OBVIOUS
  <1>3. \A b \in Boxes : first[b] = IF b = home[m] THEN succ[m] ELSE head[b]
    OBVIOUS
  <1>4. m \in In(home, home[m]) /\ \A y \in In(home, home[m]) : pos[m] <= pos[y]
    BY WaterBoxesAssumption DEF Headed, First
  <1> HIDE DEF away, first
  <1>5. pos \in [Molecules -> Int]
    OBVIOUS
  <1>6. Headed(first, away, pos)
    <2> SUFFICES ASSUME NEW b \in Boxes PROVE First(pos, first[b], In(away, b))
      BY DEF Headed
    <2>1. First(pos, head[b], In(home, b))
      BY DEF Headed
    <2>2. CASE b # home[m]
      BY <1>2, <1>3, <2>1, <2>2 DEF In
    <2>3. CASE b = home[m]
      <3>1. In(away, b) = After(home, pos, m)
        BY <1>2, <1>4, <1>5, <2>3 DEF In, After, Ordered
      <3> QED
        BY <1>3, <2>3, <3>1 DEF Linked
    <2> QED BY <2>2, <2>3
  <1>7. Linked(away, pos, succ)
    <2> SUFFICES ASSUME NEW x \in Molecules, away[x] \in Boxes
                 PROVE  First(pos, succ[x], After(away, pos, x))
      BY DEF Linked
    <2>1. x # m /\ away[x] = home[x] /\ First(pos, succ[x], After(home, pos, x))
      BY <1>2 DEF Linked
    <2>2. After(away, pos, x) = After(home, pos, x)
      BY <1>2, <1>4, <1>5, <2>1 DEF After, In
    <2> QED BY <2>1, <2>2
  <1> QED
    BY <1>1, <1>6, <1>7 DEF away, first

\* Making a molecule the first of a list.
LEMMA LinkedFirst ==
  ASSUME NEW head \in [Boxes -> Pointer], NEW home, NEW pos, NEW succ, Ghosts(home, pos, succ),
         Ordered(home, pos), Headed(head, home, pos), Linked(home, pos, succ),
         NEW m \in Molecules, home[m] = Nowhere, NEW b \in Boxes
  PROVE  LET here  == [home EXCEPT ![m] = b]
             front == [pos EXCEPT ![m] = IF head[b] = Null THEN 0 ELSE pos[head[b]] - 1]
             next  == [succ EXCEPT ![m] = head[b]]
         IN  /\ Ghosts(here, front, next) /\ Ordered(here, front)
             /\ Headed([head EXCEPT ![b] = m], here, front) /\ Linked(here, front, next)
  <1> DEFINE here  == [home EXCEPT ![m] = b]
             front == [pos EXCEPT ![m] = IF head[b] = Null THEN 0 ELSE pos[head[b]] - 1]
             next  == [succ EXCEPT ![m] = head[b]]
             first == [head EXCEPT ![b] = m]
  <1> USE NowhereIsNoBox DEF Ghosts
  <1>1. head[b] \in Pointer /\ (head[b] # Null => head[b] \in Molecules /\ pos[head[b]] \in Int)
    BY DEF Pointer
  <1>2. Ghosts(here, front, next)
    BY <1>1
  <1>3. \A y \in Molecules : /\ here[y] = IF y = m THEN b ELSE home[y]
                             /\ next[y] = IF y = m THEN head[b] ELSE succ[y]
                             /\ y # m => front[y] = pos[y]
    OBVIOUS
  <1>4. \A c \in Boxes : first[c] = IF c = b THEN m ELSE head[c]
    OBVIOUS
  <1>5. \A y \in Molecules : pos[y] \in Int /\ front[y] \in Int
    BY <1>2
  <1>6. \A y \in Molecules : home[y] = b => y # m /\ front[m] < front[y]
    <2> SUFFICES ASSUME NEW y \in Molecules, home[y] = b PROVE y # m /\ front[m] < front[y]
      OBVIOUS
    <2>1. head[b] \in In(home, b) /\ pos[head[b]] <= pos[y]
      BY DEF Headed, First, In
    <2>2. y # m /\ head[b] # Null /\ head[b] \in Molecules
      BY <2>1, WaterBoxesAssumption DEF In
    <2>3. front[m] = pos[head[b]] - 1 /\ front[y] = pos[y]
      BY <2>2
    <2> HIDE DEF front
    <2> QED BY <1>5, <2>1, <2>2, <2>3
  <1> HIDE DEF here, front, next, first
  <1>7. Ordered(here, front)
    BY <1>3, <1>5, <1>6 DEF Ordered
  <1>8. Headed(first, here, front)
    <2> SUFFICES ASSUME NEW c \in Boxes PROVE First(front, first[c], In(here, c))
      BY DEF Headed
    <2>1. First(pos, head[c], In(home, c))
      BY DEF Headed
    <2>2. CASE c # b
      <3>1. In(here, c) = In(home, c) /\ m \notin In(home, c)
        BY <1>3, <2>2 DEF In
      <3> QED
        BY <1>3, <1>4, <2>1, <2>2, <3>1 DEF First, In
    <2>3. CASE c = b
      BY <1>3, <1>4, <1>5, <1>6, <2>3 DEF First, In
    <2> QED BY <2>2, <2>3
  <1>9. Linked(here, front, next)
    <2> SUFFICES ASSUME NEW x \in Molecules, here[x] \in Boxes
                 PROVE  First(front, next[x], After(here, front, x))
      BY DEF Linked
    <2>1. CASE x = m
      <3>1. After(here, front, x) = In(home, b)
        BY <1>3, <1>5, <1>6, <2>1 DEF After, In
      <3>2. First(pos, head[b], In(home, b)) /\ m \notin In(home, b)
        BY DEF Headed, In
      <3> QED
        BY <1>3, <2>1, <3>1, <3>2 DEF First, In
    <2>2. CASE x # m
      <3>1. here[x] = home[x] /\ First(pos, succ[x], After(home, pos, x))
        BY <1>3, <2>2 DEF Linked
      <3>2. After(here, front, x) = After(home, pos, x) /\ m \notin After(home, pos, x)
        BY <1>3, <1>5, <1>6, <2>2, <3>1 DEF After
      <3> QED
        BY <1>3, <2>2, <3>1, <3>2 DEF First, After
    <2> QED BY <2>1, <2>2
  <1> QED
    BY <1>2, <1>7, <1>8, <1>9 DEF here, front, next, first

\* A set has a member with the least number.
LEMMA Least ==
  ASSUME NEW T, T # {}, NEW f \in [T -> Nat]
  PROVE  \E x \in T : \A y \in T : f[x] <= f[y]
  <1> DEFINE S == {f[x] : x \in T}
  <1>1. S \in SUBSET Nat /\ S # {}
    OBVIOUS
  <1> HIDE DEF S
  <1>2. PICK n \in S : \A k \in S : <<k, n>> \notin OpToRel(<, Nat)
    BY <1>1, NatLessThanWellFounded, WFMin
  <1>3. \A k \in S : ~(k < n)
    BY <1>1, <1>2 DEF OpToRel
  <1>4. \A k \in S : n <= k
    BY <1>1, <1>3
  <1>5. PICK x \in T : n = f[x]
    BY DEF S
  <1>6. \A y \in T : f[y] \in S
    BY DEF S
  <1> QED BY <1>4, <1>5, <1>6

\* What a list in order leads to is what is in it.
LEMMA ChainIsList ==
  ASSUME NEW home, NEW pos, NEW succ, Ghosts(home, pos, succ), list \in [Boxes -> Pointer],
         Ordered(home, pos), Headed(list, home, pos), Linked(home, pos, succ),
         next_mol = succ, NEW b \in Boxes
  PROVE  Chain(b) = In(home, b)
  <1> DEFINE closed(S) == list[b] \in S /\ \A m \in S \ {Null} : next_mol[m] \in S
             L         == In(home, b)
  <1> USE WaterBoxesAssumption DEF Ghosts
  <1>1. Chain(b) = {m \in Molecules : \A S \in SUBSET Pointer : closed(S) => m \in S}
    BY DEF Chain, Pointer
  <1>2. First(pos, list[b], L)
    BY DEF Headed
  <1>3. \A m \in L : m \in Molecules /\ pos[m] \in Int /\ First(pos, succ[m], After(home, pos, m))
    BY DEF Linked, In
  <1>4. L \cup {Null} \in SUBSET Pointer /\ closed(L \cup {Null})
    BY <1>2, <1>3 DEF First, In, After, Pointer
  <1>5. Chain(b) \subseteq L
    BY <1>1, <1>4 DEF In
  <1>6. \A x, y \in L : pos[x] = pos[y] => x = y
    BY DEF Ordered, In
  <1>7. \A x, y \in L : pos[x] < pos[y] => y \in After(home, pos, x)
    BY DEF In, After
  <1>8. \A x, y \in L : y \in After(home, pos, x) => pos[x] < pos[y]
    BY DEF After
  <1>9. \A x \in L : \A y \in After(home, pos, x) : y \in L
    BY DEF After, In
  <1>10. ASSUME NEW S \in SUBSET Pointer, closed(S), NEW z \in L, z \notin S
         PROVE  FALSE
    <2> HIDE DEF L
    <2>1. list[b] \in L /\ list[b] \in S /\ \A y \in L : pos[list[b]] <= pos[y]
      BY <1>2, <1>10 DEF First
    <2> DEFINE far == [y \in L \ S |-> pos[y] - pos[list[b]]]
    <2>2. far \in [L \ S -> Nat] /\ L \ S # {}
      BY <1>3, <1>10, <2>1
    <2>3. PICK m \in L \ S : \A y \in L \ S : far[m] <= far[y]
      BY <2>2, Least
    <2>4. \A y \in L \ S : pos[m] <= pos[y]
      BY <1>3, <2>1, <2>3
    <2> DEFINE before == {x \in L : pos[x] < pos[m]}
               dist   == [y \in before |-> pos[m] - pos[y]]
    <2>5. list[b] \in before
      BY <1>3, <1>6, <2>1
    <2>6. dist \in [before -> Nat]
      BY <1>3
    <2>7. PICK x \in before : \A y \in before : dist[x] <= dist[y]
      BY <2>5, <2>6, Least
    <2>8. \A y \in before : pos[y] <= pos[x]
      BY <1>3, <2>7
    <2>9. x \in S
      BY <1>3, <2>4
    <2>10. m \in After(home, pos, x)
      BY <1>7
    <2>11. succ[x] \in After(home, pos, x) /\ pos[succ[x]] <= pos[m]
      BY <1>3, <2>10 DEF First
    <2>12. succ[x] \in L /\ pos[x] < pos[succ[x]]
      BY <1>8, <1>9, <2>11
    <2>13. succ[x] = m
      BY <1>3, <1>6, <2>8, <2>11, <2>12
    <2>14. x # Null
      BY <1>3
    <2> QED
      BY <1>10, <2>9, <2>13, <2>14
  <1> QED
    BY <1>1, <1>5, <1>10 DEF In

\* Every box has one owner.
LEMMA Owned ==
  ASSUME my_boxes \in Schedules
  PROVE  /\ \A p \in Proc : \A i \in DOMAIN my_boxes[p] : my_boxes[p][i] \in Boxes /\ Owner(my_boxes[p][i]) = p
         /\ \A b \in Boxes : Owner(b) \in Proc /\ \E i \in DOMAIN my_boxes[Owner(b)] : my_boxes[Owner(b)][i] = b
         /\ \A p \in Proc : \A i, j \in DOMAIN my_boxes[p] : my_boxes[p][i] = my_boxes[p][j] => i = j
         /\ \A p \in Proc : DOMAIN my_boxes[p] = 1 .. Len(my_boxes[p]) /\ Len(my_boxes[p]) \in Nat
  <1>1. my_boxes \in [Proc -> Seq(Boxes)]
    BY WaterBoxesAssumption
  <1>2. /\ \A b \in Boxes : \E p \in Proc : \E i \in DOMAIN my_boxes[p] : my_boxes[p][i] = b
        /\ \A p, q \in Proc : \A i \in DOMAIN my_boxes[p], j \in DOMAIN my_boxes[q] :
             my_boxes[p][i] = my_boxes[q][j] => p = q /\ i = j
    BY WaterBoxesAssumption
  <1>3. \A p \in Proc : my_boxes[p] \in Seq(Boxes)
    BY <1>1
  <1>4. \A p \in Proc : DOMAIN my_boxes[p] = 1 .. Len(my_boxes[p]) /\ Len(my_boxes[p]) \in Nat
                         /\ \A i \in DOMAIN my_boxes[p] : my_boxes[p][i] \in Boxes
    BY <1>3
  <1>5. \A b \in Boxes : Owner(b) \in Proc /\ \E i \in DOMAIN my_boxes[Owner(b)] : my_boxes[Owner(b)][i] = b
    BY <1>2 DEF Owner
  <1>6. \A p \in Proc : \A i \in DOMAIN my_boxes[p] : Owner(my_boxes[p][i]) = p
    BY <1>2, <1>4, <1>5
  <1> QED
    BY <1>2, <1>4, <1>5, <1>6

-----------------------------------------------------------------------------
(* The types.                                                              *)

LEMMA PhasesAre == Len(Phases) = 4 /\ Range(Phases) = {"divide", "correc", "bndry", "kineti"}
                   /\ Phases[1] = "divide" /\ Phases[2] = "correc" /\ Phases[3] = "bndry" /\ Phases[4] = "kineti"
  BY DEF Phases, Range

LEMMA WhereItIs ==
  ASSUME Types, NEW p \in Proc
  PROVE  /\ \A pc : Is(p, Range(Phases), pc) <=> at[p].phase <= 4 /\ at[p].pc = pc
         /\ \A pc : Is(p, {"bndry"}, pc) <=> at[p].phase = BNDRY /\ at[p].pc = pc
         /\ Meets(p, "correc") <=> at[p].phase = 2 /\ at[p].pc = "loop" /\ at[p].curr # Null
         /\ Meets(p, "bndry") <=> at[p].phase = BNDRY /\ at[p].pc = "loop" /\ at[p].curr # Null
         /\ Meets(p, "divide") \/ Meets(p, "kineti")
              <=> at[p].phase \in {1, 4} /\ at[p].pc = "loop" /\ at[p].curr # Null
  <1>1. at[p].phase \in {1, 2, 3, 4, 5}
    BY DEF Types, Places
  <1> QED
    BY <1>1, PhasesAre DEF Is, Meets, Through, BNDRY

LEMMA StepTypes ==
  ASSUME Types, NEW p \in Proc, Step(p)
  PROVE  Types'
  <1> USE WaterBoxesAssumption
  <1>1. at[p] \in Places /\ at[p].phase \in 1 .. 5 /\ at[p].box \in Nat /\ Reached(my_boxes[p], at[p])
    BY DEF Places, Types
  <1>2. at[p].curr # Null => at[p].curr \in Molecules /\ next_mol[at[p].curr] \in Pointer
    BY <1>1 DEF Places, Pointer, Types
  <1>3. at[p].phase <= 4 => Box(p) \in Boxes /\ list[Box(p)] \in Pointer
    BY <1>1, Owned DEF Box, Reached, Types
  <1>4. /\ at[p].curr \in Pointer /\ at[p].next \in Pointer /\ at[p].last \in Pointer /\ at[p].temp \in Pointer
        /\ Null \in Pointer /\ Null \in Boxes \cup {Null}
    BY <1>1 DEF Places, Pointer
  <1>5. SUFFICES /\ my_boxes' = my_boxes
                 /\ list' \in [Boxes -> Pointer]
                 /\ next_mol' \in [Molecules -> Pointer]
                 /\ place' \in [Molecules -> Boxes]
                 /\ corrected' \in [Molecules -> 0 .. 2]
                 /\ early' \in BOOLEAN
                 /\ \E r \in Places : at' = [at EXCEPT ![p] = r] /\ Reached(my_boxes[p], r)
    <2>1. PICK r \in Places : at' = [at EXCEPT ![p] = r] /\ Reached(my_boxes[p], r)
      BY <1>5
    <2>2. at' \in [Proc -> Places] /\ \A q \in Proc : at'[q] = IF q = p THEN r ELSE at[q]
      BY <2>1 DEF Types
    <2>3. \A q \in Proc : Reached(my_boxes'[q], at'[q])
      BY <1>5, <2>1, <2>2 DEF Types
    <2> QED
      BY <1>5, <2>2, <2>3 DEF Types
  <1>6. CASE Enter(p)
    <2> DEFINE r == Pointers(p, "loop", list[Box(p)], Null)
    <2>1. r \in Places /\ Reached(my_boxes[p], r)
      BY <1>1, <1>3, <1>4, <1>6, WhereItIs DEF Enter, Pointers, Places, Reached
    <2> QED BY <1>6, <2>1 DEF Enter, Types
  <1>7. CASE Leave(p)
    <2> DEFINE left == Pointers(p, "enter", Null, Null)
               r    == IF left.box < Len(my_boxes[p]) THEN [left EXCEPT !.box = @ + 1]
                       ELSE [left EXCEPT !.box = 1, !.phase = @ + 1]
    <2>1. at[p].phase <= 4 /\ at[p].box \in 1 .. Len(my_boxes[p]) /\ Len(my_boxes[p]) \in Nat
          /\ DOMAIN my_boxes[p] = 1 .. Len(my_boxes[p])
      BY <1>1, <1>7, WhereItIs, Owned DEF Leave, Reached, Types
    <2>2. left \in Places /\ left.box = at[p].box /\ left.phase = at[p].phase /\ left.pc = "enter"
      BY <1>1, <1>4 DEF Pointers, Places
    <2> HIDE DEF left
    <2>3. r \in Places /\ Reached(my_boxes[p], r)
      <3>1. left.phase \in Nat /\ left.box \in Nat /\ left.box + 1 \in Nat /\ left.phase + 1 \in 1 .. 5
        BY <1>1, <2>1, <2>2
      <3>2. CASE left.box < Len(my_boxes[p])
        BY <2>1, <2>2, <3>1, <3>2 DEF Places, Reached
      <3>3. CASE ~(left.box < Len(my_boxes[p]))
        <4>1. r = [left EXCEPT !.box = 1, !.phase = @ + 1]
          BY <3>3
        <4>2. r \in Places /\ r.box = 1 /\ r.pc = "enter"
          BY <2>2, <3>1, <4>1 DEF Places
        <4> QED BY <2>1, <4>2 DEF Reached
      <3> QED BY <3>2, <3>3
    <2> QED BY <1>7, <2>3 DEF Leave, Types, left
  <1>8. CASE Follow(p)
    <2> DEFINE r == [at[p] EXCEPT !.curr = next_mol[@]]
    <2>1. r \in Places /\ Reached(my_boxes[p], r)
      BY <1>1, <1>2, <1>8, WhereItIs DEF Follow, Places, Reached
    <2> QED BY <1>8, <2>1 DEF Follow, Types
  <1>9. CASE Correct(p)
    <2> DEFINE r == [at[p] EXCEPT !.curr = next_mol[@]]
    <2>1. r \in Places /\ Reached(my_boxes[p], r)
      BY <1>1, <1>2, <1>9, WhereItIs DEF Correct, Places, Reached
    <2>9. at' = [at EXCEPT ![p] = r]
      BY <1>9 DEF Correct, Types
    <2> HIDE DEF r
    <2>2. place' \in [Molecules -> Boxes]
      <3>1. PICK b \in Boxes : place' = [place EXCEPT ![at[p].curr] = b]
        BY <1>9 DEF Correct
      <3> QED BY <3>1 DEF Types
    <2>3. corrected' = [corrected EXCEPT ![at[p].curr] = IF @ = 0 THEN 1 ELSE 2]
      BY <1>9 DEF Correct
    <2>4. corrected' \in [Molecules -> 0 .. 2]
      <3>1. at[p].curr \in Molecules /\ corrected \in [Molecules -> 0 .. 2]
        BY <1>2, <1>9, WhereItIs DEF Correct, Types
      <3>2. CASE corrected[at[p].curr] = 0
        BY <2>3, <3>1, <3>2
      <3>3. CASE corrected[at[p].curr] # 0
        BY <2>3, <3>1, <3>3
      <3> QED BY <3>2, <3>3
    <2> QED BY <1>9, <2>1, <2>2, <2>4, <2>9 DEF Correct, Types
  <1>10. CASE Stay(p)
    <2> DEFINE r == Pointers(p, "loop", next_mol[at[p].curr], at[p].curr)
    <2>1. r \in Places /\ Reached(my_boxes[p], r)
      BY <1>1, <1>2, <1>4, <1>10, WhereItIs DEF Stay, Pointers, Places, Reached
    <2> QED BY <1>10, <2>1 DEF Stay, Types
  <1>11. CASE Move(p)
    <2> DEFINE r == [at[p] EXCEPT !.next = next_mol[at[p].curr], !.to = place[at[p].curr], !.pc = "remove"]
    <2>1. place[at[p].curr] \in Boxes
      BY <1>2, <1>11, WhereItIs DEF Move, Types
    <2>2. r \in Places /\ Reached(my_boxes[p], r)
      BY <1>1, <1>2, <1>11, <2>1, WhereItIs DEF Move, Places, Reached
    <2>9. at' = [at EXCEPT ![p] = r]
      BY <1>11 DEF Move, Types
    <2> HIDE DEF r
    <2> QED BY <1>11, <2>2, <2>9 DEF Move, Types
  <1>12. CASE Remove(p)
    <2> DEFINE r == [at[p] EXCEPT !.pc = "push"]
    <2>1. r \in Places /\ Reached(my_boxes[p], r)
      BY <1>1, <1>12, WhereItIs DEF Remove, Places, Reached
    <2>2. at[p].curr # Null
      BY <1>1, <1>12, WhereItIs DEF Remove, Reached
    <2>9. at' = [at EXCEPT ![p] = r]
      BY <1>12 DEF Remove, Types
    <2> HIDE DEF r
    <2>3. list' \in [Boxes -> Pointer] /\ next_mol' \in [Molecules -> Pointer]
      <3>1. next_mol[at[p].curr] \in Pointer /\ list \in [Boxes -> Pointer] /\ next_mol \in [Molecules -> Pointer]
        BY <1>2, <2>2 DEF Types
      <3>2. CASE at[p].last # Null
        BY <1>12, <3>1, <3>2 DEF Remove
      <3>3. CASE at[p].last = Null
        BY <1>12, <3>1, <3>3 DEF Remove
      <3> QED BY <3>2, <3>3
    <2> QED BY <1>12, <2>1, <2>3, <2>9 DEF Remove, Types
  <1>13. CASE Push(p)
    <2> DEFINE r == [at[p] EXCEPT !.temp = list[at[p].to], !.pc = "link"]
    <2>1. at[p].to \in Boxes /\ list[at[p].to] \in Pointer
      BY <1>1, <1>13, WhereItIs DEF Push, Reached, Types
    <2>2. r \in Places /\ Reached(my_boxes[p], r)
      BY <1>1, <1>13, <2>1, WhereItIs DEF Push, Places, Reached
    <2>9. at' = [at EXCEPT ![p] = r]
      BY <1>13 DEF Push, Types
    <2> HIDE DEF r
    <2> QED BY <1>4, <1>13, <2>2, <2>9 DEF Push, Types
  <1>14. CASE Link(p)
    <2> DEFINE r == Pointers(p, "loop", at[p].next, at[p].last)
    <2>1. r \in Places /\ Reached(my_boxes[p], r)
      BY <1>1, <1>4, <1>14, WhereItIs DEF Link, Pointers, Places, Reached
    <2> QED BY <1>4, <1>14, <2>1 DEF Link, Types
  <1> QED
    BY <1>6, <1>7, <1>8, <1>9, <1>10, <1>11, <1>12, <1>13, <1>14 DEF Step

-----------------------------------------------------------------------------
(* What the invariant says of one process.                                 *)

LEMMA FieldTypes ==
  ASSUME Types, NEW p \in Proc
  PROVE  /\ at[p].phase \in 1 .. 5 /\ at[p].box \in Nat
         /\ at[p].pc \in {"enter", "loop", "remove", "push", "link"}
         /\ at[p].curr \in Pointer /\ at[p].next \in Pointer /\ at[p].last \in Pointer /\ at[p].temp \in Pointer
         /\ at[p].curr # Null => at[p].curr \in Molecules
         /\ at[p].last # Null => at[p].last \in Molecules
         /\ Cursor(p) \in Pointer /\ (Cursor(p) # Null => Cursor(p) \in Molecules)
         /\ at[p].pc \in {"remove", "push", "link"} =>
              at[p].phase = 3 /\ at[p].curr \in Molecules /\ at[p].curr # Null /\ at[p].to \in Boxes
         /\ at[p].phase <= 4 => /\ at[p].box \in DOMAIN my_boxes[p] /\ Box(p) = my_boxes[p][at[p].box]
                                /\ Box(p) \in Boxes /\ Owner(Box(p)) = p
  <1>1. at[p] \in Places /\ Reached(my_boxes[p], at[p]) /\ my_boxes \in Schedules
    BY DEF Types
  <1>2. at[p].phase <= 4 => /\ at[p].box \in DOMAIN my_boxes[p] /\ Box(p) = my_boxes[p][at[p].box]
                            /\ Box(p) \in Boxes /\ Owner(Box(p)) = p
    BY <1>1, Owned DEF Reached, Box
  <1> QED
    BY <1>1, <1>2, WaterBoxesAssumption DEF Places, Reached, Pointer, Cursor, BNDRY

\* What is in the box a process works on is taken away by that process alone.
LEMMA NotTaken ==
  ASSUME Types, NEW home, NEW pos, NEW succ, Lists(home, pos, succ),
         NEW p \in Proc, at[p].phase \in {2, 3}, NEW m \in Molecules, home[m] = Box(p),
         NEW q \in Proc, q # p, at[q].pc \in {"remove", "push", "link"}
  PROVE  at[q].curr # m
  <1>1. Box(p) \in Boxes /\ Owner(Box(p)) = p
    BY FieldTypes
  <1>2. Moved(home, succ, q) /\ Looping(home, succ, q)
    BY DEF Lists
  <1>3. at[q].phase = 3 /\ Box(q) \in Boxes /\ Owner(Box(q)) = q /\ at[q].curr # Null
    BY FieldTypes
  <1>4. CASE at[q].pc = "remove"
    BY <1>1, <1>2, <1>3, <1>4 DEF Looping, Cursor
  <1>5. CASE at[q].pc = "push"
    BY <1>1, <1>2, <1>5, NowhereIsNoBox DEF Moved
  <1>6. CASE at[q].pc = "link"
    BY <1>1, <1>2, <1>6 DEF Moved, Through, BNDRY
  <1> QED BY <1>4, <1>5, <1>6

\* So a process reads the next one as it is in the list.
LEMMA NextIsTold ==
  ASSUME Types, NEW home, NEW pos, NEW succ, Lists(home, pos, succ),
         NEW p \in Proc, at[p].phase \in {2, 3}, at[p].pc # "link", NEW m \in Molecules, home[m] = Box(p)
  PROVE  next_mol[m] = succ[m]
  BY NotTaken DEF Lists, Told

\* The process that steps is the only one whose place changes.
Alone(p) ==
  /\ my_boxes' = my_boxes
  /\ \A q \in Proc : q # p => at'[q] = at[q]
  /\ at[p].phase <= at'[p].phase

LEMMA YetOfOthers ==
  ASSUME NEW p \in Proc, Alone(p), NEW b, Owner(b) \in Proc, Owner(b) # p, NEW pos, NEW ph, NEW m
  PROVE  Yet(pos, ph, b, m)' <=> Yet(pos, ph, b, m)
  <1>1. Owner(b)' = Owner(b) /\ at'[Owner(b)] = at[Owner(b)] /\ my_boxes' = my_boxes
    BY DEF Alone, Owner
  <1> QED
    BY <1>1 DEF Yet, Box, Cursor

\* What a process that does not step relies on, when no list is changed that it looks at.
LEMMA OthersGoOn ==
  ASSUME Types, Types', NEW home, NEW pos, NEW succ, Lists(home, pos, succ),
         NEW p \in Proc, Alone(p), NEW q \in Proc, q # p,
         NEW away, NEW next,
         at[q].pc \in {"remove", "push", "link"} =>
           /\ place'[at[q].curr] = place[at[q].curr]
           /\ away[at[q].curr] = home[at[q].curr] /\ next[at[q].curr] = succ[at[q].curr],
         at[q].phase \in {2, 3} =>
           /\ list'[Box(q)] = list[Box(q)]
           /\ \A m \in Molecules : home[m] = Box(q) => away[m] = home[m] /\ next[m] = succ[m]
  PROVE  Moved(away, next, q)' /\ Looping(away, next, q)'
  <1>1. at'[q] = at[q] /\ my_boxes' = my_boxes /\ Box(q)' = Box(q) /\ Cursor(q)' = Cursor(q)
    BY DEF Alone, Box, Cursor
  <1>2. Moved(home, succ, q) /\ Looping(home, succ, q)
    BY DEF Lists
  <1>3. \A b : Owner(b)' = Owner(b)
    BY <1>1 DEF Owner
  <1>4. Moved(away, next, q)'
    <2>1. at[q].pc = "link" => Owner(at[q].to) \in Proc
      BY FieldTypes, Owned DEF Types
    <2>2. at[q].pc = "link" /\ Through(Owner(at[q].to), BNDRY) => Through(Owner(at[q].to), BNDRY)'
      BY <1>1, <1>3, <2>1, FieldTypes DEF Alone, Through, BNDRY, Types, Places
    <2> QED
      BY <1>1, <1>2, <1>3, <2>2 DEF Moved
  <1>5. Looping(away, next, q)'
    BY <1>1, <1>2, FieldTypes DEF Looping, BNDRY
  <1> QED BY <1>4, <1>5

-----------------------------------------------------------------------------
(* The steps that change no list.                                          *)

LEMMA Quiet ==
  ASSUME Types, Types', NEW home, NEW pos, NEW succ, Lists(home, pos, succ),
         NEW p \in Proc, Alone(p), UNCHANGED <<list, next_mol>>,
         at[p].pc \in {"enter", "loop"}, at'[p].pc \in {"enter", "loop", "remove"},
         \A q \in Proc : q # p /\ at[q].pc \in {"remove", "push", "link"} =>
           place'[at[q].curr] = place[at[q].curr],
         Moved(home, succ, p)', Looping(home, succ, p)', Counted(home, pos)', Settled(home, pos)'
  PROVE  Lists(home, pos, succ)'
  <1>1. Ghosts(home, pos, succ)' /\ Ordered(home, pos)' /\ Headed(list, home, pos)' /\ Linked(home, pos, succ)'
    BY DEF Lists, Ghosts, Ordered, Headed, Linked, First, In, After, Pointer
  <1>2. \A q \in Proc : at[q].pc \in {"push", "link"} \/ at'[q].pc \in {"push", "link"} => q # p /\ at'[q] = at[q]
    BY DEF Alone
  <1>3. Told(succ)'
    BY <1>2 DEF Lists, Told
  <1>4. MovedByOne' /\ LostBySome(home)'
    BY <1>2 DEF Lists, MovedByOne, LostBySome
  <1>5. \A q \in Proc : q # p => Moved(home, succ, q)' /\ Looping(home, succ, q)'
    BY OthersGoOn
  <1> QED
    BY <1>1, <1>3, <1>4, <1>5 DEF Lists

\* The loops of phases 2 and 3 are still to come to the same molecules.
LEMMA NothingPassed ==
  ASSUME Types, Types', NEW home, NEW pos, NEW succ, Lists(home, pos, succ),
         NEW p \in Proc, Alone(p), UNCHANGED <<corrected, place>>,
         \A m \in Molecules, ph \in {2, 3} :
           home[m] \in Boxes /\ Owner(home[m]) = p => (Yet(pos, ph, home[m], m)' <=> Yet(pos, ph, home[m], m))
  PROVE  Counted(home, pos)' /\ Settled(home, pos)'
  <1>1. \A m \in Molecules, ph \in {2, 3} :
          home[m] \in Boxes => (Yet(pos, ph, home[m], m)' <=> Yet(pos, ph, home[m], m))
    BY YetOfOthers, Owned DEF Types
  <1> QED
    BY <1>1 DEF Lists, Counted, Settled, BNDRY

LEMMA EnterLists ==
  ASSUME Types, Types', NEW home, NEW pos, NEW succ, Lists(home, pos, succ), NEW p \in Proc, Enter(p)
  PROVE  Lists(home, pos, succ)'
  <1>1. /\ at[p].phase <= 4 /\ at[p].pc = "enter" /\ my_boxes' = my_boxes
        /\ UNCHANGED <<list, next_mol, place, corrected>>
        /\ \A q \in Proc : q # p => at'[q] = at[q]
        /\ at'[p].phase = at[p].phase /\ at'[p].box = at[p].box /\ at'[p].pc = "loop"
        /\ at'[p].curr = list[Box(p)] /\ at'[p].last = Null
    BY WhereItIs DEF Enter, Pointers, Types, Places
  <1>2. Alone(p) /\ Box(p)' = Box(p)
    BY <1>1, FieldTypes DEF Alone, Box
  <1>3. Cursor(p)' = list[Box(p)] /\ Box(p) \in Boxes /\ Owner(Box(p)) = p
    BY <1>1, FieldTypes DEF Cursor
  <1>4. First(pos, list[Box(p)], In(home, Box(p)))
    BY <1>3 DEF Lists, Headed
  <1>5. Moved(home, succ, p)'
    BY <1>1 DEF Moved
  <1>6. Looping(home, succ, p)'
    BY <1>1, <1>2, <1>3, <1>4 DEF Looping, First, In
  <1>7. \A m \in Molecules, ph \in {2, 3} :
          home[m] \in Boxes /\ Owner(home[m]) = p => (Yet(pos, ph, home[m], m)' <=> Yet(pos, ph, home[m], m))
    <2> SUFFICES ASSUME NEW m \in Molecules, NEW ph \in {2, 3}, home[m] \in Boxes, Owner(home[m]) = p
                 PROVE  Yet(pos, ph, home[m], m)' <=> Yet(pos, ph, home[m], m)
      OBVIOUS
    <2>1. Owner(home[m])' = p
      BY <1>1 DEF Owner
    <2>2. Box(p) = home[m] => Cursor(p)' # Null /\ pos[Cursor(p)'] <= pos[m]
      BY <1>3, <1>4, WaterBoxesAssumption DEF First, In
    <2> QED
      BY <1>1, <1>2, <2>1, <2>2 DEF Yet
  <1> QED
    BY <1>1, <1>2, <1>5, <1>6, <1>7, Quiet, NothingPassed

LEMMA LeaveLists ==
  ASSUME Types, Types', NEW home, NEW pos, NEW succ, Lists(home, pos, succ), NEW p \in Proc, Leave(p)
  PROVE  Lists(home, pos, succ)'
  <1>1. /\ at[p].phase <= 4 /\ at[p].pc = "loop" /\ at[p].curr = Null /\ my_boxes' = my_boxes
        /\ UNCHANGED <<list, next_mol, place, corrected>>
        /\ \A q \in Proc : q # p => at'[q] = at[q]
        /\ at'[p].pc = "enter" /\ at'[p].last = Null
        /\ IF at[p].box < Len(my_boxes[p]) THEN at'[p].phase = at[p].phase /\ at'[p].box = at[p].box + 1
           ELSE at'[p].phase = at[p].phase + 1 /\ at'[p].box = 1
    BY WhereItIs DEF Leave, Pointers, Types, Places
  <1>2. at[p].phase \in 1 .. 4 /\ at[p].box \in 1 .. Len(my_boxes[p]) /\ Len(my_boxes[p]) \in Nat
        /\ DOMAIN my_boxes[p] = 1 .. Len(my_boxes[p])
    BY <1>1, FieldTypes, Owned DEF Types
  <1>3. Alone(p)
    BY <1>1, <1>2 DEF Alone
  <1>4. Moved(home, succ, p)' /\ Looping(home, succ, p)'
    BY <1>1 DEF Moved, Looping
  <1>5. \A m \in Molecules, ph \in {2, 3} :
          home[m] \in Boxes /\ Owner(home[m]) = p => (Yet(pos, ph, home[m], m)' <=> Yet(pos, ph, home[m], m))
    <2> SUFFICES ASSUME NEW m \in Molecules, NEW ph \in {2, 3}, home[m] \in Boxes, Owner(home[m]) = p
                 PROVE  Yet(pos, ph, home[m], m)' <=> Yet(pos, ph, home[m], m)
      OBVIOUS
    <2>1. Owner(home[m])' = p
      BY <1>1 DEF Owner
    <2>2. PICK i \in 1 .. Len(my_boxes[p]) : my_boxes[p][i] = home[m]
      BY <1>2, Owned DEF Types
    <2>3. \A j \in 1 .. Len(my_boxes[p]) : my_boxes[p][j] = home[m] => j = i
      BY <1>2, <2>2, Owned DEF Types
    <2>4. Yet(pos, ph, home[m], m) <=> at[p].phase < ph \/ (at[p].phase = ph /\ at[p].box < i)
      BY <1>1, <1>2, <2>2, <2>3 DEF Yet, Cursor
    <2>5. at'[p].box \in 1 .. Len(my_boxes[p]) /\ at'[p].phase \in Nat
      BY <1>1, <1>2
    <2>6. Box(p)' = my_boxes[p][at'[p].box] /\ (Box(p)' = home[m] <=> at'[p].box = i)
      BY <1>1, <2>2, <2>3, <2>5 DEF Box
    <2>7. (\E j \in DOMAIN my_boxes'[p] : my_boxes'[p][j] = home[m] /\ at'[p].box < j) <=> at'[p].box < i
      BY <1>1, <1>2, <2>2, <2>3
    <2>8. Yet(pos, ph, home[m], m)' <=> at'[p].phase < ph \/ (at'[p].phase = ph /\ at'[p].box <= i)
      BY <1>1, <2>1, <2>2, <2>5, <2>6, <2>7 DEF Yet
    <2> QED
      BY <1>1, <1>2, <2>2, <2>4, <2>8
  <1> QED
    BY <1>1, <1>3, <1>4, <1>5, Quiet, NothingPassed

LEMMA FollowLists ==
  ASSUME Types, Types', NEW home, NEW pos, NEW succ, Lists(home, pos, succ), NEW p \in Proc, Follow(p)
  PROVE  Lists(home, pos, succ)'
  <1>1. /\ at[p].phase \in {1, 4} /\ at[p].pc = "loop" /\ my_boxes' = my_boxes
        /\ UNCHANGED <<list, next_mol, place, corrected>>
        /\ \A q \in Proc : q # p => at'[q] = at[q]
        /\ at'[p].pc = "loop" /\ at'[p].phase = at[p].phase
    BY WhereItIs DEF Follow, Types, Places
  <1>2. Alone(p)
    BY <1>1 DEF Alone
  <1>3. Moved(home, succ, p)' /\ Looping(home, succ, p)'
    BY <1>1 DEF Moved, Looping
  <1>4. \A m \in Molecules, ph \in {2, 3} :
          home[m] \in Boxes /\ Owner(home[m]) = p => (Yet(pos, ph, home[m], m)' <=> Yet(pos, ph, home[m], m))
    <2> SUFFICES ASSUME NEW m \in Molecules, NEW ph \in {2, 3}, home[m] \in Boxes, Owner(home[m]) = p
                 PROVE  Yet(pos, ph, home[m], m)' <=> Yet(pos, ph, home[m], m)
      OBVIOUS
    <2>1. Owner(home[m])' = p
      BY <1>1 DEF Owner
    <2>2. at'[p].box = at[p].box
      BY WhereItIs DEF Follow, Types, Places
    <2> QED
      BY <1>1, <2>1, <2>2 DEF Yet
  <1> QED
    BY <1>1, <1>2, <1>3, <1>4, Quiet, NothingPassed

\* After molecule x the loop has the rest of the list before it, without x.
LEMMA Advance ==
  ASSUME NEW home, NEW pos, NEW succ, Ghosts(home, pos, succ), Ordered(home, pos), Linked(home, pos, succ),
         NEW x \in Molecules, home[x] \in Boxes
  PROVE  /\ succ[x] # Null => succ[x] \in Molecules /\ home[succ[x]] = home[x] /\ pos[x] < pos[succ[x]]
         /\ \A m \in Molecules : home[m] = home[x] =>
              (succ[x] # Null /\ pos[succ[x]] <= pos[m] <=> pos[x] <= pos[m] /\ m # x)
  <1>1. First(pos, succ[x], After(home, pos, x))
    BY DEF Linked
  <1>2. succ[x] # Null => succ[x] \in After(home, pos, x) /\ \A y \in After(home, pos, x) : pos[succ[x]] <= pos[y]
    BY <1>1 DEF First
  <1>3. \A y \in Molecules : pos[y] \in Int
    BY DEF Ghosts
  <1>4. \A m \in Molecules : home[m] = home[x] => (m \in After(home, pos, x) <=> pos[x] <= pos[m] /\ m # x)
    BY <1>3 DEF After, Ordered
  <1>5. succ[x] # Null => succ[x] \in Molecules /\ home[succ[x]] = home[x] /\ pos[x] < pos[succ[x]]
    BY <1>2 DEF After
  <1>6. \A m \in After(home, pos, x) : succ[x] # Null /\ pos[succ[x]] <= pos[m]
    BY <1>1, <1>2, WaterBoxesAssumption DEF First, After
  <1>7. ASSUME NEW m \in Molecules, home[m] = home[x], succ[x] # Null, pos[succ[x]] <= pos[m]
        PROVE  pos[x] <= pos[m] /\ m # x
    BY <1>3, <1>5, <1>7
  <1> QED
    BY <1>4, <1>5, <1>6, <1>7

LEMMA CorrectLists ==
  ASSUME Types, Types', NEW home, NEW pos, NEW succ, Lists(home, pos, succ), NEW p \in Proc, Correct(p)
  PROVE  Lists(home, pos, succ)'
  <1>1. /\ at[p].phase = 2 /\ at[p].pc = "loop" /\ at[p].curr # Null /\ my_boxes' = my_boxes
        /\ UNCHANGED <<list, next_mol>>
        /\ \A q \in Proc : q # p => at'[q] = at[q]
        /\ at'[p].pc = "loop" /\ at'[p].phase = 2 /\ at'[p].box = at[p].box
        /\ at'[p].curr = next_mol[at[p].curr]
    BY WhereItIs DEF Correct, Types, Places
  <1>2. PICK x \in Molecules : x = at[p].curr
    BY <1>1, FieldTypes
  <1>3. \A m \in Molecules : m # x => place'[m] = place[m] /\ corrected'[m] = corrected[m]
    BY <1>2 DEF Correct, Types
  <1>4. corrected'[x] = IF corrected[x] = 0 THEN 1 ELSE 2
    BY <1>2 DEF Correct, Types
  <1>5. Alone(p) /\ Box(p)' = Box(p) /\ Box(p) \in Boxes /\ Owner(Box(p)) = p
    BY <1>1, FieldTypes DEF Alone, Box
  <1>6. Cursor(p) = x /\ home[x] = Box(p)
    BY <1>1, <1>2, WaterBoxesAssumption DEF Lists, Looping, Cursor
  <1>7. Cursor(p)' = succ[x]
    BY <1>1, <1>2, <1>6, NextIsTold DEF Cursor
  <1>8. /\ succ[x] # Null => home[succ[x]] = Box(p)
        /\ \A m \in Molecules : home[m] = Box(p) =>
             (succ[x] # Null /\ pos[succ[x]] <= pos[m] <=> pos[x] <= pos[m] /\ m # x)
    BY <1>5, <1>6, Advance DEF Lists
  <1>9. Moved(home, succ, p)' /\ Looping(home, succ, p)'
    BY <1>1, <1>5, <1>7, <1>8 DEF Moved, Looping, BNDRY
  <1>10. \A q \in Proc : q # p /\ at[q].pc \in {"remove", "push", "link"} => place'[at[q].curr] = place[at[q].curr]
    BY <1>1, <1>2, <1>3, <1>6, NotTaken, FieldTypes
  <1>11. ASSUME NEW m \in Molecules, home[m] \in Boxes
         PROVE  /\ Yet(pos, 2, home[m], m)' <=> Yet(pos, 2, home[m], m) /\ m # x
                /\ Yet(pos, 3, home[m], m)' <=> Yet(pos, 3, home[m], m)
    <2>1. CASE Owner(home[m]) # p
      BY <1>5, <1>6, <1>11, <2>1, YetOfOthers, Owned DEF Types
    <2>2. CASE Owner(home[m]) = p
      <3>1. Owner(home[m])' = p
        BY <1>1, <2>2 DEF Owner
      <3>2. (\E i \in DOMAIN my_boxes[p] : my_boxes[p][i] = home[m] /\ at[p].box < i) => home[m] # Box(p)
        <4>1. at[p].box \in Nat /\ at[p].box \in DOMAIN my_boxes[p] /\ Box(p) = my_boxes[p][at[p].box]
          BY <1>1, FieldTypes
        <4>2. \A i \in DOMAIN my_boxes[p] : my_boxes[p][i] = Box(p) => i = at[p].box
          BY <4>1, Owned DEF Types
        <4> QED BY <4>1, <4>2
      <3>3. pos[x] \in Int /\ x # Null
        BY WaterBoxesAssumption DEF Lists, Ghosts
      <3> QED
        BY <1>1, <1>5, <1>6, <1>7, <1>8, <2>2, <3>1, <3>2, <3>3 DEF Yet
    <2> QED BY <2>1, <2>2
  <1>12. Yet(pos, 2, home[x], x)
    <2>1. x # Null /\ pos[x] <= pos[x]
      BY WaterBoxesAssumption DEF Lists, Ghosts
    <2> QED
      BY <1>1, <1>5, <1>6, <2>1 DEF Yet
  <1>13. Counted(home, pos)'
    BY <1>3, <1>4, <1>5, <1>6, <1>11, <1>12 DEF Lists, Counted
  <1>14. Settled(home, pos)'
    <2>1. Yet(pos, 3, home[x], x)
      BY <1>1, <1>5, <1>6 DEF Yet
    <2> QED
      BY <1>3, <1>11, <2>1 DEF Lists, Settled, BNDRY
  <1> QED
    BY <1>1, <1>5, <1>9, <1>10, <1>13, <1>14, Quiet

LEMMA StayLists ==
  ASSUME Types, Types', NEW home, NEW pos, NEW succ, Lists(home, pos, succ), NEW p \in Proc, Stay(p)
  PROVE  Lists(home, pos, succ)'
  <1>1. /\ at[p].phase = 3 /\ at[p].pc = "loop" /\ at[p].curr # Null /\ my_boxes' = my_boxes
        /\ UNCHANGED <<list, next_mol, place, corrected>>
        /\ place[at[p].curr] = Box(p)
        /\ \A q \in Proc : q # p => at'[q] = at[q]
        /\ at'[p].pc = "loop" /\ at'[p].phase = 3 /\ at'[p].box = at[p].box
        /\ at'[p].curr = next_mol[at[p].curr] /\ at'[p].last = at[p].curr
    BY WhereItIs DEF Stay, Pointers, Types, Places, BNDRY
  <1>2. PICK x \in Molecules : x = at[p].curr
    BY <1>1, FieldTypes
  <1>3. Alone(p) /\ Box(p)' = Box(p) /\ Box(p) \in Boxes /\ Owner(Box(p)) = p
    BY <1>1, FieldTypes DEF Alone, Box
  <1>4. Cursor(p) = x /\ home[x] = Box(p) /\ x # Null
    BY <1>1, <1>2, WaterBoxesAssumption DEF Lists, Looping, Cursor
  <1>5. Cursor(p)' = succ[x]
    BY <1>1, <1>2, <1>4, NextIsTold DEF Cursor
  <1>6. /\ succ[x] # Null => home[succ[x]] = Box(p)
        /\ \A m \in Molecules : home[m] = Box(p) =>
             (succ[x] # Null /\ pos[succ[x]] <= pos[m] <=> pos[x] <= pos[m] /\ m # x)
    BY <1>3, <1>4, Advance DEF Lists
  <1>7. Moved(home, succ, p)' /\ Looping(home, succ, p)'
    BY <1>1, <1>2, <1>3, <1>4, <1>5, <1>6 DEF Moved, Looping
  <1>8. ASSUME NEW m \in Molecules, home[m] \in Boxes
        PROVE  /\ Yet(pos, 2, home[m], m)' <=> Yet(pos, 2, home[m], m)
               /\ Yet(pos, 3, home[m], m) /\ m # x => Yet(pos, 3, home[m], m)'
    <2>1. CASE Owner(home[m]) # p
      BY <1>3, <1>8, <2>1, YetOfOthers, Owned DEF Types
    <2>2. CASE Owner(home[m]) = p
      <3>1. Owner(home[m])' = p
        BY <1>1, <2>2 DEF Owner
      <3> QED
        BY <1>1, <1>3, <1>4, <1>5, <1>6, <2>2, <3>1 DEF Yet
    <2> QED BY <2>1, <2>2
  <1>9. Counted(home, pos)' /\ Settled(home, pos)'
    BY <1>1, <1>2, <1>4, <1>8 DEF Lists, Counted, Settled, BNDRY
  <1> QED
    BY <1>1, <1>3, <1>7, <1>9, Quiet

LEMMA MoveLists ==
  ASSUME Types, Types', NEW home, NEW pos, NEW succ, Lists(home, pos, succ), NEW p \in Proc, Move(p)
  PROVE  Lists(home, pos, succ)'
  <1>1. /\ at[p].phase = 3 /\ at[p].pc = "loop" /\ at[p].curr # Null /\ my_boxes' = my_boxes
        /\ UNCHANGED <<list, next_mol, place, corrected>>
        /\ place[at[p].curr] # Box(p)
        /\ \A q \in Proc : q # p => at'[q] = at[q]
        /\ at'[p].pc = "remove" /\ at'[p].phase = 3 /\ at'[p].box = at[p].box
        /\ at'[p].curr = at[p].curr /\ at'[p].last = at[p].last
        /\ at'[p].next = next_mol[at[p].curr] /\ at'[p].to = place[at[p].curr]
    BY WhereItIs DEF Move, Types, Places, BNDRY
  <1>2. at[p].curr \in Molecules
    BY <1>1, FieldTypes
  <1>3. Alone(p) /\ Box(p)' = Box(p) /\ Cursor(p)' = Cursor(p) /\ Cursor(p) = at[p].curr
    BY <1>1, FieldTypes DEF Alone, Box, Cursor
  <1>4. home[at[p].curr] = Box(p)
    BY <1>1, <1>3 DEF Lists, Looping
  <1>5. next_mol[at[p].curr] = succ[at[p].curr]
    BY <1>1, <1>2, <1>4, NextIsTold
  <1>6. Moved(home, succ, p)'
    BY <1>1, <1>3, <1>5 DEF Moved
  <1>7. Looping(home, succ, p)'
    BY <1>1, <1>3, <1>4 DEF Lists, Looping, BNDRY
  <1>8. \A m \in Molecules, ph \in {2, 3} :
          home[m] \in Boxes /\ Owner(home[m]) = p => (Yet(pos, ph, home[m], m)' <=> Yet(pos, ph, home[m], m))
    <2> SUFFICES ASSUME NEW m \in Molecules, NEW ph \in {2, 3}, home[m] \in Boxes, Owner(home[m]) = p
                 PROVE  Yet(pos, ph, home[m], m)' <=> Yet(pos, ph, home[m], m)
      OBVIOUS
    <2>1. Owner(home[m])' = p
      BY <1>1 DEF Owner
    <2> QED
      BY <1>1, <1>3, <2>1 DEF Yet
  <1> QED
    BY <1>1, <1>3, <1>6, <1>7, <1>8, Quiet, NothingPassed

-----------------------------------------------------------------------------
(* The steps of BNDRY that change a list.                                  *)

LEMMA RemoveLists ==
  ASSUME Types, Types', NEW home, NEW pos, NEW succ, Lists(home, pos, succ), NEW p \in Proc, Remove(p)
  PROVE  \E away, next : Lists(away, pos, next)'
  <1>1. /\ at[p].phase = 3 /\ at[p].pc = "remove" /\ my_boxes' = my_boxes
        /\ UNCHANGED <<place, corrected>>
        /\ \A q \in Proc : q # p => at'[q] = at[q]
        /\ at'[p].pc = "push" /\ at'[p].phase = 3 /\ at'[p].box = at[p].box
        /\ at'[p].curr = at[p].curr /\ at'[p].last = at[p].last /\ at'[p].next = at[p].next /\ at'[p].to = at[p].to
    BY WhereItIs DEF Remove, Types, Places, BNDRY
  <1>2. PICK x \in Molecules : x = at[p].curr
    BY <1>1, FieldTypes
  <1>3. PICK b \in Boxes : b = Box(p)
    BY <1>1, FieldTypes
  <1>4. PICK l : l = at[p].last /\ (l # Null => l \in Molecules)
    BY FieldTypes
  <1>5. Alone(p) /\ Box(p)' = b /\ Owner(b) = p
    BY <1>1, <1>3, FieldTypes DEF Alone, Box
  <1>6. Cursor(p) = x /\ home[x] = b /\ x # Null
    BY <1>1, <1>2, <1>3, WaterBoxesAssumption DEF Lists, Looping, Cursor
  <1>7. next_mol[x] = succ[x] /\ at[p].next = succ[x] /\ at[p].to = place[x] /\ at[p].to # b
    BY <1>1, <1>2, <1>3, <1>6, NextIsTold DEF Lists, Moved
  <1>8. Cursor(p)' = succ[x]
    BY <1>1, <1>7 DEF Cursor
  <1>9. /\ succ[x] # Null => succ[x] \in Molecules /\ home[succ[x]] = b /\ succ[x] # x
        /\ \A m \in Molecules : home[m] = b =>
             (succ[x] # Null /\ pos[succ[x]] <= pos[m] <=> pos[x] <= pos[m] /\ m # x)
    <2>1. \A m \in Molecules : pos[m] \in Int
      BY DEF Lists, Ghosts
    <2> QED
      BY <1>6, <2>1, Advance DEF Lists
  <1>10. IF l = Null THEN list[b] = x ELSE home[l] = b /\ succ[l] = x
    BY <1>1, <1>3, <1>4, <1>6 DEF Lists, Looping, BNDRY
  <1>11. PICK away : away = [home EXCEPT ![x] = Nowhere]
    OBVIOUS
  <1>12. PICK next : next = IF l = Null THEN succ ELSE [succ EXCEPT ![l] = succ[x]]
    OBVIOUS
  <1>13. /\ list' = IF l = Null THEN [list EXCEPT ![b] = succ[x]] ELSE list
         /\ next_mol' = IF l = Null THEN next_mol ELSE [next_mol EXCEPT ![l] = succ[x]]
    BY <1>2, <1>3, <1>4, <1>7 DEF Remove
  <1>14. list \in [Boxes -> Pointer] /\ next_mol \in [Molecules -> Pointer] /\ home \in [Molecules -> Boxes \cup {Nowhere}]
         /\ pos \in [Molecules -> Int] /\ succ \in [Molecules -> Pointer]
    BY DEF Types, Lists, Ghosts
  <1>15. /\ Ghosts(away, pos, next) /\ Ordered(away, pos)
         /\ Headed(list', away, pos) /\ Linked(away, pos, next)
    <2>1. CASE l = Null
      BY <1>6, <1>10, <1>11, <1>12, <1>13, <1>14, <2>1, UnlinkedFirst DEF Lists
    <2>2. CASE l # Null
      BY <1>4, <1>6, <1>10, <1>11, <1>12, <1>13, <1>14, <2>2, Unlinked DEF Lists
    <2> QED BY <2>1, <2>2
  <1>16. \A m \in Molecules : away[m] = IF m = x THEN Nowhere ELSE home[m]
    BY <1>11, <1>14
  <1>17. l # x /\ (l # Null => next[l] = succ[x] /\ next_mol'[l] = succ[x] /\ home[l] = b)
    BY <1>4, <1>6, <1>9, <1>10, <1>12, <1>13, <1>14, Advance DEF Lists
  <1>18. \A m \in Molecules : m # l => next[m] = succ[m] /\ next_mol'[m] = next_mol[m]
    BY <1>4, <1>12, <1>13, <1>14
  <1>19. \A q \in Proc : q # p /\ at[q].pc \in {"remove", "push", "link"} => at[q].curr # x /\ at[q].curr # l
    BY <1>1, <1>3, <1>4, <1>6, <1>17, NotTaken, FieldTypes, WaterBoxesAssumption
  <1> HIDE <1>11, <1>12
  <1>20. Told(next)'
    <2> SUFFICES ASSUME NEW m \in Molecules, \A q \in Proc : at'[q].pc = "link" => at'[q].curr # m
                 PROVE  next_mol'[m] = next[m]
      BY DEF Told
    <2>1. \A q \in Proc : at[q].pc = "link" => at[q].curr # m
      BY <1>1
    <2>2. next_mol[m] = succ[m]
      BY <2>1 DEF Lists, Told
    <2> QED
      BY <1>4, <1>17, <1>18, <2>2, WaterBoxesAssumption
  <1>21. Moved(away, next, p)' /\ Looping(away, next, p)'
    <2>1. Moved(away, next, p)'
      BY <1>1, <1>2, <1>5, <1>7, <1>16 DEF Moved
    <2>2. l = Null => list'[b] = succ[x]
      BY <1>13, <1>14
    <2>3. Looping(away, next, p)'
      BY <1>1, <1>4, <1>5, <1>8, <1>9, <1>16, <1>17, <2>2 DEF Looping
    <2> QED BY <2>1, <2>3
  <1>22. \A q \in Proc : q # p => Moved(away, next, q)' /\ Looping(away, next, q)'
    <2> SUFFICES ASSUME NEW q \in Proc, q # p
                 PROVE  Moved(away, next, q)' /\ Looping(away, next, q)'
      OBVIOUS
    <2>1. at[q].pc \in {"remove", "push", "link"} =>
            /\ place'[at[q].curr] = place[at[q].curr]
            /\ away[at[q].curr] = home[at[q].curr] /\ next[at[q].curr] = succ[at[q].curr]
      BY <1>1, <1>16, <1>18, <1>19, FieldTypes
    <2>2. at[q].phase \in {2, 3} => Box(q) \in Boxes /\ Box(q) # b
      BY <1>5, FieldTypes
    <2>3. at[q].phase \in {2, 3} =>
            /\ list'[Box(q)] = list[Box(q)]
            /\ \A m \in Molecules : home[m] = Box(q) => away[m] = home[m] /\ next[m] = succ[m]
      <3>1. \A c \in Boxes : c # b => list'[c] = list[c]
        BY <1>13, <1>14
      <3>2. \A m \in Molecules : home[m] # b => m # x /\ m # l
        BY <1>4, <1>6, <1>10, WaterBoxesAssumption
      <3> QED
        BY <1>16, <1>18, <2>2, <3>1, <3>2
    <2> QED
      BY <1>5, <2>1, <2>3, OthersGoOn
  <1>23. MovedByOne'
    BY <1>1, <1>2, <1>19 DEF Lists, MovedByOne
  <1>24. LostBySome(away)'
    BY <1>1, <1>2, <1>16 DEF Lists, LostBySome
  <1>25. ASSUME NEW m \in Molecules, m # x, home[m] \in Boxes
         PROVE  \A ph \in {2, 3} : Yet(pos, ph, home[m], m)' <=> Yet(pos, ph, home[m], m)
    <2>1. CASE Owner(home[m]) # p
      BY <1>5, <1>25, <2>1, YetOfOthers, Owned DEF Types
    <2>2. CASE Owner(home[m]) = p
      <3>1. Owner(home[m])' = p
        BY <1>1, <2>2 DEF Owner
      <3> QED
        BY <1>1, <1>3, <1>5, <1>6, <1>8, <1>9, <1>25, <2>2, <3>1 DEF Yet
    <2> QED BY <2>1, <2>2
  <1>26. corrected[x] = 1
    <2>1. ~Yet(pos, 2, home[x], x)
      BY <1>1, <1>5, <1>6 DEF Yet
    <2> QED
      BY <1>6, <2>1 DEF Lists, Counted
  <1>27. Counted(away, pos)' /\ Settled(away, pos)'
    BY <1>1, <1>16, <1>25, <1>26, NowhereIsNoBox DEF Lists, Counted, Settled, BNDRY
  <1>28. Lists(away, pos, next)'
    BY <1>15, <1>20, <1>21, <1>22, <1>23, <1>24, <1>27 DEF Lists, Ghosts, Ordered, Headed, Linked
  <1> QED
    BY <1>28

LEMMA PushLists ==
  ASSUME Types, Types', ~early', NEW home, NEW pos, NEW succ, Lists(home, pos, succ), NEW p \in Proc, Push(p)
  PROVE  \E here, front, next : Lists(here, front, next)'
  <1>1. /\ at[p].phase = 3 /\ at[p].pc = "push" /\ my_boxes' = my_boxes
        /\ UNCHANGED <<next_mol, place, corrected>>
        /\ \A q \in Proc : q # p => at'[q] = at[q]
        /\ at'[p].pc = "link" /\ at'[p].phase = 3 /\ at'[p].box = at[p].box
        /\ at'[p].curr = at[p].curr /\ at'[p].last = at[p].last /\ at'[p].next = at[p].next /\ at'[p].to = at[p].to
        /\ at'[p].temp = list[at[p].to]
        /\ Owner(at[p].to) = p \/ Through(Owner(at[p].to), BNDRY)
    BY WhereItIs DEF Push, Types, Places, BNDRY
  <1>2. PICK x \in Molecules : x = at[p].curr
    BY <1>1, FieldTypes
  <1>3. PICK b \in Boxes : b = at[p].to
    BY <1>1, FieldTypes
  <1>4. Alone(p) /\ Box(p)' = Box(p) /\ Cursor(p)' = Cursor(p) /\ Box(p) \in Boxes /\ Owner(Box(p)) = p
    BY <1>1, FieldTypes DEF Alone, Box, Cursor
  <1>5. home[x] = Nowhere /\ place[x] = b /\ b # Box(p)
    BY <1>1, <1>2, <1>3 DEF Lists, Moved
  <1>6. PICK here : here = [home EXCEPT ![x] = b]
    OBVIOUS
  <1>7. PICK front : front = [pos EXCEPT ![x] = IF list[b] = Null THEN 0 ELSE pos[list[b]] - 1]
    OBVIOUS
  <1>8. PICK next : next = [succ EXCEPT ![x] = list[b]]
    OBVIOUS
  <1>9. list' = [list EXCEPT ![b] = x]
    BY <1>2, <1>3 DEF Push
  <1>10. list \in [Boxes -> Pointer] /\ home \in [Molecules -> Boxes \cup {Nowhere}]
         /\ pos \in [Molecules -> Int] /\ succ \in [Molecules -> Pointer]
    BY DEF Types, Lists, Ghosts
  <1>11. /\ Ghosts(here, front, next) /\ Ordered(here, front)
         /\ Headed(list', here, front) /\ Linked(here, front, next)
    BY <1>5, <1>6, <1>7, <1>8, <1>9, <1>10, LinkedFirst DEF Lists
  <1>12. \A m \in Molecules : /\ here[m] = IF m = x THEN b ELSE home[m]
                              /\ next[m] = IF m = x THEN list[b] ELSE succ[m]
                              /\ m # x => front[m] = pos[m]
    BY <1>6, <1>7, <1>8, <1>10
  <1> HIDE <1>6, <1>7, <1>8
  <1>13. \A q \in Proc : q # p /\ at[q].pc \in {"remove", "push", "link"} => at[q].curr # x
    <2> SUFFICES ASSUME NEW q \in Proc, q # p, at[q].pc \in {"remove", "push", "link"} PROVE at[q].curr # x
      OBVIOUS
    <2>1. CASE at[q].pc = "remove"
      <3>1. at[q].phase = 3 /\ Box(q) \in Boxes /\ at[q].curr # Null
        BY <2>1, FieldTypes
      <3> QED
        BY <1>5, <2>1, <3>1, NowhereIsNoBox DEF Lists, Looping, Cursor
    <2>2. CASE at[q].pc \in {"push", "link"}
      BY <1>1, <1>2, <2>2 DEF Lists, MovedByOne
    <2> QED BY <2>1, <2>2
  <1>14. Told(next)'
    <2> SUFFICES ASSUME NEW m \in Molecules, \A q \in Proc : at'[q].pc = "link" => at'[q].curr # m
                 PROVE  next_mol'[m] = next[m]
      BY DEF Told
    <2>1. m # x
      BY <1>1, <1>2
    <2>2. \A q \in Proc : at[q].pc = "link" => at[q].curr # m
      BY <1>1
    <2> QED
      BY <1>1, <1>12, <2>1, <2>2 DEF Lists, Told
  <1>15. \A c : Owner(c)' = Owner(c)
    BY <1>1 DEF Owner
  <1>16. Moved(here, next, p)'
    <2>1. Owner(b) \in Proc
      BY Owned DEF Types
    <2>2. Owner(b) = p \/ Through(Owner(b), BNDRY)'
      BY <1>1, <1>3, <1>15, <2>1 DEF Through
    <2> QED
      BY <1>1, <1>2, <1>3, <1>4, <1>5, <1>12, <1>15, <2>2 DEF Moved
  <1>17. Looping(here, next, p)'
    <2>1. \A m \in Molecules : home[m] = Box(p) => here[m] = Box(p) /\ next[m] = succ[m]
      BY <1>4, <1>5, <1>12, NowhereIsNoBox
    <2>2. list'[Box(p)] = list[Box(p)]
      BY <1>4, <1>5, <1>9, <1>10
    <2>3. Looping(home, succ, p)
      BY DEF Lists
    <2> QED
      BY <1>1, <1>4, <2>1, <2>2, <2>3, FieldTypes DEF Looping, BNDRY
  <1>18. \A q \in Proc : q # p => Moved(here, next, q)' /\ Looping(here, next, q)'
    <2> SUFFICES ASSUME NEW q \in Proc, q # p
                 PROVE  Moved(here, next, q)' /\ Looping(here, next, q)'
      OBVIOUS
    <2>1. at[q].pc \in {"remove", "push", "link"} =>
            /\ place'[at[q].curr] = place[at[q].curr]
            /\ here[at[q].curr] = home[at[q].curr] /\ next[at[q].curr] = succ[at[q].curr]
      BY <1>1, <1>12, <1>13, FieldTypes
    <2>2. at[q].phase \in {2, 3} => Box(q) \in Boxes /\ Box(q) # b
      BY <1>1, <1>3, FieldTypes DEF Through, BNDRY
    <2>3. \A m \in Molecules : home[m] \in Boxes => m # x
      BY <1>5, NowhereIsNoBox
    <2>4. at[q].phase \in {2, 3} =>
            /\ list'[Box(q)] = list[Box(q)]
            /\ \A m \in Molecules : home[m] = Box(q) => here[m] = home[m] /\ next[m] = succ[m]
      BY <1>9, <1>10, <1>12, <2>2, <2>3
    <2> QED
      BY <1>4, <2>1, <2>4, OthersGoOn
  <1>19. MovedByOne' /\ LostBySome(here)'
    <2>1. MovedByOne'
      BY <1>1, <1>2, <1>13 DEF Lists, MovedByOne
    <2>2. \A m \in Molecules : here[m] \notin Boxes => m # x /\ here[m] = home[m]
      BY <1>12
    <2>3. LostBySome(here)'
      BY <1>1, <1>2, <2>2 DEF Lists, LostBySome
    <2> QED BY <2>1, <2>3
  <1>20. ASSUME NEW m \in Molecules, m # x, home[m] \in Boxes
         PROVE  \A ph \in {2, 3} : Yet(front, ph, home[m], m)' <=> Yet(pos, ph, home[m], m)
    <2> SUFFICES ASSUME NEW ph \in {2, 3}
                 PROVE  Yet(front, ph, home[m], m)' <=> Yet(pos, ph, home[m], m)
      OBVIOUS
    <2>1. front[m] = pos[m] /\ Owner(home[m]) \in Proc
      BY <1>12, <1>20, Owned DEF Types
    <2>2. at'[Owner(home[m])].phase = at[Owner(home[m])].phase /\ at'[Owner(home[m])].box = at[Owner(home[m])].box
          /\ Box(Owner(home[m]))' = Box(Owner(home[m])) /\ Cursor(Owner(home[m]))' = Cursor(Owner(home[m]))
          /\ (at'[Owner(home[m])].pc = "enter" <=> at[Owner(home[m])].pc = "enter")
      BY <1>1, <1>4, <1>15, <2>1 DEF Box, Cursor
    <2>3. at[Owner(home[m])].phase = ph /\ Box(Owner(home[m])) = home[m] /\ at[Owner(home[m])].pc # "enter"
            /\ Cursor(Owner(home[m])) # Null
          => front[Cursor(Owner(home[m]))] = pos[Cursor(Owner(home[m]))]
      <3> SUFFICES ASSUME at[Owner(home[m])].phase = ph, Box(Owner(home[m])) = home[m],
                          at[Owner(home[m])].pc # "enter", Cursor(Owner(home[m])) # Null
                   PROVE  front[Cursor(Owner(home[m]))] = pos[Cursor(Owner(home[m]))]
        OBVIOUS
      <3>1. home[Cursor(Owner(home[m]))] = home[m] /\ Cursor(Owner(home[m])) \in Molecules
        BY <2>1, FieldTypes DEF Lists, Looping
      <3> QED
        BY <1>5, <1>12, <1>20, <3>1, NowhereIsNoBox
    <2> QED
      BY <1>1, <1>15, <2>1, <2>2, <2>3 DEF Yet
  <1>21. corrected[x] = 1 /\ ~Yet(front, 2, b, x)'
    <2>1. corrected[x] = 1
      BY <1>5, NowhereIsNoBox DEF Lists, Counted
    <2>2. Owner(b) \in Proc /\ at[Owner(b)].phase >= 3 /\ at'[Owner(b)].phase = at[Owner(b)].phase /\ at[Owner(b)].phase \in 1 .. 5
      BY <1>1, <1>3, Owned, FieldTypes DEF Types, Through, BNDRY
    <2>3. ~Yet(front, 2, b, x)'
      BY <1>15, <2>2 DEF Yet
    <2> QED BY <2>1, <2>3
  <1>22. Counted(here, front)'
    BY <1>1, <1>12, <1>20, <1>21 DEF Lists, Counted
  <1>23. Settled(here, front)'
    BY <1>1, <1>5, <1>12, <1>20 DEF Lists, Settled, BNDRY
  <1>24. Lists(here, front, next)'
    BY <1>11, <1>14, <1>16, <1>17, <1>18, <1>19, <1>22, <1>23 DEF Lists, Ghosts, Ordered, Headed, Linked
  <1> QED
    BY <1>24

LEMMA LinkLists ==
  ASSUME Types, Types', NEW home, NEW pos, NEW succ, Lists(home, pos, succ), NEW p \in Proc, Link(p)
  PROVE  Lists(home, pos, succ)'
  <1>1. /\ at[p].phase = 3 /\ at[p].pc = "link" /\ my_boxes' = my_boxes
        /\ UNCHANGED <<list, place, corrected>>
        /\ \A q \in Proc : q # p => at'[q] = at[q]
        /\ at'[p].pc = "loop" /\ at'[p].phase = 3 /\ at'[p].box = at[p].box
        /\ at'[p].curr = at[p].next /\ at'[p].last = at[p].last
        /\ next_mol' = [next_mol EXCEPT ![at[p].curr] = at[p].temp]
    BY WhereItIs DEF Link, Pointers, Types, Places, BNDRY
  <1>2. at[p].curr \in Molecules /\ succ[at[p].curr] = at[p].temp
    BY <1>1, FieldTypes DEF Lists, Moved
  <1>3. Alone(p) /\ Box(p)' = Box(p) /\ Cursor(p)' = Cursor(p)
    BY <1>1, FieldTypes DEF Alone, Box, Cursor
  <1>4. Ghosts(home, pos, succ)' /\ Ordered(home, pos)' /\ Headed(list, home, pos)' /\ Linked(home, pos, succ)'
    BY <1>1 DEF Lists, Ghosts, Ordered, Headed, Linked
  <1>5. Told(succ)'
    <2> SUFFICES ASSUME NEW m \in Molecules, \A q \in Proc : at'[q].pc = "link" => at'[q].curr # m
                 PROVE  next_mol'[m] = succ[m]
      BY DEF Told
    <2>1. next_mol \in [Molecules -> Pointer]
      BY DEF Types
    <2>2. CASE m = at[p].curr
      BY <1>1, <1>2, <2>1, <2>2
    <2>3. CASE m # at[p].curr
      BY <1>1, <1>2, <2>1, <2>3 DEF Lists, Told
    <2> QED BY <2>2, <2>3
  <1>6. Moved(home, succ, p)' /\ Looping(home, succ, p)'
    BY <1>1, <1>3 DEF Lists, Moved, Looping
  <1>7. \A q \in Proc : q # p => Moved(home, succ, q)' /\ Looping(home, succ, q)'
    BY <1>1, <1>3, OthersGoOn
  <1>8. MovedByOne' /\ LostBySome(home)'
    BY <1>1 DEF Lists, MovedByOne, LostBySome
  <1>9. \A m \in Molecules, ph \in {2, 3} :
          home[m] \in Boxes /\ Owner(home[m]) = p => (Yet(pos, ph, home[m], m)' <=> Yet(pos, ph, home[m], m))
    <2> SUFFICES ASSUME NEW m \in Molecules, NEW ph \in {2, 3}, home[m] \in Boxes, Owner(home[m]) = p
                 PROVE  Yet(pos, ph, home[m], m)' <=> Yet(pos, ph, home[m], m)
      OBVIOUS
    <2>1. Owner(home[m])' = p
      BY <1>1 DEF Owner
    <2> QED
      BY <1>1, <1>3, <2>1 DEF Yet
  <1>10. Counted(home, pos)' /\ Settled(home, pos)'
    BY <1>1, <1>3, <1>9, NothingPassed
  <1> QED
    BY <1>4, <1>5, <1>6, <1>7, <1>8, <1>10 DEF Lists

-----------------------------------------------------------------------------
(* The beginning.                                                          *)

\* The lists that INITIA makes are in the order in which it puts the molecules.
LEMMA ArrangedLists ==
  ASSUME NEW N \in Nat, NEW order \in [1 .. N -> Molecules], NEW where \in [Molecules -> Boxes],
         \A i, j \in 1 .. N : order[i] = order[j] => i = j,
         \A m \in Molecules : \E i \in 1 .. N : order[i] = m,
         Arranged(order, where)
  PROVE  /\ list \in [Boxes -> Pointer] /\ next_mol \in [Molecules -> Pointer]
         /\ \E pos : /\ Ghosts(where, pos, next_mol) /\ Ordered(where, pos)
                     /\ Headed(list, where, pos) /\ Linked(where, pos, next_mol)
  <1> DEFINE D        == 1 .. N
             num(m)   == CHOOSE i \in D : order[i] = m
             after(i) == {j \in D : j > i /\ where[order[j]] = where[order[i]]}
             first(S) == CHOOSE j \in S : \A k \in S : j <= k
             of(b)    == {j \in D : where[order[j]] = b}
             pos      == [m \in Molecules |-> num(m)]
  <1>1. \A m \in Molecules : num(m) \in D /\ order[num(m)] = m /\ pos[m] = num(m)
    OBVIOUS
  <1>2. \A i \in D : order[i] \in Molecules /\ num(order[i]) = i /\ i \in Int
    BY <1>1
  <1>3. ASSUME NEW S \in SUBSET D, S # {}
        PROVE  first(S) \in S /\ \A k \in S : first(S) <= k
    <2> DEFINE f == [k \in S |-> k]
    <2>1. f \in [S -> Nat]
      OBVIOUS
    <2>2. \E x \in S : \A y \in S : f[x] <= f[y]
      BY <1>3, <2>1, Least
    <2>3. \E x \in S : \A y \in S : x <= y
      BY <2>2
    <2> QED BY <2>3
  <1>4. /\ list = [b \in Boxes |-> IF of(b) = {} THEN Null ELSE order[first(of(b))]]
        /\ next_mol = [m \in Molecules |-> IF after(num(m)) = {} THEN Null ELSE order[first(after(num(m)))]]
    BY DEF Arranged
  <1> HIDE DEF num, first
  <1>5. \A b \in Boxes : of(b) # {} => first(of(b)) \in of(b) /\ \A k \in of(b) : first(of(b)) <= k
    BY <1>3
  <1>6. \A m \in Molecules : after(num(m)) # {} =>
          first(after(num(m))) \in after(num(m)) /\ \A k \in after(num(m)) : first(after(num(m))) <= k
    BY <1>3
  <1>7. list \in [Boxes -> Pointer] /\ next_mol \in [Molecules -> Pointer]
    BY <1>2, <1>4, <1>5, <1>6 DEF Pointer
  <1>8. Ghosts(where, pos, next_mol) /\ Ordered(where, pos)
    BY <1>1, <1>7 DEF Ghosts, Ordered
  <1>9. Headed(list, where, pos)
    <2> SUFFICES ASSUME NEW b \in Boxes PROVE First(pos, list[b], In(where, b))
      BY DEF Headed
    <2>1. CASE of(b) = {}
      <3>1. In(where, b) = {}
        BY <1>1, <2>1 DEF In
      <3> QED BY <1>4, <2>1, <3>1 DEF First
    <2>2. CASE of(b) # {}
      <3>1. list[b] = order[first(of(b))] /\ first(of(b)) \in D /\ where[list[b]] = b
        BY <1>4, <1>5, <2>2
      <3>2. list[b] \in In(where, b) /\ pos[list[b]] = first(of(b))
        BY <1>1, <1>2, <3>1 DEF In
      <3>3. \A y \in In(where, b) : pos[y] \in of(b)
        BY <1>1 DEF In
      <3>4. \A k \in of(b) : first(of(b)) <= k
        BY <1>5, <2>2
      <3> HIDE DEF of, pos
      <3>5. \A y \in In(where, b) : pos[list[b]] <= pos[y]
        BY <3>2, <3>3, <3>4
      <3> QED BY <3>2, <3>5 DEF First
    <2> QED BY <2>1, <2>2
  <1>10. Linked(where, pos, next_mol)
    <2> SUFFICES ASSUME NEW m \in Molecules PROVE First(pos, next_mol[m], After(where, pos, m))
      BY DEF Linked
    <2>1. \A y \in Molecules : y \in After(where, pos, m) <=> num(y) \in after(num(m))
      BY <1>1, <1>2 DEF After
    <2>2. CASE after(num(m)) = {}
      <3>1. After(where, pos, m) = {}
        BY <2>1, <2>2 DEF After
      <3> QED BY <1>4, <2>2, <3>1 DEF First
    <2>3. CASE after(num(m)) # {}
      <3>1. next_mol[m] = order[first(after(num(m)))] /\ first(after(num(m))) \in D
        BY <1>4, <1>6, <2>3
      <3>2. next_mol[m] \in Molecules /\ num(next_mol[m]) = first(after(num(m)))
        BY <1>2, <3>1
      <3>3. next_mol[m] \in After(where, pos, m) /\ pos[next_mol[m]] = first(after(num(m)))
        BY <1>1, <1>6, <2>1, <2>3, <3>2
      <3>4. \A y \in After(where, pos, m) : y \in Molecules /\ pos[y] \in after(num(m))
        BY <1>1, <2>1 DEF After
      <3>5. \A k \in after(num(m)) : first(after(num(m))) <= k
        BY <1>6, <2>3
      <3> HIDE DEF after, pos
      <3>6. \A y \in After(where, pos, m) : pos[next_mol[m]] <= pos[y]
        BY <3>3, <3>4, <3>5
      <3> QED BY <3>3, <3>6 DEF First
    <2> QED BY <2>2, <2>3
  <1> QED
    BY <1>7, <1>8, <1>9, <1>10

LEMMA InitInv ==
  ASSUME Init
  PROVE  Inv
  <1> DEFINE order == CHOOSE s \in Bijection(1 .. Cardinality(Molecules), Molecules) : TRUE
             start == [p \in Proc |-> [ phase |-> IF my_boxes[p] = << >> THEN Len(Phases) + 1 ELSE 1, box |-> 1, pc |-> "enter",
                         curr |-> Null, next |-> Null, last |-> Null, temp |-> Null, to |-> Null ]]
  <1>1. /\ my_boxes \in Schedules /\ place \in [Molecules -> Boxes] /\ Arranged(order, place)
        /\ at = start /\ corrected = [m \in Molecules |-> 0] /\ early = FALSE
    BY DEF Init
  <1>2. Cardinality(Molecules) \in Nat /\ order \in Bijection(1 .. Cardinality(Molecules), Molecules)
    BY WaterBoxesAssumption, FS_CardinalityType DEF ExistsBijection
  <1>3. /\ order \in [1 .. Cardinality(Molecules) -> Molecules]
        /\ \A i, j \in 1 .. Cardinality(Molecules) : order[i] = order[j] => i = j
        /\ \A m \in Molecules : \E i \in 1 .. Cardinality(Molecules) : order[i] = m
    BY <1>2 DEF Bijection, Injection, Surjection, IsInjective
  <1> HIDE DEF order
  <1>4. list \in [Boxes -> Pointer] /\ next_mol \in [Molecules -> Pointer]
    BY <1>1, <1>2, <1>3, ArrangedLists
  <1>5. PICK pos : /\ Ghosts(place, pos, next_mol) /\ Ordered(place, pos)
                   /\ Headed(list, place, pos) /\ Linked(place, pos, next_mol)
    BY <1>1, <1>2, <1>3, ArrangedLists
  <1>6. \A p \in Proc : /\ at[p] \in Places
                        /\ at[p].phase = IF my_boxes[p] = << >> THEN 5 ELSE 1
                        /\ at[p].box = 1 /\ at[p].pc = "enter"
                        /\ (my_boxes[p] # << >> => 1 \in DOMAIN my_boxes[p])
    <2> SUFFICES ASSUME NEW p \in Proc
                 PROVE  /\ at[p] \in Places
                        /\ at[p].phase = IF my_boxes[p] = << >> THEN 5 ELSE 1
                        /\ at[p].box = 1 /\ at[p].pc = "enter"
                        /\ (my_boxes[p] # << >> => 1 \in DOMAIN my_boxes[p])
      OBVIOUS
    <2>1. my_boxes[p] \in Seq(Boxes)
      BY <1>1, WaterBoxesAssumption
    <2>2. my_boxes[p] # << >> => 1 \in DOMAIN my_boxes[p]
      BY <2>1
    <2>3. at[p] = [ phase |-> IF my_boxes[p] = << >> THEN 5 ELSE 1, box |-> 1, pc |-> "enter",
                    curr |-> Null, next |-> Null, last |-> Null, temp |-> Null, to |-> Null ]
      BY <1>1, PhasesAre
    <2> QED
      BY <2>2, <2>3 DEF Places, Pointer
  <1>7. Types
    <2>1. \A p \in Proc : at[p] \in Places /\ Reached(my_boxes[p], at[p])
      BY <1>6 DEF Reached
    <2>2. at \in [Proc -> Places]
      BY <1>1, <2>1
    <2>3. corrected \in [Molecules -> 0 .. 2]
      BY <1>1
    <2>4. early \in BOOLEAN
      BY <1>1
    <2> QED
      BY <1>1, <1>4, <2>1, <2>2, <2>3, <2>4 DEF Types
  <1>8. Told(next_mol) /\ MovedByOne /\ LostBySome(place)
    BY <1>1, <1>6 DEF Told, MovedByOne, LostBySome
  <1>9. \A p \in Proc : Moved(place, next_mol, p) /\ Looping(place, next_mol, p)
    <2> SUFFICES ASSUME NEW p \in Proc PROVE Moved(place, next_mol, p) /\ Looping(place, next_mol, p)
      OBVIOUS
    <2>1. at[p].pc = "enter"
      BY <1>6
    <2> QED
      BY <2>1 DEF Moved, Looping
  <1>10. \A m \in Molecules : place[m] \in Boxes /\ Yet(pos, 2, place[m], m)
    <2> SUFFICES ASSUME NEW m \in Molecules PROVE place[m] \in Boxes /\ Yet(pos, 2, place[m], m)
      OBVIOUS
    <2>1. place[m] \in Boxes
      BY <1>1
    <2>2. Owner(place[m]) \in Proc /\ my_boxes[Owner(place[m])] # << >>
      BY <1>1, <1>6, <2>1, Owned
    <2> QED
      BY <1>6, <2>1, <2>2 DEF Yet
  <1>11. Counted(place, pos) /\ Settled(place, pos)
    BY <1>1, <1>10 DEF Counted, Settled
  <1> QED
    BY <1>5, <1>7, <1>8, <1>9, <1>11 DEF Inv, Lists

-----------------------------------------------------------------------------
(* The theorem.                                                            *)

LEMMA StepInv ==
  ASSUME Inv, NEW p \in Proc, Step(p)
  PROVE  Inv'
  <1>1. Types /\ Types'
    BY StepTypes DEF Inv
  <1>2. CASE early'
    BY <1>1, <1>2 DEF Inv
  <1>3. CASE ~early'
    <2>1. early => early'
      BY DEF Step, Enter, Leave, Follow, Correct, Stay, Move, Remove, Push, Link
    <2>2. PICK home, pos, succ : Lists(home, pos, succ)
      BY <1>3, <2>1 DEF Inv
    <2>3. \E h, o, s : Lists(h, o, s)'
      <3>1. CASE Enter(p)
        BY <1>1, <2>2, <3>1, EnterLists
      <3>2. CASE Leave(p)
        BY <1>1, <2>2, <3>2, LeaveLists
      <3>3. CASE Follow(p)
        BY <1>1, <2>2, <3>3, FollowLists
      <3>4. CASE Correct(p)
        BY <1>1, <2>2, <3>4, CorrectLists
      <3>5. CASE Stay(p)
        BY <1>1, <2>2, <3>5, StayLists
      <3>6. CASE Move(p)
        BY <1>1, <2>2, <3>6, MoveLists
      <3>7. CASE Remove(p)
        BY <1>1, <2>2, <3>7, RemoveLists
      <3>8. CASE Push(p)
        BY <1>1, <1>3, <2>2, <3>8, PushLists
      <3>9. CASE Link(p)
        BY <1>1, <2>2, <3>9, LinkLists
      <3> QED
        BY <3>1, <3>2, <3>3, <3>4, <3>5, <3>6, <3>7, <3>8, <3>9 DEF Step
    <2> QED
      BY <1>1, <2>3 DEF Inv
  <1> QED
    BY <1>2, <1>3

\* The lists stay lists: while no box gets a molecule before its owner is through
\* BNDRY, every molecule is in one list or on its way to one, in the hands of
\* one process, and every loop has before it just what it has not yet done.
THEOREM BoxesInv == Spec => []Inv
  <1>1. Init => Inv
    BY InitInv
  <1>2. Inv /\ [Next]_vars => Inv'
    <2> SUFFICES ASSUME Inv, [Next]_vars PROVE Inv'
      OBVIOUS
    <2>1. CASE Next
      BY <2>1, StepInv DEF Next
    <2>2. CASE UNCHANGED vars
      <3>1. Types' /\ (early' <=> early)
        BY <2>2 DEF vars, Inv, Types
      <3>2. ASSUME NEW home, NEW pos, NEW succ, Lists(home, pos, succ)
            PROVE  Lists(home, pos, succ)'
        <4>1. /\ Ghosts(home, pos, succ)' /\ Ordered(home, pos)' /\ Headed(list, home, pos)'
              /\ Linked(home, pos, succ)' /\ Told(succ)' /\ MovedByOne' /\ LostBySome(home)'
          BY <2>2, <3>2 DEF vars, Lists, Ghosts, Ordered, Headed, Linked, Told, MovedByOne, LostBySome
        <4>2. \A p \in Proc : Moved(home, succ, p)' /\ Looping(home, succ, p)'
          BY <2>2, <3>2 DEF vars, Lists, Moved, Looping, Cursor, Box, Through, Owner
        <4>3. \A ph, b, m : Yet(pos, ph, b, m)' <=> Yet(pos, ph, b, m)
          BY <2>2 DEF vars, Yet, Cursor, Box, Owner
        <4>4. Counted(home, pos)' /\ Settled(home, pos)'
          BY <2>2, <3>2, <4>3 DEF vars, Lists, Counted, Settled
        <4> QED
          BY <4>1, <4>2, <4>4 DEF Lists
      <3> QED
        BY <3>1, <3>2 DEF Inv
    <2> QED BY <2>1, <2>2
  <1> QED
    BY <1>1, <1>2, PTL DEF Spec

\* At the barrier the lists are what they should be.
LEMMA AtTheBarrier ==
  ASSUME Inv
  PROVE  LateMovesAreSafe
  <1> SUFFICES ASSUME AtBarrier, ~early
               PROVE  EveryMoleculeIsInItsBox /\ \A m \in Molecules : corrected[m] = 1
    BY DEF LateMovesAreSafe
  <1>1. Types
    BY DEF Inv
  <1>2. PICK home, pos, succ : Lists(home, pos, succ)
    BY DEF Inv
  <1>3. \A p \in Proc : at[p].phase = 5 /\ at[p].pc \notin {"push", "link"}
    BY <1>1, FieldTypes, PhasesAre DEF AtBarrier, Through
  <1>4. \A m \in Molecules : home[m] \in Boxes
    BY <1>2, <1>3 DEF Lists, LostBySome
  <1>5. next_mol = succ
    <2>1. \A m \in Molecules : next_mol[m] = succ[m]
      BY <1>2, <1>3 DEF Lists, Told
    <2> QED
      BY <1>1, <1>2, <2>1 DEF Lists, Ghosts, Types
  <1>6. \A m \in Molecules : ~Yet(pos, 2, home[m], m) /\ ~Yet(pos, BNDRY, home[m], m)
    BY <1>1, <1>3, <1>4, Owned DEF Types, Yet, BNDRY
  <1>7. \A m \in Molecules : corrected[m] = 1 /\ place[m] = home[m]
    BY <1>2, <1>4, <1>6 DEF Lists, Counted, Settled
  <1>8. \A b \in Boxes : Chain(b) = In(home, b)
    BY <1>1, <1>2, <1>5, ChainIsList DEF Lists, Types
  <1> QED
    BY <1>7, <1>8 DEF EveryMoleculeIsInItsBox, In

\* If every box gets molecules of others only when its owner is through BNDRY,
\* then at the end of the step every molecule is in the list of the box it is
\* in, in no other list, and CORREC has moved it once.
THEOREM LateMovesSafe == Spec => []LateMovesAreSafe
  BY BoxesInv, AtTheBarrier, PTL

=============================================================================

---------------------------- MODULE BarnesProofs ----------------------------
(***************************************************************************)
(* Proofs about Barnes: for every number of processes, bodies, children,   *)
(* levels and mutexes, and wherever the bodies are, the tree the processes *)
(* build together has all of them, and the sums of its nodes are right.    *)
(***************************************************************************)
EXTENDS Barnes, FiniteSetTheorems, WellFoundedInduction, TLAPS

-----------------------------------------------------------------------------
(* Numbers, parts of sequences, and functions that are put together.       *)

\* The numbers up to n.
LEMMA FirstNumbers ==
  \A n \in Nat : IsFiniteSet(1 .. n) /\ Cardinality(1 .. n) = n
  BY FS_Interval

\* A set of natural numbers has a least one.
LEMMA LeastNumber ==
  ASSUME NEW S, S \subseteq Nat, NEW x \in S
  PROVE  \E m \in S : \A y \in S : m <= y
  <1>1. IsWellFoundedOn(OpToRel(<, Nat), Nat)
    BY NatLessThanWellFounded
  <1>2. PICK m \in S : \A y \in S : ~(<<y, m>> \in OpToRel(<, Nat))
    BY <1>1, WFMin, Zenon
  <1>3. \A y \in S : m <= y
    <2> SUFFICES ASSUME NEW y \in S PROVE m <= y
      OBVIOUS
    <2>1. m \in Nat /\ y \in Nat
      OBVIOUS
    <2>2. ~(y < m)
      BY <1>2, <2>1 DEF OpToRel
    <2> QED BY <2>1, <2>2
  <1> QED BY <1>3

\* The numbers of a finite set have the ranks from 0 on.
LEMMA Ranks ==
  ASSUME NEW S, IsFiniteSet(S), S \subseteq Int
  PROVE  [x \in S |-> Cardinality({h \in S : h < x})] \in Bijection(S, 0 .. Cardinality(S) - 1)
  <1> DEFINE below(x) == {h \in S : h < x}
             f == [x \in S |-> Cardinality(below(x))]
             n == Cardinality(S)
  <1>1. n \in Nat
    BY FS_CardinalityType
  <1>2. \A x \in S : IsFiniteSet(below(x)) /\ Cardinality(below(x)) \in 0 .. n - 1
    <2> SUFFICES ASSUME NEW x \in S
                 PROVE  IsFiniteSet(below(x)) /\ Cardinality(below(x)) \in 0 .. n - 1
      OBVIOUS
    <2>1. IsFiniteSet(S \ {x}) /\ Cardinality(S \ {x}) = n - 1
      BY FS_RemoveElement
    <2>2. below(x) \in SUBSET (S \ {x})
      OBVIOUS
    <2>3. IsFiniteSet(below(x)) /\ Cardinality(below(x)) <= n - 1
      BY <2>1, <2>2, FS_Subset
    <2>4. Cardinality(below(x)) \in Nat
      BY <2>3, FS_CardinalityType
    <2> QED BY <1>1, <2>3, <2>4
  <1>3. \A x, y \in S : x < y => Cardinality(below(x)) # Cardinality(below(y))
    <2> SUFFICES ASSUME NEW x \in S, NEW y \in S, x < y
                 PROVE  Cardinality(below(x)) # Cardinality(below(y))
      OBVIOUS
    <2>0. x \in Int /\ y \in Int /\ \A h \in S : h \in Int
      OBVIOUS
    <2>1. below(x) \in SUBSET below(y)
      <3>1. \A h \in S : h < x => h < y
        BY <2>0
      <3> QED BY <3>1
    <2>2. x \in below(y) /\ x \notin below(x)
      BY <2>0
    <2>3. below(x) # below(y)
      BY <2>2
    <2> HIDE DEF below
    <2> QED BY <1>2, <2>1, <2>3, FS_Subset
  <1>4. f \in Injection(S, 0 .. n - 1)
    <2>1. f \in [S -> 0 .. n - 1]
      BY <1>2
    <2>2. \A x, y \in S : f[x] = f[y] => x = y
      BY <1>3
    <2> QED BY <2>1, <2>2 DEF Injection, IsInjective
  <1>5. IsFiniteSet(0 .. n - 1) /\ Cardinality(0 .. n - 1) = n
    BY <1>1, FS_Interval, SMTT(30)
  <1>6. f \in Surjection(S, 0 .. n - 1)
    <2> HIDE DEF f
    <2> QED BY <1>4, <1>5, FS_Injection
  <1> QED BY <1>4, <1>6 DEF Bijection

\* Position numbers the members of a finite set of numbers.
LEMMA Positions ==
  ASSUME NEW I, IsFiniteSet(I), I \subseteq Int
  PROVE  /\ \A j \in 1 .. Cardinality(I) : Position(I, j) \in I
         /\ \A i, j \in 1 .. Cardinality(I) : Position(I, i) = Position(I, j) => i = j
         /\ \A i \in I : \E j \in 1 .. Cardinality(I) : Position(I, j) = i
  <1> DEFINE rank(i) == Cardinality({h \in I : h < i})
             n == Cardinality(I)
  <1>1. n \in Nat
    BY FS_CardinalityType
  <1>2. /\ \A i \in I : rank(i) \in 0 .. n - 1
        /\ \A i, j \in I : rank(i) = rank(j) => i = j
        /\ \A r \in 0 .. n - 1 : \E i \in I : rank(i) = r
    <2>1. [i \in I |-> rank(i)] \in Bijection(I, 0 .. n - 1)
      BY Ranks
    <2> HIDE DEF rank, n
    <2> QED BY <2>1 DEF Bijection, Injection, Surjection, IsInjective
  <1>3. \A j \in 1 .. n : Position(I, j) \in I /\ rank(Position(I, j)) = j - 1
    <2> SUFFICES ASSUME NEW j \in 1 .. n
                 PROVE  Position(I, j) \in I /\ rank(Position(I, j)) = j - 1
      OBVIOUS
    <2>1. \E i \in I : rank(i) = j - 1
      <3>1. j - 1 \in 0 .. n - 1
        BY <1>1
      <3> QED BY <1>2, <3>1
    <2> QED BY <2>1 DEF Position
  <1> HIDE DEF rank
  <1>4. \A i \in I : \E j \in 1 .. n : Position(I, j) = i
    <2> SUFFICES ASSUME NEW i \in I PROVE \E j \in 1 .. n : Position(I, j) = i
      OBVIOUS
    <2>1. rank(i) + 1 \in 1 .. n
      BY <1>1, <1>2
    <2>2. rank(Position(I, rank(i) + 1)) = rank(i) /\ Position(I, rank(i) + 1) \in I
      BY <1>1, <1>2, <1>3, <2>1
    <2> QED BY <1>2, <2>1, <2>2
  <1>5. \A i, j \in 1 .. n : Position(I, i) = Position(I, j) => i = j
    BY <1>1, <1>3
  <1> QED BY <1>3, <1>4, <1>5

LEMMA Appended ==
  ASSUME NEW S, NEW s \in Seq(S), NEW e \in S
  PROVE  /\ Append(s, e) \in Seq(S) /\ Len(Append(s, e)) = Len(s) + 1
         /\ \A i \in 1 .. Len(Append(s, e)) : \/ Append(s, e)[i] = e
                                              \/ i \in 1 .. Len(s) /\ Append(s, e)[i] = s[i]
  OBVIOUS

\* Part takes elements of a sequence to a sequence.
LEMMA PartOfSeq ==
  ASSUME NEW S, NEW s \in Seq(S), NEW I \in SUBSET DOMAIN s
  PROVE  /\ IsFiniteSet(I) /\ Cardinality(I) \in 0 .. Len(s)
         /\ Part(s, I) \in Seq(S) /\ Len(Part(s, I)) = Cardinality(I)
         /\ \A j \in 1 .. Cardinality(I) : Part(s, I)[j] = s[Position(I, j)]
  <1>1. Len(s) \in Nat /\ DOMAIN s = 1 .. Len(s)
    OBVIOUS
  <1>2. IsFiniteSet(1 .. Len(s)) /\ Cardinality(1 .. Len(s)) = Len(s)
    BY <1>1, FirstNumbers
  <1>3. IsFiniteSet(I) /\ Cardinality(I) <= Len(s) /\ Cardinality(I) \in Nat
    BY <1>1, <1>2, FS_Subset, FS_CardinalityType
  <1>4. \A j \in 1 .. Cardinality(I) : Position(I, j) \in I
    BY <1>1, <1>3, Positions
  <1>5. Part(s, I) \in [1 .. Cardinality(I) -> S]
    BY <1>1, <1>4 DEF Part
  <1> QED BY <1>1, <1>3, <1>5 DEF Part

-----------------------------------------------------------------------------
(* What is the same in all phases, and the shape of the tree.              *)

Node  == DOMAIN subp \cup DOMAIN bodyp
Place == [Bodies -> [1 .. Levels -> Kids]]

CellNames == {n \in {"cell"} \X Proc \X Nat : n[3] < myncell[n[2]]}
LeafNames == {n \in {"leaf"} \X Proc \X Nat : n[3] < mynleaf[n[2]]}

IsLocal(r) ==
  /\ r = [pc |-> r.pc, i |-> r.i, node |-> r.node, le |-> r.le, l |-> r.l, k |-> r.k,
          todo |-> r.todo, nstep |-> r.nstep]
  /\ r.i \in Nat \ {0}

Types ==
  /\ place \in Place
  /\ myncell \in [Proc -> Nat] /\ myncell[0] >= 1
  /\ mynleaf \in [Proc -> Nat]
  /\ subp = [n \in CellNames |-> subp[n]]
  /\ bodyp \in [LeafNames -> Seq(Bodies)]
  /\ lock \in [0 .. MAXLOCK - 1 -> Proc \cup {Free}]
  /\ mybodytab \in [Proc -> Seq(Bodies)]
  /\ at = [p \in Proc |-> at[p]]
  /\ \A p \in Proc : IsLocal(at[p])

\* A tree of the cells C and leaves L: kid tells the children of the cells, the
\* bodies whose way down goes through a node are in its zone, and lev is how far
\* down it is.
TreeShape(C, L, pl, kid, lev, zone) ==
  /\ kid \in [C -> [Kids -> C \cup L \cup {Null}]]
  /\ lev \in [C \cup L -> 0 .. Levels] /\ zone \in [C \cup L -> SUBSET Bodies]
  /\ G_root \in C /\ lev[G_root] = 0 /\ zone[G_root] = Bodies
  /\ \A n \in C : lev[n] < Levels
  /\ \A n \in C : \A k \in Kids : kid[n][k] # Null =>
       /\ kid[n][k] # G_root /\ lev[kid[n][k]] = lev[n] + 1
       /\ \A b \in Bodies : b \in zone[kid[n][k]] <=> b \in zone[n] /\ pl[b][lev[n] + 1] = k
  /\ \A n, m \in C : \A k, j \in Kids : kid[n][k] # Null /\ kid[n][k] = kid[m][j] => n = m /\ k = j
  /\ \A m \in (C \cup L) \ {G_root} : \E n \in C : \E k \in Kids : kid[n][k] = m

\* Cells, leaves and the missing child are told apart.
LEMMA Names ==
  ASSUME Types
  PROVE  /\ DOMAIN subp = CellNames /\ DOMAIN bodyp = LeafNames
         /\ \A n \in DOMAIN subp : Type(n) = "cell" /\ n = Cell(n[2], n[3])
         /\ \A n \in DOMAIN bodyp : Type(n) = "leaf" /\ n = Leaf(n[2], n[3])
         /\ Type(Null) = "null" /\ Null \notin Node
         /\ \A n \in DOMAIN bodyp : n \notin DOMAIN subp
         /\ G_root \in DOMAIN subp
         /\ \A p \in Proc : \A i \in Nat :
              /\ Cell(p, i) \in DOMAIN subp <=> i < myncell[p]
              /\ Leaf(p, i) \in DOMAIN bodyp <=> i < mynleaf[p]
  <1>1. DOMAIN subp = CellNames /\ DOMAIN bodyp = LeafNames
    BY DEF Types
  <1>2. 0 \in Proc
    BY BarnesAssumption DEF Proc
  <1> QED BY <1>1, <1>2 DEF Types, CellNames, LeafNames, Cell, Leaf, Type, Null, Node, G_root

-----------------------------------------------------------------------------
(* The way down of a body.                                                 *)

NextOnWay(b, n, l) == IF Type(n) = "cell" THEN subp[n][place[b][l]] ELSE n

\* Way is what its definition says.
LEMMA WaySteps ==
  ASSUME NEW b
  PROVE  /\ DOMAIN Way(b) = 0 .. Levels /\ Way(b)[0] = G_root
         /\ \A l \in 1 .. Levels : Way(b)[l] = NextOnWay(b, Way(b)[l - 1], l)
  <1> DEFINE IsWay(w, m) ==
               w = [l \in 0 .. m |-> IF l = 0 THEN G_root ELSE NextOnWay(b, w[l - 1], l)]
             bad == {m \in 0 .. Levels : ~\E w : IsWay(w, m)}
  <1>0. Levels \in Nat
    BY BarnesAssumption
  <1>1. bad = {}
    <2> SUFFICES ASSUME NEW x \in bad PROVE FALSE
      OBVIOUS
    <2>0. bad \subseteq Nat
      BY <1>0
    <2>1. PICK m \in bad : \A y \in bad : m <= y
      BY <2>0, LeastNumber, Zenon
    <2>2. m \in 0 .. Levels /\ ~\E w : IsWay(w, m)
      OBVIOUS
    <2>3. CASE m = 0
      <3> DEFINE w == [l \in 0 .. 0 |-> G_root]
      <3>1. IsWay(w, 0)
        OBVIOUS
      <3> QED BY <2>2, <2>3, <3>1
    <2>4. CASE m # 0
      <3>0. m - 1 \in 0 .. Levels /\ ~(m <= m - 1)
        BY <1>0, <2>2, <2>4
      <3>1. m - 1 \notin bad
        BY <2>1, <3>0, Zenon
      <3>2. PICK v : IsWay(v, m - 1)
        BY <3>0, <3>1
      <3> DEFINE w == [l \in 0 .. m |-> IF l = m THEN NextOnWay(b, v[m - 1], m) ELSE v[l]]
      <3>3. \A l \in 0 .. m : w[l] = IF l = 0 THEN G_root ELSE NextOnWay(b, w[l - 1], l)
        <4> SUFFICES ASSUME NEW l \in 0 .. m
                     PROVE  w[l] = IF l = 0 THEN G_root ELSE NextOnWay(b, w[l - 1], l)
          OBVIOUS
        <4>1. l = m => w[l] = NextOnWay(b, v[l - 1], l) /\ w[l - 1] = v[l - 1]
          BY <2>2, <2>4
        <4>2. l # m => w[l] = v[l] /\ (l # 0 => w[l - 1] = v[l - 1])
          BY <2>2
        <4>3. l # m => l \in 0 .. m - 1
          BY <2>2
        <4>4. l # m => v[l] = IF l = 0 THEN G_root ELSE NextOnWay(b, v[l - 1], l)
          BY <3>2, <4>3
        <4> HIDE DEF w
        <4> QED BY <2>4, <4>1, <4>2, <4>4
      <3>4. IsWay(w, m)
        BY <3>3
      <3> QED BY <2>2, <3>4
    <2> QED BY <2>3, <2>4
  <1>2. IsWay(Way(b), Levels)
    <2>1. \E w : IsWay(w, Levels)
      BY <1>0, <1>1
    <2>2. Way(b) = CHOOSE w : IsWay(w, Levels)
      BY DEF Way, NextOnWay
    <2> QED BY <2>1, <2>2
  <1> HIDE DEF bad
  <1>3. DOMAIN Way(b) = 0 .. Levels /\ \A l \in 0 .. Levels : Way(b)[l] =
          IF l = 0 THEN G_root ELSE NextOnWay(b, Way(b)[l - 1], l)
    BY <1>2
  <1> QED BY <1>0, <1>3

\* When every cell is where it belongs, the way down of a body is through the nodes
\* in whose zone it is.
LEMMA WayInZones ==
  ASSUME Types, NEW lev, NEW zone, NEW b \in Bodies,
         TreeShape(DOMAIN subp, DOMAIN bodyp, place, subp, lev, zone)
  PROVE  /\ \A n \in Node : n \in Range(Way(b)) <=> b \in zone[n]
         /\ \A n \in DOMAIN bodyp : b \in zone[n] => n = WayDown(b)
         /\ \A n \in DOMAIN subp :
              b \in zone[n] /\ subp[n][place[b][lev[n] + 1]] = Null => WayDown(b) = Null
  <1> DEFINE w == Way(b)
  <1>0. /\ Levels \in Nat /\ place[b] \in [1 .. Levels -> Kids]
        /\ \A n \in DOMAIN subp : Type(n) = "cell" /\ n \in Node
        /\ \A n \in DOMAIN bodyp : Type(n) # "cell" /\ n \in Node
        /\ Type(Null) # "cell" /\ Null \notin Node /\ G_root \in DOMAIN subp
        /\ \A n \in Node : n \in DOMAIN subp \/ n \in DOMAIN bodyp
    BY BarnesAssumption, Names DEF Types, Place, Node
  <1>1. /\ DOMAIN w = 0 .. Levels /\ w[0] = G_root
        /\ \A l \in 1 .. Levels : w[l] = NextOnWay(b, w[l - 1], l)
    BY WaySteps
  <1> HIDE DEF w
  <1> DEFINE Right(l) == w[l] # Null => /\ w[l] \in Node /\ b \in zone[w[l]]
                                        /\ w[l] \in DOMAIN subp => lev[w[l]] = l
  <1>2. \A l \in 0 .. Levels : Right(l)
    <2> DEFINE bad == {l \in 0 .. Levels : ~Right(l)}
    <2> SUFFICES ASSUME NEW x \in bad PROVE FALSE
      OBVIOUS
    <2>0. bad \subseteq Nat
      BY <1>0
    <2>1. PICK l \in bad : \A y \in bad : l <= y
      BY <2>0, LeastNumber, Zenon
    <2>2. l \in 0 .. Levels /\ ~Right(l)
      OBVIOUS
    <2>3. l # 0
      BY <1>0, <1>1, <2>2 DEF TreeShape, Node
    <2>4. l - 1 \in 0 .. Levels /\ ~(l <= l - 1) /\ l \in 1 .. Levels
      BY <1>0, <2>2, <2>3
    <2>5. Right(l - 1)
      BY <2>1, <2>4, Zenon
    <2>6. w[l] = NextOnWay(b, w[l - 1], l)
      BY <1>1, <2>4
    <2> HIDE DEF bad
    <2> DEFINE n == w[l - 1]
    <2>7. CASE n \in DOMAIN subp
      <3>1. n # Null /\ lev[n] = l - 1 /\ b \in zone[n] /\ Type(n) = "cell"
        BY <1>0, <2>5, <2>7
      <3>2. w[l] = subp[n][place[b][l]] /\ place[b][l] \in Kids
        BY <1>0, <2>4, <2>6, <3>1 DEF NextOnWay
      <3>3. lev[n] + 1 = l
        BY <2>4, <3>1
      <3>4. w[l] \in Node \cup {Null}
        BY <2>7, <3>2 DEF TreeShape, Node
      <3>5. w[l] # Null => lev[w[l]] = l /\ b \in zone[w[l]]
        BY <2>7, <3>1, <3>2, <3>3 DEF TreeShape, Node
      <3> QED BY <2>2, <3>4, <3>5
    <2>8. CASE n \notin DOMAIN subp
      <3>1. Type(n) # "cell" \/ n = Null
        BY <1>0, <2>5, <2>8
      <3>2. w[l] = n
        BY <1>0, <2>6, <3>1 DEF NextOnWay
      <3> QED BY <2>2, <2>5, <2>8, <3>2
    <2> QED BY <2>7, <2>8
  <1>3. \A n \in Node : b \in zone[n] => w[lev[n]] = n
    <2> DEFINE off(n) == b \in zone[n] /\ w[lev[n]] # n
               bad == {l \in 0 .. Levels : \E n \in Node : lev[n] = l /\ off(n)}
    <2> SUFFICES ASSUME NEW x \in Node, off(x) PROVE FALSE
      OBVIOUS
    <2>0. bad \subseteq Nat /\ lev[x] \in bad
      BY <1>0 DEF TreeShape, Node
    <2>1. PICK l \in bad : \A y \in bad : l <= y
      BY <2>0, LeastNumber, Zenon
    <2>2. PICK n \in Node : lev[n] = l /\ off(n)
      OBVIOUS
    <2>3. n # G_root
      BY <1>1, <2>2 DEF TreeShape, Node
    <2>4. PICK m \in DOMAIN subp : \E k \in Kids : subp[m][k] = n
      BY <2>3 DEF TreeShape, Node
    <2>5. PICK k \in Kids : subp[m][k] = n
      BY <2>4
    <2>6. n # Null /\ m \in Node /\ Type(m) = "cell"
      BY <1>0
    <2>7. lev[n] = lev[m] + 1 /\ b \in zone[m] /\ place[b][lev[m] + 1] = k
      BY <2>2, <2>5, <2>6 DEF TreeShape, Node
    <2>8. lev[m] \in 0 .. Levels /\ lev[n] \in 0 .. Levels
      BY <2>6 DEF TreeShape, Node
    <2>9. lev[m] \notin bad
      <3>1. ~(l <= lev[m])
        BY <1>0, <2>2, <2>7, <2>8
      <3> QED BY <2>1, <3>1, Zenon
    <2>10. w[lev[m]] = m
      BY <2>6, <2>7, <2>8, <2>9
    <2>11. w[lev[n]] = NextOnWay(b, m, lev[n])
      <3>1. lev[n] \in 1 .. Levels /\ lev[n] - 1 = lev[m]
        BY <1>0, <2>7, <2>8
      <3> QED BY <1>1, <2>10, <3>1
    <2>12. w[lev[n]] = n
      BY <2>5, <2>6, <2>7, <2>11 DEF NextOnWay
    <2> QED BY <2>2, <2>12
  <1>4. ASSUME NEW l \in 0 .. Levels, Type(w[l]) # "cell" PROVE w[Levels] = w[l]
    <2> DEFINE bad == {h \in 0 .. Levels : l <= h /\ w[h] # w[l]}
    <2> SUFFICES ASSUME w[Levels] # w[l] PROVE FALSE
      OBVIOUS
    <2>0. bad \subseteq Nat /\ Levels \in bad
      BY <1>0
    <2>1. PICK h \in bad : \A y \in bad : h <= y
      BY <2>0, LeastNumber, Zenon
    <2>2. h \in 0 .. Levels /\ l <= h /\ w[h] # w[l]
      OBVIOUS
    <2>3. h \in 1 .. Levels /\ h - 1 \in 0 .. Levels /\ l <= h - 1 /\ ~(h <= h - 1)
      BY <1>0, <2>2
    <2>4. h - 1 \notin bad
      BY <2>1, <2>3, Zenon
    <2>5. w[h - 1] = w[l]
      BY <2>3, <2>4
    <2>6. w[h] = w[h - 1]
      BY <1>1, <1>4, <2>3, <2>5 DEF NextOnWay
    <2> QED BY <2>2, <2>5, <2>6
  <1>5. \A n \in Node : n \in Range(w) <=> b \in zone[n]
    <2>1. \A n \in Node : lev[n] \in 0 .. Levels
      BY DEF TreeShape, Node
    <2>2. \A n \in Node : n # Null
      BY <1>0
    <2> QED BY <1>1, <1>2, <1>3, <2>1, <2>2 DEF Range
  <1>6. ASSUME NEW n \in DOMAIN bodyp, b \in zone[n] PROVE n = w[Levels]
    <2>1. n \in Node /\ Type(n) # "cell" /\ lev[n] \in 0 .. Levels
      BY <1>0 DEF TreeShape, Node
    <2>2. w[lev[n]] = n
      BY <1>3, <1>6, <2>1
    <2> QED BY <1>4, <2>1, <2>2
  <1>7. ASSUME NEW n \in DOMAIN subp, b \in zone[n], subp[n][place[b][lev[n] + 1]] = Null
        PROVE  w[Levels] = Null
    <2>1. n \in Node /\ Type(n) = "cell" /\ lev[n] \in 0 .. Levels /\ lev[n] < Levels
      BY <1>0 DEF TreeShape, Node
    <2>2. lev[n] + 1 \in 1 .. Levels /\ lev[n] + 1 - 1 = lev[n] /\ lev[n] + 1 \in 0 .. Levels
      BY <1>0, <2>1
    <2>3. w[lev[n]] = n
      BY <1>3, <1>7, <2>1
    <2>4. w[lev[n] + 1] = NextOnWay(b, n, lev[n] + 1)
      <3> DEFINE l == lev[n] + 1
      <3>1. l \in 1 .. Levels /\ l - 1 = lev[n]
        BY <1>0, <2>1
      <3> HIDE DEF l
      <3>2. w[l] = NextOnWay(b, n, l)
        BY <1>1, <2>3, <3>1
      <3> QED BY <3>2 DEF l
    <2>5. w[lev[n] + 1] = Null
      BY <1>7, <2>1, <2>4 DEF NextOnWay
    <2> QED BY <1>0, <1>4, <2>2, <2>5
  <1> QED BY <1>5, <1>6, <1>7 DEF w, WayDown

-----------------------------------------------------------------------------
(* The tree grows.                                                         *)

\* A leaf where there was none.
LeafGrows(C, L, pl, kid, lev, zone, n, k, le, kid2, lev2, zone2) ==
  /\ Null \notin C \cup L /\ n \in C /\ k \in Kids /\ kid[n][k] = Null /\ le \notin C \cup L /\ le # Null
  /\ kid2 \in [C -> [Kids -> C \cup (L \cup {le}) \cup {Null}]]
  /\ \A m \in C : \A j \in Kids : kid2[m][j] = IF m = n /\ j = k THEN le ELSE kid[m][j]
  /\ lev2 \in [C \cup (L \cup {le}) -> 0 .. Levels]
  /\ lev2[le] = lev[n] + 1 /\ \A m \in C \cup L : lev2[m] = lev[m]
  /\ zone2 \in [C \cup (L \cup {le}) -> SUBSET Bodies] /\ \A m \in C \cup L : zone2[m] = zone[m]
  /\ \A b \in Bodies : b \in zone2[le] <=> b \in zone[n] /\ pl[b][lev[n] + 1] = k

LEMMA GrowLeaf ==
  ASSUME NEW C, NEW L, NEW pl, NEW kid, NEW lev, NEW zone, TreeShape(C, L, pl, kid, lev, zone),
         NEW n, NEW k, NEW le, NEW kid2, NEW lev2, NEW zone2,
         LeafGrows(C, L, pl, kid, lev, zone, n, k, le, kid2, lev2, zone2)
  PROVE  TreeShape(C, L \cup {le}, pl, kid2, lev2, zone2)
  <1> DEFINE N == C \cup L
  <1>a. /\ Null \notin C \cup L /\ n \in C /\ k \in Kids /\ kid[n][k] = Null /\ le \notin C \cup L /\ le # Null
        /\ kid2 \in [C -> [Kids -> C \cup (L \cup {le}) \cup {Null}]]
        /\ lev2 \in [C \cup (L \cup {le}) -> 0 .. Levels]
        /\ zone2 \in [C \cup (L \cup {le}) -> SUBSET Bodies]
    BY DEF LeafGrows
  <1>0. Levels \in Nat /\ lev[n] \in 0 .. Levels /\ lev[n] < Levels /\ n \in N /\ le # G_root
    BY <1>a, BarnesAssumption DEF TreeShape
  <1>1. \A m \in C : \A j \in Kids : kid2[m][j] = IF m = n /\ j = k THEN le ELSE kid[m][j]
    BY DEF LeafGrows
  <1>2. lev2[le] = lev[n] + 1 /\ \A m \in N : lev2[m] = lev[m]
    BY DEF LeafGrows
  <1>3. /\ \A b \in Bodies : b \in zone2[le] <=> b \in zone[n] /\ pl[b][lev[n] + 1] = k
        /\ \A m \in N : zone2[m] = zone[m]
    BY DEF LeafGrows
  <1>4. C \cup (L \cup {le}) = N \cup {le}
    OBVIOUS
  <1>5. lev2[G_root] = 0 /\ zone2[G_root] = Bodies /\ \A m \in C : lev2[m] < Levels
    BY <1>a, <1>2, <1>3 DEF TreeShape
  <1>6. ASSUME NEW m \in C, NEW j \in Kids, kid2[m][j] # Null
        PROVE  /\ kid2[m][j] # G_root /\ lev2[kid2[m][j]] = lev2[m] + 1
               /\ \A b \in Bodies :
                    b \in zone2[kid2[m][j]] <=> b \in zone2[m] /\ pl[b][lev2[m] + 1] = j
    <2>1. CASE m = n /\ j = k
      BY <1>0, <1>a, <1>1, <1>2, <1>3, <2>1 DEF TreeShape
    <2>2. CASE ~(m = n /\ j = k)
      <3>1. kid2[m][j] = kid[m][j] /\ m \in N /\ kid[m][j] \in N
        BY <1>a, <1>1, <1>6, <2>2 DEF TreeShape
      <3> QED BY <1>2, <1>3, <1>6, <3>1 DEF TreeShape
    <2> QED BY <2>1, <2>2
  <1>7. ASSUME NEW m \in C, NEW m2 \in C, NEW j \in Kids, NEW j2 \in Kids,
               kid2[m][j] # Null, kid2[m][j] = kid2[m2][j2]
        PROVE  m = m2 /\ j = j2
    <2>1. kid[m][j] \in N \cup {Null} /\ kid[m2][j2] \in N \cup {Null}
      BY DEF TreeShape
    <2> QED BY <1>a, <1>1, <1>7, <2>1 DEF TreeShape
  <1>8. ASSUME NEW m \in (N \cup {le}) \ {G_root}
        PROVE  \E x \in C : \E j \in Kids : kid2[x][j] = m
    <2>1. CASE m = le
      BY <1>a, <1>1, <2>1
    <2>2. CASE m # le
      <3>1. PICK x \in C : \E j \in Kids : kid[x][j] = m
        BY <2>2 DEF TreeShape
      <3>2. PICK j \in Kids : kid[x][j] = m
        BY <3>1
      <3>3. m # Null
        BY <1>a, <2>2
      <3> QED BY <1>a, <1>1, <3>2, <3>3
    <2> QED BY <2>1, <2>2
  <1>9. G_root \in C
    BY DEF TreeShape
  <1>10. \A m \in (C \cup (L \cup {le})) \ {G_root} : \E x \in C : \E j \in Kids : kid2[x][j] = m
    BY <1>4, <1>8
  <1>11. \A x \in C : \A j \in Kids : kid2[x][j] # Null =>
           /\ kid2[x][j] # G_root /\ lev2[kid2[x][j]] = lev2[x] + 1
           /\ \A b \in Bodies :
                b \in zone2[kid2[x][j]] <=> b \in zone2[x] /\ pl[b][lev2[x] + 1] = j
    BY <1>6, Zenon
  <1>12. \A x, y \in C : \A j, i \in Kids :
           kid2[x][j] # Null /\ kid2[x][j] = kid2[y][i] => x = y /\ j = i
    <2> TAKE x, y \in C
    <2> TAKE j, i \in Kids
    <2> HAVE kid2[x][j] # Null /\ kid2[x][j] = kid2[y][i]
    <2> QED BY <1>7
  <1> QED BY <1>a, <1>5, <1>9, <1>10, <1>11, <1>12, Zenon DEF TreeShape

\* A cell c with new leaves ch where there was the leaf le, which is one of its children.
CellGrows(C, L, pl, kid, lev, zone, n, k, le, c, M, ch, kid2, lev2, zone2) ==
  /\ n \in C /\ k \in Kids /\ le \in L /\ kid[n][k] = le /\ lev[le] < Levels
  /\ ch \in [Kids -> M \cup {Null}]
  /\ Null \notin C \cup L \cup M /\ c # Null /\ c \notin C \cup L \cup M
  /\ C \cap L = {} /\ M \cap (C \cup L) = {le}
  /\ \A m \in M : \E j \in Kids : ch[j] = m
  /\ \A j, h \in Kids : ch[j] # Null /\ ch[j] = ch[h] => j = h
  /\ kid2 \in [C \cup {c} -> [Kids -> (C \cup {c}) \cup (L \cup M) \cup {Null}]]
  /\ \A j \in Kids : kid2[c][j] = ch[j]
  /\ \A m \in C : \A j \in Kids : kid2[m][j] = IF m = n /\ j = k THEN c ELSE kid[m][j]
  /\ lev2 \in [(C \cup {c}) \cup (L \cup M) -> 0 .. Levels] /\ lev2[c] = lev[le]
  /\ \A m \in M : lev2[m] = lev[le] + 1
  /\ \A m \in C \cup L : m # le => lev2[m] = lev[m]
  /\ zone2 \in [(C \cup {c}) \cup (L \cup M) -> SUBSET Bodies] /\ zone2[c] = zone[le]
  /\ \A m \in M : \A b \in Bodies : b \in zone2[m] <=> /\ b \in zone[le]
                                                /\ ch[pl[b][lev[le] + 1]] = m
                                                /\ pl[b][lev[le] + 1] \in Kids
  /\ \A m \in C \cup L : m # le => zone2[m] = zone[m]

LEMMA GrowCell ==
  ASSUME NEW C, NEW L, NEW pl, NEW kid, NEW lev, NEW zone, TreeShape(C, L, pl, kid, lev, zone),
         NEW n, NEW k, NEW le, NEW c, NEW M, NEW ch, NEW kid2, NEW lev2, NEW zone2,
         CellGrows(C, L, pl, kid, lev, zone, n, k, le, c, M, ch, kid2, lev2, zone2)
  PROVE  TreeShape(C \cup {c}, L \cup M, pl, kid2, lev2, zone2)
  <1> DEFINE N == C \cup L
  <1>a. /\ n \in C /\ k \in Kids /\ le \in L /\ kid[n][k] = le /\ lev[le] < Levels
        /\ ch \in [Kids -> M \cup {Null}]
        /\ Null \notin C \cup L \cup M /\ c # Null /\ c \notin C \cup L \cup M
        /\ C \cap L = {} /\ M \cap (C \cup L) = {le}
        /\ \A m \in M : \E j \in Kids : ch[j] = m
        /\ \A j, h \in Kids : ch[j] # Null /\ ch[j] = ch[h] => j = h
    BY DEF CellGrows
  <1>b. /\ kid2 \in [C \cup {c} -> [Kids -> (C \cup {c}) \cup (L \cup M) \cup {Null}]]
        /\ lev2 \in [(C \cup {c}) \cup (L \cup M) -> 0 .. Levels]
        /\ zone2 \in [(C \cup {c}) \cup (L \cup M) -> SUBSET Bodies]
    BY DEF CellGrows
  <1>0. /\ Levels \in Nat /\ lev[le] \in 0 .. Levels /\ lev[le] + 1 \in 0 .. Levels
        /\ G_root \in C /\ le \in N /\ le \in M /\ n # c /\ le # c
        /\ zone[le] \in SUBSET Bodies /\ lev[n] + 1 = lev[le] /\ G_root \notin M /\ G_root # c
        /\ \A m \in C : m \notin M /\ m # c
        /\ \A m \in N : m # c /\ (m \in M => m = le)
    <2>1. /\ \A m \in C : m \notin M /\ m # c
          /\ \A m \in N : m # c /\ (m \in M => m = le)
          /\ le \in N /\ le \in M /\ le # c /\ le # Null /\ n # c
      BY <1>a
    <2>2. G_root \in C /\ lev[le] = lev[n] + 1
      BY <1>a, <2>1 DEF TreeShape
    <2>3. Levels \in Nat /\ lev[le] \in 0 .. Levels /\ zone[le] \in SUBSET Bodies
      BY <1>a, BarnesAssumption, <2>1 DEF TreeShape
    <2> QED BY <1>a, <2>1, <2>2, <2>3
  <1>1. /\ \A j \in Kids : kid2[c][j] = ch[j]
        /\ \A m \in C : \A j \in Kids : kid2[m][j] = IF m = n /\ j = k THEN c ELSE kid[m][j]
    BY DEF CellGrows
  <1>2. /\ lev2[c] = lev[le]
        /\ \A m \in M : lev2[m] = lev[le] + 1
        /\ \A m \in N : m # le => lev2[m] = lev[m]
    BY DEF CellGrows
  <1>3. /\ zone2[c] = zone[le]
        /\ \A m \in M : \A b \in Bodies : b \in zone2[m] <=> /\ b \in zone[le]
                                                          /\ ch[pl[b][lev[le] + 1]] = m
                                                          /\ pl[b][lev[le] + 1] \in Kids
        /\ \A m \in N : m # le => zone2[m] = zone[m]
    BY DEF CellGrows
  <1>5. /\ lev2[G_root] = 0 /\ zone2[G_root] = Bodies
        /\ \A m \in C \cup {c} : lev2[m] < Levels
    BY <1>a, <1>b, <1>0, <1>2, <1>3 DEF TreeShape
  <1>6. ASSUME NEW m \in C \cup {c}, NEW j \in Kids, kid2[m][j] # Null
        PROVE  /\ kid2[m][j] # G_root /\ lev2[kid2[m][j]] = lev2[m] + 1
               /\ \A b \in Bodies :
                    b \in zone2[kid2[m][j]] <=> b \in zone2[m] /\ pl[b][lev2[m] + 1] = j
    <2>1. CASE m = c
      <3>1. kid2[m][j] = ch[j] /\ ch[j] \in M
        BY <1>a, <1>b, <1>1, <1>6, <2>1
      <3>2. \A b \in Bodies : b \in zone2[ch[j]] <=> b \in zone[le] /\ pl[b][lev[le] + 1] = j
        BY <1>a, <1>b, <1>3, <3>1
      <3> QED BY <1>a, <1>b, <1>0, <1>2, <1>3, <2>1, <3>1, <3>2
    <2>2. CASE m = n /\ j = k
      <3>1. kid2[m][j] = c /\ lev2[n] = lev[n] /\ zone2[n] = zone[n]
        BY <1>a, <1>b, <1>0, <1>1, <1>2, <1>3, <2>2
      <3>2. \A b \in Bodies : b \in zone[le] <=> b \in zone[n] /\ pl[b][lev[n] + 1] = k
        BY <1>a, <1>b, <1>0 DEF TreeShape
      <3> QED BY <1>a, <1>b, <1>0, <1>2, <1>3, <2>2, <3>1, <3>2
    <2>3. CASE m \in C /\ ~(m = n /\ j = k)
      <3>1. kid2[m][j] = kid[m][j] /\ kid[m][j] \in N /\ m \in N
        BY <1>a, <1>b, <1>1, <1>6, <2>3 DEF TreeShape
      <3>2. kid[m][j] # le
        BY <1>a, <1>b, <1>0, <2>3, <3>1 DEF TreeShape
      <3>3. m # le
        BY <1>a, <1>b, <1>0, <2>3
      <3>4. /\ lev2[m] = lev[m] /\ lev2[kid[m][j]] = lev[kid[m][j]]
            /\ zone2[m] = zone[m] /\ zone2[kid[m][j]] = zone[kid[m][j]]
        BY <1>a, <1>b, <1>2, <1>3, <3>1, <3>2, <3>3
      <3>5. kid[m][j] # Null
        BY <1>a, <1>b, <3>1
      <3> QED BY <2>3, <3>1, <3>4, <3>5 DEF TreeShape
    <2> QED BY <2>1, <2>2, <2>3
  <1>7. ASSUME NEW m \in C \cup {c}, NEW m2 \in C \cup {c}, NEW j \in Kids, NEW j2 \in Kids,
               kid2[m][j] # Null, kid2[m][j] = kid2[m2][j2]
        PROVE  m = m2 /\ j = j2
    <2>1. \A x \in C : \A h \in Kids : kid[x][h] = le => x = n /\ h = k
      BY <1>a, <1>b, <1>0 DEF TreeShape
    <2>2. \A x \in C : \A h \in Kids : kid2[x][h] = c \/ kid2[x][h] = Null \/
                                          (kid2[x][h] = kid[x][h] /\ kid[x][h] \in N \ M)
      BY <1>a, <1>b, <1>0, <1>1, <2>1 DEF TreeShape
    <2>3. \A h \in Kids : kid2[c][h] = ch[h] /\ ch[h] \in M \cup {Null}
      BY <1>a, <1>b, <1>1
    <2>4. CASE m = c /\ m2 = c
      BY <1>a, <1>b, <1>7, <2>3, <2>4
    <2>5. CASE m \in C /\ m2 \in C
      <3>1. kid[m][j] \in N \cup {Null} /\ kid[m2][j2] \in N \cup {Null}
        BY <1>a, <1>b, <2>5 DEF TreeShape
      <3> QED BY <1>a, <1>b, <1>0, <1>1, <1>7, <2>5, <3>1 DEF TreeShape
    <2>6. CASE ~(m = c <=> m2 = c)
      <3>1. \A x \in C : \A h \in Kids : kid2[x][h] = Null \/ kid2[x][h] \notin M
        BY <1>a, <2>2
      <3>2. \A h \in Kids : kid2[c][h] = Null \/ kid2[c][h] \in M
        BY <2>3
      <3> QED BY <1>7, <2>6, <3>1, <3>2, Zenon
    <2> QED BY <2>4, <2>5, <2>6
  <1>8. ASSUME NEW m \in ((C \cup {c}) \cup (L \cup M)) \ {G_root}
        PROVE  \E x \in C \cup {c} : \E j \in Kids : kid2[x][j] = m
    <2>1. CASE m = c
      BY <1>a, <1>b, <1>1, <2>1
    <2>2. CASE m \in M
      BY <1>a, <1>b, <1>1, <2>2
    <2>3. CASE m # c /\ m \notin M
      <3>0. m \in N
        BY <1>a, <1>b, <2>3
      <3>1. PICK x \in C : \E j \in Kids : kid[x][j] = m
        BY <1>a, <1>b, <3>0 DEF TreeShape
      <3>2. PICK j \in Kids : kid[x][j] = m
        BY <1>a, <1>b, <3>1
      <3>3. kid2[x][j] = m
        BY <1>a, <1>b, <1>0, <1>1, <2>3, <3>2
      <3> QED BY <3>3
    <2> QED BY <2>1, <2>2, <2>3
  <1>10. G_root \in C \cup {c}
    BY <1>0
  <1>11. \A x \in C \cup {c} : \A j \in Kids : kid2[x][j] # Null =>
           /\ kid2[x][j] # G_root /\ lev2[kid2[x][j]] = lev2[x] + 1
           /\ \A b \in Bodies :
                b \in zone2[kid2[x][j]] <=> b \in zone2[x] /\ pl[b][lev2[x] + 1] = j
    BY <1>6, Zenon
  <1>12. \A x, y \in C \cup {c} : \A j, i \in Kids :
           kid2[x][j] # Null /\ kid2[x][j] = kid2[y][i] => x = y /\ j = i
    <2> TAKE x, y \in C \cup {c}
    <2> TAKE j, i \in Kids
    <2> HAVE kid2[x][j] # Null /\ kid2[x][j] = kid2[y][i]
    <2> QED BY <1>7
  <1> QED BY <1>b, <1>5, <1>8, <1>10, <1>11, <1>12, Zenon DEF TreeShape

-----------------------------------------------------------------------------
(* What the leaves hold.                                                   *)

\* The leaves have the loaded bodies: src tells for each of them the place in
\* mybodytab it comes from, and all the places are told once.
Held(L, leaf, tab, loaded, src) ==
  /\ src \in [L -> Seq(Proc \X Nat)]
  /\ \A n \in L : Len(src[n]) = Len(leaf[n])
  /\ \A n \in L : \A i \in 1 .. Len(leaf[n]) :
       src[n][i] \in loaded /\ leaf[n][i] = tab[src[n][i][1]][src[n][i][2]]
  /\ \A n, m \in L : \A i \in 1 .. Len(leaf[n]) : \A j \in 1 .. Len(leaf[m]) :
       src[n][i] = src[m][j] => n = m /\ i = j
  /\ \A c \in loaded : \E n \in L : \E i \in 1 .. Len(leaf[n]) : src[n][i] = c

\* A new leaf with a body.
LEMMA HeldInsert ==
  ASSUME NEW L, NEW leaf \in [L -> Seq(Bodies)], NEW tab, NEW loaded, NEW src,
         Held(L, leaf, tab, loaded, src),
         NEW c \in Proc \X Nat, c \notin loaded, NEW b \in Bodies, b = tab[c[1]][c[2]],
         NEW le, le \notin L
  PROVE  Held(L \cup {le}, With(leaf, le, <<b>>), tab, loaded \cup {c}, With(src, le, <<c>>))
  <1> DEFINE leaf2 == With(leaf, le, <<b>>)
             src2  == With(src, le, <<c>>)
  <1>1. /\ leaf2 \in [L \cup {le} -> Seq(Bodies)] /\ Len(leaf2[le]) = 1 /\ leaf2[le][1] = b
        /\ \A n \in L : leaf2[n] = leaf[n]
    BY DEF With
  <1>2. /\ src2 \in [L \cup {le} -> Seq(Proc \X Nat)] /\ Len(src2[le]) = 1 /\ src2[le][1] = c
        /\ \A n \in L : src2[n] = src[n]
    <2>1. src \in [L -> Seq(Proc \X Nat)] /\ <<c>> \in Seq(Proc \X Nat)
      BY DEF Held
    <2> QED BY <2>1 DEF With
  <1> HIDE DEF leaf2, src2
  <1>h. /\ src \in [L -> Seq(Proc \X Nat)]
        /\ \A n \in L : \A i \in 1 .. Len(leaf[n]) :
             src[n][i] \in loaded /\ leaf[n][i] = tab[src[n][i][1]][src[n][i][2]]
        /\ \A n, m \in L : \A i \in 1 .. Len(leaf[n]) : \A j \in 1 .. Len(leaf[m]) :
             src[n][i] = src[m][j] => n = m /\ i = j
        /\ \A d \in loaded : \E n \in L : \E i \in 1 .. Len(leaf[n]) : src[n][i] = d
    BY DEF Held
  <1>4. \A n \in L \cup {le} : Len(src2[n]) = Len(leaf2[n])
    BY <1>1, <1>2 DEF Held
  <1>5. ASSUME NEW n \in L \cup {le}, NEW i \in 1 .. Len(leaf2[n])
        PROVE  src2[n][i] \in loaded \cup {c} /\ leaf2[n][i] = tab[src2[n][i][1]][src2[n][i][2]]
    <2>1. CASE n = le
      BY <1>1, <1>2, <2>1
    <2>2. CASE n # le
      BY <1>1, <1>2, <1>h, <2>2, SMTT(30)
    <2> QED BY <2>1, <2>2
  <1>6. ASSUME NEW n \in L \cup {le}, NEW m \in L \cup {le},
               NEW i \in 1 .. Len(leaf2[n]), NEW j \in 1 .. Len(leaf2[m]), src2[n][i] = src2[m][j]
        PROVE  n = m /\ i = j
    <2>1. \A x \in L : \A h \in 1 .. Len(leaf2[x]) : src2[x][h] # c
      BY <1>1, <1>2, <1>h
    <2>2. \A h \in 1 .. Len(leaf2[le]) : h = 1
      BY <1>1
    <2>3. CASE n \in L /\ m \in L
      <3>1. src[n][i] = src[m][j] /\ i \in 1 .. Len(leaf[n]) /\ j \in 1 .. Len(leaf[m])
        BY <1>1, <1>2, <1>6, <2>3
      <3>2. \A x, y \in L : \A h \in 1 .. Len(leaf[x]) : \A k \in 1 .. Len(leaf[y]) :
              src[x][h] = src[y][k] => x = y /\ h = k
        BY <1>h
      <3> QED BY <2>3, <3>1, <3>2
    <2>4. CASE n = le /\ m = le
      BY <1>6, <2>2, <2>4
    <2>5. CASE n = le /\ m \in L
      <3>1. src2[n][i] = c
        BY <1>2, <1>6, <2>2, <2>5
      <3> QED BY <1>6, <2>1, <2>5, <3>1
    <2>6. CASE n \in L /\ m = le
      <3>1. src2[m][j] = c
        BY <1>2, <1>6, <2>2, <2>6
      <3> QED BY <1>6, <2>1, <2>6, <3>1
    <2> QED BY <2>3, <2>4, <2>5, <2>6
  <1>7. ASSUME NEW d \in loaded \cup {c}
        PROVE  \E n \in L \cup {le} : \E i \in 1 .. Len(leaf2[n]) : src2[n][i] = d
    <2>1. CASE d = c
      BY <1>1, <1>2, <2>1
    <2>2. CASE d # c
      <3>1. PICK n \in L : \E i \in 1 .. Len(leaf[n]) : src[n][i] = d
        BY <1>h, <2>2
      <3> QED BY <1>1, <1>2, <3>1
    <2> QED BY <2>1, <2>2
  <1>8. Held(L \cup {le}, leaf2, tab, loaded \cup {c}, src2)
    BY <1>1, <1>2, <1>4, <1>5, <1>6, <1>7 DEF Held
  <1> QED BY <1>8 DEF leaf2, src2

\* One body more in a leaf.
LEMMA HeldAppend ==
  ASSUME NEW L, NEW leaf \in [L -> Seq(Bodies)], NEW tab, NEW loaded, NEW src,
         Held(L, leaf, tab, loaded, src),
         NEW c \in Proc \X Nat, c \notin loaded, NEW b \in Bodies, b = tab[c[1]][c[2]],
         NEW le \in L
  PROVE  Held(L, [leaf EXCEPT ![le] = Append(@, b)], tab, loaded \cup {c},
              [src EXCEPT ![le] = Append(@, c)])
  <1> DEFINE leaf2 == [leaf EXCEPT ![le] = Append(@, b)]
             src2  == [src EXCEPT ![le] = Append(@, c)]
             z     == Len(leaf[le])
  <1>0. /\ src \in [L -> Seq(Proc \X Nat)] /\ DOMAIN leaf = L /\ z \in Nat
        /\ \A n \in L : Len(src[n]) = Len(leaf[n]) /\ Len(leaf[n]) \in Nat
    BY DEF Held
  <1>1. /\ leaf2 \in [L -> Seq(Bodies)] /\ Len(leaf2[le]) = z + 1 /\ leaf2[le][z + 1] = b
        /\ \A i \in 1 .. z : leaf2[le][i] = leaf[le][i]
        /\ \A n \in L : n # le => leaf2[n] = leaf[n]
    <2>1. leaf[le] \in Seq(Bodies) /\ leaf2[le] = Append(leaf[le], b)
      OBVIOUS
    <2> QED BY <1>0, <2>1
  <1>2. /\ src2 \in [L -> Seq(Proc \X Nat)] /\ Len(src2[le]) = z + 1 /\ src2[le][z + 1] = c
        /\ \A i \in 1 .. z : src2[le][i] = src[le][i]
        /\ \A n \in L : n # le => src2[n] = src[n]
    <2>1. src[le] \in Seq(Proc \X Nat) /\ src2[le] = Append(src[le], c) /\ Len(src[le]) = z
      BY <1>0
    <2>2. src2[le] \in Seq(Proc \X Nat)
      BY <2>1
    <2> QED BY <1>0, <2>1, <2>2
  <1> HIDE DEF leaf2, src2, z
  <1>3. \A n \in L : Len(src2[n]) = Len(leaf2[n])
    BY <1>0, <1>1, <1>2
  <1>h. /\ src \in [L -> Seq(Proc \X Nat)]
        /\ \A n \in L : \A i \in 1 .. Len(leaf[n]) :
             src[n][i] \in loaded /\ leaf[n][i] = tab[src[n][i][1]][src[n][i][2]]
        /\ \A n, m \in L : \A i \in 1 .. Len(leaf[n]) : \A j \in 1 .. Len(leaf[m]) :
             src[n][i] = src[m][j] => n = m /\ i = j
        /\ \A d \in loaded : \E n \in L : \E i \in 1 .. Len(leaf[n]) : src[n][i] = d
    BY DEF Held
  <1>4. z = Len(leaf[le])
    BY DEF z
  <1>5. ASSUME NEW n \in L, NEW i \in 1 .. Len(leaf2[n])
        PROVE  \/ n = le /\ i = z + 1 /\ src2[n][i] = c /\ leaf2[n][i] = b
               \/ /\ i \in 1 .. Len(leaf[n]) /\ src2[n][i] = src[n][i] /\ src[n][i] \in loaded
                  /\ leaf2[n][i] = leaf[n][i]
    <2>1. CASE n # le
      BY <1>0, <1>1, <1>2, <1>h, <2>1
    <2>2. CASE n = le
      <3>1. i \in 1 .. z + 1 /\ z \in Nat
        BY <1>0, <1>1, <1>4, <2>2
      <3>2. CASE i = z + 1
        BY <1>1, <1>2, <2>2, <3>2
      <3>3. CASE i # z + 1
        <4>1. i \in 1 .. z
          BY <3>1, <3>3
        <4> QED BY <1>1, <1>2, <1>4, <1>h, <2>2, <4>1
      <3> QED BY <3>2, <3>3
    <2> QED BY <2>1, <2>2
  <1>6. ASSUME NEW n \in L, NEW i \in 1 .. Len(leaf2[n])
        PROVE  src2[n][i] \in loaded \cup {c} /\ leaf2[n][i] = tab[src2[n][i][1]][src2[n][i][2]]
    <2>1. CASE n = le /\ i = z + 1 /\ src2[n][i] = c /\ leaf2[n][i] = b
      BY <2>1
    <2>2. CASE /\ i \in 1 .. Len(leaf[n]) /\ src2[n][i] = src[n][i] /\ src[n][i] \in loaded
               /\ leaf2[n][i] = leaf[n][i]
      BY <1>h, <2>2
    <2> QED BY <1>5, <2>1, <2>2
  <1>7. ASSUME NEW n \in L, NEW m \in L,
               NEW i \in 1 .. Len(leaf2[n]), NEW j \in 1 .. Len(leaf2[m]), src2[n][i] = src2[m][j]
        PROVE  n = m /\ i = j
    <2> DEFINE new(x, h) == x = le /\ h = z + 1 /\ src2[x][h] = c
               old(x, h) == h \in 1 .. Len(leaf[x]) /\ src2[x][h] = src[x][h] /\ src[x][h] \in loaded
    <2>1. (new(n, i) \/ old(n, i)) /\ (new(m, j) \/ old(m, j))
      BY <1>5
    <2>0. src2[n][i] = src2[m][j]
      BY <1>7
    <2>2. CASE old(n, i) /\ old(m, j)
      <3>1. src[n][i] = src[m][j] /\ i \in 1 .. Len(leaf[n]) /\ j \in 1 .. Len(leaf[m])
        BY <2>0, <2>2, Zenon
      <3>2. n \in L /\ m \in L
        BY <2>2
      <3> QED BY <1>h, <3>1, <3>2
    <2>3. CASE new(n, i) /\ new(m, j)
      BY <2>3
    <2>4. CASE new(n, i) /\ old(m, j)
      <3>1. src[m][j] = c
        BY <2>0, <2>4, Zenon
      <3> QED BY <2>4, <3>1, Zenon
    <2>5. CASE old(n, i) /\ new(m, j)
      <3>1. src[n][i] = c
        BY <2>0, <2>5, Zenon
      <3> QED BY <2>5, <3>1, Zenon
    <2> HIDE DEF new, old
    <2> QED BY <2>1, <2>2, <2>3, <2>4, <2>5
  <1>8. ASSUME NEW d \in loaded \cup {c}
        PROVE  \E n \in L : \E i \in 1 .. Len(leaf2[n]) : src2[n][i] = d
    <2>1. CASE d = c
      BY <1>0, <1>1, <1>2, <2>1
    <2>2. CASE d # c
      <3>1. PICK n \in L : \E i \in 1 .. Len(leaf[n]) : src[n][i] = d
        BY <1>0, <1>h, <2>2
      <3>2. PICK i \in 1 .. Len(leaf[n]) : src[n][i] = d
        BY <3>1
      <3>3. i \in 1 .. Len(leaf2[n])
        <4>1. CASE n = le
          BY <1>0, <1>1, <1>4, <4>1
        <4>2. CASE n # le
          BY <1>1, <4>2
        <4> QED BY <4>1, <4>2
      <3>4. src2[n][i] = src[n][i]
        BY <1>0, <1>1, <1>2, <1>4
      <3> QED BY <3>2, <3>3, <3>4
    <2> QED BY <2>1, <2>2
  <1>9. Held(L, leaf2, tab, loaded \cup {c}, src2)
    BY <1>1, <1>2, <1>3, <1>6, <1>7, <1>8 DEF Held
  <1> QED BY <1>9 DEF leaf2, src2

\* The bodies of a leaf go to some leaves.
Splits(L, leaf, src, le, M, f, to, leaf2, src2) ==
  /\ le \in L /\ le \in M /\ \A n \in L : n \in M => n = le
  /\ f \in [1 .. Len(leaf[le]) -> M]
  /\ to = [n \in M |-> {i \in 1 .. Len(leaf[le]) : f[i] = n}]
  /\ leaf2 = [n \in L \cup M |-> IF n \in M THEN Part(leaf[le], to[n]) ELSE leaf[n]]
  /\ src2 = [n \in L \cup M |-> IF n \in M THEN Part(src[le], to[n]) ELSE src[n]]

LEMMA HeldSplit ==
  ASSUME NEW L, NEW leaf \in [L -> Seq(Bodies)], NEW tab, NEW loaded, NEW src,
         Held(L, leaf, tab, loaded, src), NEW le, NEW M, NEW f, NEW to, NEW leaf2, NEW src2,
         Splits(L, leaf, src, le, M, f, to, leaf2, src2)
  PROVE  Held(L \cup M, leaf2, tab, loaded, src2)
  <1> DEFINE z    == Len(leaf[le])
             Pair == Proc \X Nat
  <1>a. /\ le \in L /\ le \in M /\ \A n \in L : n \in M => n = le
        /\ f \in [1 .. z -> M]
    BY DEF Splits
  <1>b. \A n \in M : to[n] = {i \in 1 .. z : f[i] = n}
    BY DEF Splits
  <1>c. /\ DOMAIN leaf2 = L \cup M /\ leaf2 = [n \in L \cup M |-> leaf2[n]]
        /\ DOMAIN src2 = L \cup M /\ src2 = [n \in L \cup M |-> src2[n]]
        /\ \A n \in M : leaf2[n] = Part(leaf[le], to[n]) /\ src2[n] = Part(src[le], to[n])
        /\ \A n \in L : n \notin M => leaf2[n] = leaf[n] /\ src2[n] = src[n]
    <2>1. leaf2 = [n \in L \cup M |-> IF n \in M THEN Part(leaf[le], to[n]) ELSE leaf[n]]
      BY DEF Splits
    <2>2. src2 = [n \in L \cup M |-> IF n \in M THEN Part(src[le], to[n]) ELSE src[n]]
      BY DEF Splits
    <2>3. /\ DOMAIN leaf2 = L \cup M /\ leaf2 = [n \in L \cup M |-> leaf2[n]]
          /\ \A n \in M : leaf2[n] = Part(leaf[le], to[n])
          /\ \A n \in L : n \notin M => leaf2[n] = leaf[n]
      BY <2>1
    <2>4. /\ DOMAIN src2 = L \cup M /\ src2 = [n \in L \cup M |-> src2[n]]
          /\ \A n \in M : src2[n] = Part(src[le], to[n])
          /\ \A n \in L : n \notin M => src2[n] = src[n]
      BY <2>2
    <2> QED BY <2>3, <2>4
  <1>h. /\ src \in [L -> Seq(Pair)]
        /\ \A n \in L : \A i \in 1 .. Len(leaf[n]) :
             src[n][i] \in loaded /\ leaf[n][i] = tab[src[n][i][1]][src[n][i][2]]
        /\ \A n, m \in L : \A i \in 1 .. Len(leaf[n]) : \A j \in 1 .. Len(leaf[m]) :
             src[n][i] = src[m][j] => n = m /\ i = j
        /\ \A d \in loaded : \E n \in L : \E i \in 1 .. Len(leaf[n]) : src[n][i] = d
        /\ \A n \in L : Len(src[n]) = Len(leaf[n])
    BY DEF Held
  <1>0. /\ leaf[le] \in Seq(Bodies) /\ src[le] \in Seq(Pair) /\ z \in Nat /\ Len(src[le]) = z
        /\ DOMAIN leaf[le] = 1 .. z /\ DOMAIN src[le] = 1 .. z
    BY <1>a, <1>h
  <1>1. \A n \in M : to[n] \in SUBSET (1 .. z)
    BY <1>b
  <1>2. ASSUME NEW n \in M
        PROVE  /\ IsFiniteSet(to[n]) /\ to[n] \subseteq Int /\ Cardinality(to[n]) \in Nat
               /\ leaf2[n] \in Seq(Bodies) /\ Len(leaf2[n]) = Cardinality(to[n])
               /\ src2[n] \in Seq(Pair) /\ Len(src2[n]) = Cardinality(to[n])
               /\ \A i \in 1 .. Cardinality(to[n]) : /\ leaf2[n][i] = leaf[le][Position(to[n], i)]
                                                   /\ src2[n][i] = src[le][Position(to[n], i)]
    <2>1. to[n] \in SUBSET DOMAIN leaf[le] /\ to[n] \in SUBSET DOMAIN src[le]
      BY <1>0, <1>1
    <2>2. leaf2[n] = Part(leaf[le], to[n]) /\ src2[n] = Part(src[le], to[n])
      BY <1>c
    <2>3. to[n] \subseteq Int
      BY <1>1
    <2> HIDE DEF z
    <2>a. \A x \in Seq(Pair) : to[n] \in SUBSET DOMAIN x =>
            /\ Part(x, to[n]) \in Seq(Pair)
            /\ Len(Part(x, to[n])) = Cardinality(to[n])
            /\ \A j \in 1 .. Cardinality(to[n]) : Part(x, to[n])[j] = x[Position(to[n], j)]
      BY PartOfSeq
    <2>b. \A x \in Seq(Bodies) : to[n] \in SUBSET DOMAIN x =>
            /\ IsFiniteSet(to[n])
            /\ Part(x, to[n]) \in Seq(Bodies)
            /\ Len(Part(x, to[n])) = Cardinality(to[n])
            /\ \A j \in 1 .. Cardinality(to[n]) : Part(x, to[n])[j] = x[Position(to[n], j)]
      BY PartOfSeq
    <2>4. /\ IsFiniteSet(to[n]) /\ Part(leaf[le], to[n]) \in Seq(Bodies)
          /\ Len(Part(leaf[le], to[n])) = Cardinality(to[n])
          /\ \A j \in 1 .. Cardinality(to[n]) :
               Part(leaf[le], to[n])[j] = leaf[le][Position(to[n], j)]
      BY <1>0, <2>1, <2>b, Zenon
    <2>5. /\ Part(src[le], to[n]) \in Seq(Pair)
          /\ Len(Part(src[le], to[n])) = Cardinality(to[n])
          /\ \A j \in 1 .. Cardinality(to[n]) :
               Part(src[le], to[n])[j] = src[le][Position(to[n], j)]
      BY <1>0, <2>1, <2>a, Zenon
    <2>6. Cardinality(to[n]) \in Nat
      BY <2>4, FS_CardinalityType
    <2> QED BY <2>2, <2>3, <2>4, <2>5, <2>6
  <1>3. \A n \in L : n \notin M => leaf2[n] = leaf[n] /\ src2[n] = src[n]
    BY <1>c
  <1>4. /\ leaf2 \in [L \cup M -> Seq(Bodies)] /\ src2 \in [L \cup M -> Seq(Pair)]
        /\ \A n \in L \cup M : Len(src2[n]) = Len(leaf2[n])
    <2>3. \A n \in L \cup M : leaf2[n] \in Seq(Bodies) /\ src2[n] \in Seq(Pair)
                               /\ Len(src2[n]) = Len(leaf2[n])
      <3> SUFFICES ASSUME NEW n \in L \cup M
                   PROVE  leaf2[n] \in Seq(Bodies) /\ src2[n] \in Seq(Pair)
                          /\ Len(src2[n]) = Len(leaf2[n])
        OBVIOUS
      <3>1. CASE n \in M
        BY <1>2, <3>1
      <3>2. CASE n \notin M
        <4>1. leaf2[n] = leaf[n] /\ src2[n] = src[n] /\ n \in L
          BY <1>3, <3>2
        <4> QED BY <1>h, <4>1
      <3> QED BY <3>1, <3>2
    <2> QED BY <1>c, <2>3
  <1>s. \A m \in L : \A i \in 1 .. z : \A j \in 1 .. Len(leaf[m]) :
          src[le][i] = src[m][j] => m = le /\ i = j
    BY <1>a, <1>h
  <1>t. \A i, j \in 1 .. z : src[le][i] = src[le][j] => i = j
    BY <1>a, <1>s
  <1>5. ASSUME NEW n \in L \cup M, NEW i \in 1 .. Len(leaf2[n])
        PROVE  \/ /\ n \in L /\ n \notin M /\ i \in 1 .. Len(leaf[n])
                  /\ src2[n][i] = src[n][i] /\ leaf2[n][i] = leaf[n][i]
               \/ /\ n \in M /\ i \in 1 .. Cardinality(to[n])
                  /\ Position(to[n], i) \in 1 .. z /\ f[Position(to[n], i)] = n
                  /\ src2[n][i] = src[le][Position(to[n], i)]
                  /\ leaf2[n][i] = leaf[le][Position(to[n], i)]
    <2>1. CASE n \notin M
      BY <1>3, <2>1
    <2>2. CASE n \in M
      <3>1. i \in 1 .. Cardinality(to[n])
        BY <1>2, <2>2
      <3>2. Position(to[n], i) \in to[n]
        BY <1>2, <2>2, <3>1, Positions
      <3>3. Position(to[n], i) \in 1 .. z /\ f[Position(to[n], i)] = n
        BY <1>b, <2>2, <3>2
      <3> QED BY <1>2, <2>2, <3>1, <3>3
    <2> QED BY <2>1, <2>2
  <1>6. ASSUME NEW n \in L \cup M, NEW i \in 1 .. Len(leaf2[n])
        PROVE  src2[n][i] \in loaded /\ leaf2[n][i] = tab[src2[n][i][1]][src2[n][i][2]]
    <2>1. CASE /\ n \in L /\ n \notin M /\ i \in 1 .. Len(leaf[n])
               /\ src2[n][i] = src[n][i] /\ leaf2[n][i] = leaf[n][i]
      BY <1>h, <2>1
    <2>2. CASE /\ n \in M /\ i \in 1 .. Cardinality(to[n])
               /\ Position(to[n], i) \in 1 .. z /\ f[Position(to[n], i)] = n
               /\ src2[n][i] = src[le][Position(to[n], i)]
               /\ leaf2[n][i] = leaf[le][Position(to[n], i)]
      BY <1>a, <1>h, <2>2
    <2> QED BY <1>5, <2>1, <2>2
  <1>7. ASSUME NEW n \in L \cup M, NEW m \in L \cup M,
               NEW i \in 1 .. Len(leaf2[n]), NEW j \in 1 .. Len(leaf2[m]), src2[n][i] = src2[m][j]
        PROVE  n = m /\ i = j
    <2> DEFINE old(x, h) == /\ x \in L /\ x \notin M /\ h \in 1 .. Len(leaf[x])
                            /\ src2[x][h] = src[x][h]
               new(x, h) == /\ x \in M /\ h \in 1 .. Cardinality(to[x])
                            /\ Position(to[x], h) \in 1 .. z /\ f[Position(to[x], h)] = x
                            /\ src2[x][h] = src[le][Position(to[x], h)]
    <2>1. (new(n, i) \/ old(n, i)) /\ (new(m, j) \/ old(m, j))
      BY <1>5
    <2>0. src2[n][i] = src2[m][j]
      BY <1>7
    <2>2. CASE old(n, i) /\ old(m, j)
      <3>1. src[n][i] = src[m][j] /\ i \in 1 .. Len(leaf[n]) /\ j \in 1 .. Len(leaf[m])
        BY <2>0, <2>2, Zenon
      <3>2. n \in L /\ m \in L
        BY <2>2
      <3> QED BY <1>h, <3>1, <3>2
    <2>3. CASE new(n, i) /\ new(m, j)
      <3>1. Position(to[n], i) = Position(to[m], j)
        <4>1. src[le][Position(to[n], i)] = src[le][Position(to[m], j)]
          BY <2>0, <2>3, Zenon
        <4> HIDE DEF z
        <4> QED BY <1>t, <2>3, <4>1, Zenon
      <3>2. n = m
        BY <2>3, <3>1
      <3>3. i = j
        BY <1>2, <2>3, <3>1, <3>2, Positions
      <3> QED BY <3>2, <3>3
    <2>4. CASE new(n, i) /\ old(m, j)
      <3>1. src[m][j] = src[le][Position(to[n], i)]
        BY <2>0, <2>4, Zenon
      <3> HIDE DEF z
      <3> QED BY <1>a, <1>s, <2>4, <3>1, Zenon
    <2>5. CASE old(n, i) /\ new(m, j)
      <3>1. src[n][i] = src[le][Position(to[m], j)]
        BY <2>0, <2>5, Zenon
      <3> HIDE DEF z
      <3> QED BY <1>a, <1>s, <2>5, <3>1, Zenon
    <2> HIDE DEF new, old
    <2> QED BY <2>1, <2>2, <2>3, <2>4, <2>5
  <1>8. ASSUME NEW d \in loaded
        PROVE  \E n \in L \cup M : \E i \in 1 .. Len(leaf2[n]) : src2[n][i] = d
    <2>1. PICK n \in L : \E i \in 1 .. Len(leaf[n]) : src[n][i] = d
      BY <1>h
    <2>2. PICK i \in 1 .. Len(leaf[n]) : src[n][i] = d
      BY <2>1
    <2>3. CASE n \in M
      <3>1. n = le /\ i \in 1 .. z /\ f[i] \in M /\ i \in to[f[i]]
        BY <1>a, <1>b, <2>3
      <3>2. PICK j \in 1 .. Cardinality(to[f[i]]) : Position(to[f[i]], j) = i
        BY <1>2, <3>1, Positions
      <3>3. j \in 1 .. Len(leaf2[f[i]]) /\ src2[f[i]][j] = src[le][i]
        BY <1>2, <3>1, <3>2
      <3> QED BY <2>2, <3>1, <3>3
    <2>4. CASE n \notin M
      <3>1. leaf2[n] = leaf[n] /\ src2[n] = src[n]
        BY <1>3, <2>4
      <3>2. i \in 1 .. Len(leaf2[n]) /\ src2[n][i] = d
        BY <2>2, <3>1
      <3> QED BY <3>2
    <2> QED BY <2>3, <2>4
  <1> QED BY <1>4, <1>6, <1>7, <1>8 DEF Held

-----------------------------------------------------------------------------
(* While the bodies are loaded.                                            *)

Holding == {"insert", "add", "subdivide", "hang"}
Walking == {"empty?", "grow", "leaf?", "open", "descend"} \cup Holding

\* The places of mybodytab whose bodies are in the tree.
Past(q, i) == i \in DOMAIN mybodytab[q] /\ (at[q].pc = "loaded" \/ i < at[q].i)
Loaded     == {c \in Proc \X Nat : Past(c[1], c[2])}

Filled(zone) ==
  \A n \in DOMAIN bodyp : /\ Len(bodyp[n]) \in 1 .. MAX_BODIES_PER_LEAF
                         /\ \A i \in 1 .. Len(bodyp[n]) : bodyp[n][i] \in zone[n]

\* A cell that a process has made is in the tree of kid before it hangs it there.
Links(kid) ==
  /\ subp \in [DOMAIN subp -> [Kids -> Node \cup {Null}]]
  /\ \A n \in DOMAIN subp : \A k \in Kids :
       (\A p \in Proc : Is(p, "hang") => ~(at[p].node = n /\ Index(p) = k)) => subp[n][k] = kid[n][k]

\* A process on its way down.
Walker(p, kid, lev, zone) ==
  /\ at[p].pc = "load" => at[p].node = G_root /\ at[p].l = 1
  /\ at[p].pc \in Walking =>
    /\ at[p].i \in DOMAIN mybodytab[p]
    /\ at[p].node \in DOMAIN subp /\ Body(p) \in zone[at[p].node]
    /\ at[p].l = lev[at[p].node] + 1 /\ at[p].l < Levels
    /\ at[p].pc \in Holding => lock[Mutex(p)] = p
    /\ at[p].pc = "insert" => Slot(p) = Null
    /\ at[p].pc \in {"leaf?", "open"} => Slot(p) # Null
    /\ at[p].pc \in {"add", "subdivide"} => at[p].le = Slot(p) /\ at[p].le \in DOMAIN bodyp
    /\ at[p].pc = "add" => Len(bodyp[at[p].le]) < MAX_BODIES_PER_LEAF
    /\ at[p].pc = "subdivide" => Len(bodyp[at[p].le]) = MAX_BODIES_PER_LEAF
    /\ at[p].pc = "hang" => /\ Slot(p) \in DOMAIN bodyp /\ at[p].le \in DOMAIN subp
                            /\ kid[at[p].node][Index(p)] = at[p].le
    /\ at[p].pc = "descend" => Slot(p) \in DOMAIN subp

InCube == \A p \in Proc : \A i \in DOMAIN mybodytab[p] : mybodytab[p][i] \in cube

SoundTree(kid, lev, zone) ==
  TreeShape(DOMAIN subp, DOMAIN bodyp, place, kid, lev, zone) /\ Filled(zone)

LoadPhase(kid, lev, zone, src) ==
  /\ \A p \in Proc : at[p].pc \in {"load", "error", "loaded"} \cup Walking
  /\ InCube /\ done = {}
  /\ SoundTree(kid, lev, zone)
  /\ Held(DOMAIN bodyp, bodyp, mybodytab, Loaded, src)
  /\ Links(kid)
  /\ \A p \in Proc : Walker(p, kid, lev, zone)

\* What the others have loaded stays the same, and what this one has is told by Past.
LEMMA WhoLoaded ==
  ASSUME NEW p \in Proc, mybodytab' = mybodytab, \A q \in Proc : q # p => at'[q] = at[q]
  PROVE  /\ Loaded \subseteq Proc \X Nat /\ Loaded' \subseteq Proc \X Nat
         /\ \A q \in Proc : \A i \in Nat : q # p => (<<q, i>> \in Loaded' <=> <<q, i>> \in Loaded)
         /\ \A i \in Nat : (<<p, i>> \in Loaded <=> Past(p, i))
                        /\ (<<p, i>> \in Loaded' <=> Past(p, i)')
  <1>1. ASSUME NEW q \in Proc, NEW i \in Nat
        PROVE  (<<q, i>> \in Loaded <=> Past(q, i)) /\ (<<q, i>> \in Loaded' <=> Past(q, i)')
    <2>1. <<q, i>> \in Proc \X Nat /\ <<q, i>>[1] = q /\ <<q, i>>[2] = i
      OBVIOUS
    <2> QED BY <2>1 DEF Loaded
  <1>2. Loaded \subseteq Proc \X Nat /\ Loaded' \subseteq Proc \X Nat
    BY DEF Loaded
  <1>3. ASSUME NEW q \in Proc, NEW i \in Nat, q # p
        PROVE  <<q, i>> \in Loaded' <=> <<q, i>> \in Loaded
    <2>1. at'[q] = at[q]
      BY <1>3
    <2>2. Past(q, i)' <=> Past(q, i)
      BY <2>1 DEF Past
    <2> QED BY <1>1, <2>2
  <1> QED BY <1>1, <1>2, <1>3

\* Two sets of places are the same if they have the same pairs.
LEMMA SamePairs ==
  ASSUME NEW S, NEW T, S \subseteq Proc \X Nat, T \subseteq Proc \X Nat,
         \A q \in Proc : \A i \in Nat : <<q, i>> \in S <=> <<q, i>> \in T
  PROVE  S = T
  <1>1. ASSUME NEW c \in S \cup T PROVE c \in S <=> c \in T
    <2>1. c[1] \in Proc /\ c[2] \in Nat /\ c = <<c[1], c[2]>>
      OBVIOUS
    <2> QED BY <2>1
  <1> QED BY <1>1

\* A process that goes on with the same body has loaded the same.
LEMMA SameLoaded ==
  ASSUME NEW p \in Proc, mybodytab' = mybodytab, \A q \in Proc : q # p => at'[q] = at[q],
         \/ at[p].pc # "loaded" /\ at'[p].pc # "loaded" /\ at'[p].i = at[p].i
         \/ at'[p].pc = "loaded" /\ \A i \in DOMAIN mybodytab[p] : i < at[p].i
  PROVE  Loaded' = Loaded
  <1>1. \A i \in Nat : Past(p, i)' <=> Past(p, i)
    BY DEF Past
  <1>2. \A q \in Proc : \A i \in Nat : <<q, i>> \in Loaded' <=> <<q, i>> \in Loaded
    BY <1>1, WhoLoaded
  <1>3. Loaded \subseteq Proc \X Nat /\ Loaded' \subseteq Proc \X Nat
    BY WhoLoaded
  <1> QED BY <1>2, <1>3, SamePairs, Zenon

\* A process that goes on with its next body has loaded one more.
LEMMA OneMoreLoaded ==
  ASSUME NEW p \in Proc, mybodytab' = mybodytab, \A q \in Proc : q # p => at'[q] = at[q],
         at[p].pc # "loaded", at'[p].pc # "loaded", at[p].i \in Nat, at'[p].i = at[p].i + 1,
         at[p].i \in DOMAIN mybodytab[p]
  PROVE  /\ Loaded' = Loaded \cup {<<p, at[p].i>>} /\ <<p, at[p].i>> \notin Loaded
         /\ <<p, at[p].i>> \in Proc \X Nat
  <1>1. \A i \in Nat : Past(p, i)' <=> Past(p, i) \/ i = at[p].i
    BY DEF Past
  <1>2. \A q \in Proc : \A i \in Nat :
          <<q, i>> \in Loaded' <=> <<q, i>> \in Loaded \cup {<<p, at[p].i>>}
    BY <1>1, WhoLoaded
  <1>3. <<p, at[p].i>> \notin Loaded
    BY WhoLoaded DEF Past
  <1>4. Loaded' \subseteq Proc \X Nat /\ Loaded \cup {<<p, at[p].i>>} \subseteq Proc \X Nat
    BY WhoLoaded
  <1>5. Loaded' = Loaded \cup {<<p, at[p].i>>}
    <2> DEFINE T == Loaded \cup {<<p, at[p].i>>}
    <2>1. T \subseteq Proc \X Nat /\ \A q \in Proc : \A i \in Nat : <<q, i>> \in Loaded' <=> <<q, i>> \in T
      BY <1>2, <1>4
    <2> HIDE DEF T
    <2>2. Loaded' = T
      BY <1>4, <2>1, SamePairs
    <2> QED BY <2>2 DEF T
  <1> QED BY <1>3, <1>5

\* What a process does to its local variables.
LEMMA Moves ==
  ASSUME Types, NEW p \in Proc, NEW x
  PROVE  /\ Goto(p, x) \/ Enter(p, x) \/ Again(p, x) =>
              /\ at' = [q \in Proc |-> at'[q]] /\ \A q \in Proc : IsLocal(at'[q])
              /\ \A q \in Proc : q # p => at'[q] = at[q]
              /\ at'[p].pc = x
         /\ Goto(p, x) =>
              /\ at'[p].i = at[p].i /\ at'[p].node = at[p].node /\ at'[p].le = at[p].le
              /\ at'[p].l = at[p].l /\ at'[p].k = at[p].k /\ at'[p].todo = at[p].todo
         /\ Enter(p, x) => at'[p].i = 1 /\ at'[p].k = 1 /\ at'[p].todo = << >>
         /\ Again(p, x) => /\ at'[p].i = at[p].i + 1 /\ at'[p].k = 1 /\ at'[p].todo = << >>
                           /\ at'[p].node = G_root /\ at'[p].l = 1
  <1>1. at = [q \in Proc |-> at[q]] /\ \A q \in Proc : IsLocal(at[q])
    BY DEF Types
  <1>2. ASSUME Goto(p, x)
        PROVE  /\ at' = [q \in Proc |-> at'[q]] /\ \A q \in Proc : IsLocal(at'[q])
               /\ \A q \in Proc : q # p => at'[q] = at[q]
               /\ at'[p].pc = x
               /\ at'[p].i = at[p].i /\ at'[p].node = at[p].node /\ at'[p].le = at[p].le
               /\ at'[p].l = at[p].l /\ at'[p].k = at[p].k /\ at'[p].todo = at[p].todo
    <2>1. at' = [at EXCEPT ![p].pc = x]
      BY <1>2 DEF Goto
    <2>2. at'[p] = [at[p] EXCEPT !.pc = x] /\ \A q \in Proc : q # p => at'[q] = at[q]
      BY <1>1, <2>1
    <2>3. at' = [q \in Proc |-> at'[q]]
      BY <1>1, <2>1
    <2>4. at'[p] = [pc |-> x, i |-> at[p].i, node |-> at[p].node, le |-> at[p].le, l |-> at[p].l,
                    k |-> at[p].k, todo |-> at[p].todo, nstep |-> at[p].nstep]
      BY <1>1, <2>2 DEF IsLocal
    <2>5. IsLocal(at'[p])
      BY <1>1, <2>4 DEF IsLocal
    <2> QED BY <1>1, <2>2, <2>3, <2>4, <2>5
  <1>3. ASSUME Enter(p, x)
        PROVE  /\ at' = [q \in Proc |-> at'[q]] /\ \A q \in Proc : IsLocal(at'[q])
               /\ \A q \in Proc : q # p => at'[q] = at[q]
               /\ at'[p].pc = x
               /\ at'[p].i = 1 /\ at'[p].k = 1 /\ at'[p].todo = << >>
    <2>1. at' = [at EXCEPT ![p] = At(p, x)]
      BY <1>3 DEF Enter
    <2>2. at'[p] = At(p, x) /\ \A q \in Proc : q # p => at'[q] = at[q]
      BY <1>1, <2>1
    <2>3. at' = [q \in Proc |-> at'[q]]
      BY <1>1, <2>1
    <2>4. at'[p] = [pc |-> x, i |-> 1, node |-> G_root, le |-> Null, l |-> 1,
                    k |-> 1, todo |-> << >>, nstep |-> at[p].nstep]
      BY <2>2 DEF At, Local
    <2>5. IsLocal(at'[p])
      BY <2>4 DEF IsLocal
    <2> QED BY <1>1, <2>2, <2>3, <2>4, <2>5
  <1>4. ASSUME Again(p, x)
        PROVE  /\ at' = [q \in Proc |-> at'[q]] /\ \A q \in Proc : IsLocal(at'[q])
               /\ \A q \in Proc : q # p => at'[q] = at[q]
               /\ at'[p].pc = x
               /\ at'[p].i = at[p].i + 1 /\ at'[p].k = 1 /\ at'[p].todo = << >>
               /\ at'[p].node = G_root /\ at'[p].l = 1
    <2>1. at' = [at EXCEPT ![p] = [At(p, x) EXCEPT !.i = at[p].i + 1]]
      BY <1>4 DEF Again
    <2>2. /\ at'[p] = [At(p, x) EXCEPT !.i = at[p].i + 1]
          /\ \A q \in Proc : q # p => at'[q] = at[q]
      BY <1>1, <2>1
    <2>3. at' = [q \in Proc |-> at'[q]]
      BY <1>1, <2>1
    <2>4. at'[p] = [pc |-> x, i |-> at[p].i + 1, node |-> G_root, le |-> Null, l |-> 1,
                    k |-> 1, todo |-> << >>, nstep |-> at[p].nstep]
      BY <2>2 DEF At, Local
    <2>5. at[p].i + 1 \in Nat \ {0}
      BY <1>1 DEF IsLocal
    <2>6. IsLocal(at'[p])
      BY <2>4, <2>5 DEF IsLocal
    <2>7. /\ at'[p].pc = x /\ at'[p].i = at[p].i + 1 /\ at'[p].k = 1 /\ at'[p].todo = << >>
          /\ at'[p].node = G_root /\ at'[p].l = 1
      BY <2>4
    <2> QED BY <1>1, <2>2, <2>3, <2>6, <2>7
  <1> QED BY <1>2, <1>3, <1>4

\* The mutexes.
LEMMA Mutexes ==
  ASSUME Types, NEW p \in Proc
  PROVE  /\ Locked(p) => /\ lock' \in [0 .. MAXLOCK - 1 -> Proc \cup {Free}]
                         /\ \A m \in 0 .. MAXLOCK - 1 :
                              lock'[m] = IF m = Mutex(p) THEN p ELSE lock[m]
         /\ Released(p) => /\ lock' \in [0 .. MAXLOCK - 1 -> Proc \cup {Free}]
                           /\ \A m \in 0 .. MAXLOCK - 1 :
                                lock'[m] = IF m = Mutex(p) THEN Free ELSE lock[m]
         /\ at[p].node \in DOMAIN subp => Mutex(p) \in 0 .. MAXLOCK - 1
         /\ p # Free
  <1>1. ASSUME NEW n \in CellNames PROVE CL(n) \in 0 .. MAXLOCK - 1
    <2>1. n[2] \in Int /\ n[3] \in Int /\ maxmycell \in Int
      BY BarnesAssumption DEF CellNames, Proc
    <2>2. n[2] * maxmycell + n[3] \in Int
      BY <2>1
    <2>3. \A x \in Int : \A m \in Nat \ {0} : x % m \in 0 .. m - 1
      OBVIOUS
    <2> QED BY <2>2, <2>3, BarnesAssumption DEF CL
  <1>2. at[p].node \in DOMAIN subp => Mutex(p) \in 0 .. MAXLOCK - 1
    BY <1>1, Names DEF Mutex
  <1>3. p # Free
    BY BarnesAssumption DEF Proc, Free
  <1>4. lock \in [0 .. MAXLOCK - 1 -> Proc \cup {Free}]
    BY DEF Types
  <1> QED BY <1>2, <1>3, <1>4 DEF Locked, Released

\* A process goes on, and may take a mutex, but leaves the tree alone.
LEMMA Walks ==
  ASSUME Types, NEW kid, NEW lev, NEW zone, NEW src, LoadPhase(kid, lev, zone, src),
         NEW p \in Proc, UNCHANGED <<place, subp, bodyp, mybodytab, done, cube>>,
         \A q \in Proc : q # p => at'[q] = at[q],
         at[p].pc # "hang", at'[p].pc # "hang",
         at'[p].pc \in {"load", "error", "loaded"} \cup Walking,
         Loaded' = Loaded,
         \A m \in 0 .. MAXLOCK - 1 : lock'[m] = lock[m] \/ lock[m] = Free,
         Walker(p, kid, lev, zone)'
  PROVE  LoadPhase(kid, lev, zone, src)'
  <1>1. \A q \in Proc : at'[q].pc \in {"load", "error", "loaded"} \cup Walking
    BY DEF LoadPhase
  <1>2. InCube' /\ done' = {}
    BY DEF LoadPhase, InCube
  <1>3. SoundTree(kid, lev, zone)'
    BY DEF LoadPhase, SoundTree, Filled
  <1>4. Held(DOMAIN bodyp, bodyp, mybodytab, Loaded, src)'
    BY DEF LoadPhase
  <1>5. Links(kid)'
    <2>1. \A q \in Proc : Is(q, "hang") => Is(q, "hang")' /\ at'[q] = at[q] /\ Index(q)' = Index(q)
      BY DEF Is, Index, Body
    <2> QED BY <2>1 DEF LoadPhase, Links, Node
  <1>6. ASSUME NEW q \in Proc PROVE Walker(q, kid, lev, zone)'
    <2>1. CASE q = p
      BY <2>1
    <2>2. CASE q # p
      <3>1. /\ at'[q] = at[q] /\ Body(q)' = Body(q) /\ Slot(q)' = Slot(q) /\ Mutex(q)' = Mutex(q)
            /\ Index(q)' = Index(q)
        BY <2>2 DEF Body, Slot, Mutex, Index
      <3>2. Walker(q, kid, lev, zone)
        BY DEF LoadPhase
      <3>3. lock[Mutex(q)] = q /\ Mutex(q) \in 0 .. MAXLOCK - 1 => lock'[Mutex(q)] = q
        <4>1. q # Free
          BY BarnesAssumption DEF Proc, Free
        <4> QED BY <4>1
      <3>4. at[q].pc \in Walking => Mutex(q) \in 0 .. MAXLOCK - 1
        BY <3>2, Mutexes DEF Walker
      <3>5. Holding \subseteq Walking
        BY DEF Walking
      <3> QED BY <3>1, <3>2, <3>3, <3>4, <3>5 DEF Walker
    <2> QED BY <2>1, <2>2
  <1> QED BY <1>1, <1>2, <1>3, <1>4, <1>5, <1>6 DEF LoadPhase

\* Where a process on its way down is.
LEMMA WalkerPlace ==
  ASSUME Types, NEW kid, NEW lev, NEW zone, NEW src, LoadPhase(kid, lev, zone, src), NEW p \in Proc,
         at[p].pc \in Walking
  PROVE  /\ at[p].i \in DOMAIN mybodytab[p] /\ Body(p) \in Bodies
         /\ at[p].node \in DOMAIN subp /\ Body(p) \in zone[at[p].node]
         /\ lev[at[p].node] \in 0 .. Levels /\ at[p].l = lev[at[p].node] + 1 /\ at[p].l < Levels
         /\ at[p].l \in 1 .. Levels /\ Index(p) \in Kids
         /\ subp[at[p].node] \in [Kids -> Node \cup {Null}]
         /\ Slot(p) = subp[at[p].node][Index(p)] /\ Slot(p) \in Node \cup {Null}
         /\ Index(p) = place[Body(p)][lev[at[p].node] + 1]
  <1>1. /\ at[p].i \in DOMAIN mybodytab[p]
        /\ at[p].node \in DOMAIN subp /\ Body(p) \in zone[at[p].node]
        /\ at[p].l = lev[at[p].node] + 1 /\ at[p].l < Levels
    BY DEF LoadPhase, Walker
  <1>2. Levels \in Nat /\ lev[at[p].node] \in 0 .. Levels
    BY <1>1, BarnesAssumption DEF LoadPhase, SoundTree, TreeShape
  <1>3. mybodytab[p] \in Seq(Bodies)
    BY DEF Types
  <1>4. Body(p) \in Bodies
    BY <1>1, <1>3 DEF Body
  <1>5. at[p].l \in 1 .. Levels
    BY <1>1, <1>2
  <1>6. Index(p) \in Kids /\ Index(p) = place[Body(p)][lev[at[p].node] + 1]
    <2>1. place[Body(p)] \in [1 .. Levels -> Kids]
      BY <1>4 DEF Types, Place
    <2>2. Index(p) = place[Body(p)][at[p].l]
      BY DEF Index
    <2> QED BY <1>1, <1>5, <2>1, <2>2
  <1>7. subp[at[p].node] \in [Kids -> Node \cup {Null}]
    BY <1>1 DEF LoadPhase, Links
  <1> QED BY <1>1, <1>2, <1>4, <1>5, <1>6, <1>7 DEF Slot

\* The steps of a process that looks for the place of a body.
LEMMA LookingAround ==
  ASSUME Types, NEW kid, NEW lev, NEW zone, NEW src, LoadPhase(kid, lev, zone, src), NEW p \in Proc,
         \/ NextBody(p) \/ LookForNull(p) \/ LookForLeaf(p) \/ LockNull(p) \/ LockLeaf(p)
         \/ Descend(p)
  PROVE  Types' /\ LoadPhase(kid, lev, zone, src)'
  <1>1. UNCHANGED <<place, subp, bodyp, myncell, mynleaf, mybodytab, done, cube>>
    BY DEF NextBody, LookForNull, LookForLeaf, LockNull, LockLeaf, Descend, Loading, Tree, Box, Sums
  <1>2. /\ at[p].pc = "load" => at[p].node = G_root /\ at[p].l = 1
        /\ at[p].pc \in Walking => Walker(p, kid, lev, zone)
    BY DEF LoadPhase, Walker
  <1>3. /\ Levels \in Nat \ {0, 1} /\ IsLocal(at[p]) /\ mybodytab[p] \in Seq(Bodies)
        /\ \A n \in DOMAIN subp : Type(n) = "cell"
        /\ \A n \in DOMAIN bodyp : Type(n) = "leaf"
        /\ G_root \in DOMAIN subp /\ zone[G_root] = Bodies /\ lev[G_root] = 0
        /\ Type(Null) = "null"
    BY BarnesAssumption, Names DEF Types, LoadPhase, SoundTree, TreeShape
  <1> DEFINE Placed == /\ at' = [q \in Proc |-> at'[q]] /\ \A q \in Proc : IsLocal(at'[q])
                       /\ \A q \in Proc : q # p => at'[q] = at[q]
             Mutexed == /\ lock' \in [0 .. MAXLOCK - 1 -> Proc \cup {Free}]
                        /\ \A m \in 0 .. MAXLOCK - 1 : lock'[m] = lock[m] \/ lock[m] = Free
             Goal == /\ at[p].pc # "hang" /\ at'[p].pc # "hang"
                     /\ at'[p].pc \in {"load", "error", "loaded"} \cup Walking
                     /\ Loaded' = Loaded /\ Walker(p, kid, lev, zone)'
  <1>4. UNCHANGED lock => Mutexed
    BY DEF Types
  <1>a. ASSUME Placed, at[p].pc # "loaded", at'[p].pc # "loaded", at'[p].i = at[p].i
        PROVE  Loaded' = Loaded
    BY <1>1, <1>a, SameLoaded
  <1>b. ASSUME at'[p].i = at[p].i, at'[p].node = at[p].node, at'[p].l = at[p].l
        PROVE  Body(p)' = Body(p) /\ Index(p)' = Index(p) /\ Slot(p)' = Slot(p) /\ Mutex(p)' = Mutex(p)
    BY <1>1, <1>b DEF Body, Index, Slot, Mutex
  <1>c. ASSUME NEW x, Goto(p, x)
        PROVE  /\ Placed /\ at'[p].pc = x
               /\ at'[p].i = at[p].i /\ at'[p].node = at[p].node /\ at'[p].l = at[p].l
               /\ at'[p].le = at[p].le
    BY <1>c, Moves
  <1>d. ASSUME NEW x \in {"empty?", "grow", "leaf?", "open", "descend"}, Goto(p, x),
               at[p].pc \in Walking \ {"hang"},
               x \in {"leaf?", "open"} => Slot(p) # Null,
               x = "descend" => Slot(p) \in DOMAIN subp
        PROVE  Placed /\ Goal
    <2>1. /\ Placed /\ at'[p].pc = x /\ Loaded' = Loaded
      BY <1>a, <1>c, <1>d DEF Walking, Holding
    <2>2. Body(p)' = Body(p) /\ Index(p)' = Index(p) /\ Slot(p)' = Slot(p) /\ Mutex(p)' = Mutex(p)
      BY <1>b, <1>c, <1>d
    <2>3. /\ at[p].i \in DOMAIN mybodytab[p]
          /\ at[p].node \in DOMAIN subp /\ Body(p) \in zone[at[p].node]
          /\ at[p].l = lev[at[p].node] + 1 /\ at[p].l < Levels
      BY <1>2, <1>d DEF Walker
    <2>4. at'[p].i = at[p].i /\ at'[p].node = at[p].node /\ at'[p].l = at[p].l
      BY <1>c, <1>d
    <2>5. Walker(p, kid, lev, zone)'
      BY <1>1, <1>d, <2>1, <2>2, <2>3, <2>4 DEF Walker, Walking, Holding
    <2> QED BY <1>d, <2>1, <2>5 DEF Walking, Holding
  <1>5. ASSUME NextBody(p) PROVE Placed /\ Mutexed /\ Goal
    <2>1. at[p].pc = "load" /\ UNCHANGED lock
      BY <1>5 DEF NextBody, Is
    <2>2. CASE at[p].i > Len(mybodytab[p])
      <3>1. Enter(p, "loaded")
        BY <1>5, <2>2 DEF NextBody
      <3>2. Placed /\ at'[p].pc = "loaded"
        BY <3>1, Moves
      <3>3. Loaded' = Loaded
        <4>1. \A j \in DOMAIN mybodytab[p] : j < at[p].i
          BY <1>3, <2>2 DEF IsLocal
        <4> QED BY <1>1, <3>2, <4>1, SameLoaded
      <3>4. Walker(p, kid, lev, zone)'
        BY <3>2 DEF Walker, Walking, Holding
      <3> QED BY <1>4, <2>1, <3>2, <3>3, <3>4
    <2>3. CASE ~(at[p].i > Len(mybodytab[p]))
      <3>1. Goto(p, "empty?")
        BY <1>5, <2>3 DEF NextBody
      <3>2. /\ Placed /\ at'[p].pc = "empty?" /\ Loaded' = Loaded
        BY <1>a, <1>c, <2>1, <3>1
      <3>3. at[p].i \in DOMAIN mybodytab[p] /\ Body(p) \in Bodies
        BY <1>3, <2>3 DEF IsLocal, Body
      <3>4. Body(p)' = Body(p)
        BY <1>b, <1>c, <3>1
      <3>5. at'[p].i = at[p].i /\ at'[p].node = G_root /\ at'[p].l = 1
        BY <1>2, <1>c, <2>1, <3>1
      <3>6. Walker(p, kid, lev, zone)'
        BY <1>1, <1>3, <3>2, <3>3, <3>4, <3>5 DEF Walker, Walking, Holding
      <3> QED BY <1>4, <2>1, <3>2, <3>6 DEF Walking
    <2> QED BY <2>2, <2>3
  <1>6. ASSUME LookForNull(p) PROVE Placed /\ Mutexed /\ Goal
    <2>1. at[p].pc = "empty?" /\ UNCHANGED lock
      BY <1>6 DEF LookForNull, Is
    <2>2. at[p].pc \in Walking \ {"hang"}
      BY <2>1 DEF Walking
    <2>3. CASE Slot(p) = Null
      BY <1>4, <1>6, <1>d, <2>1, <2>2, <2>3 DEF LookForNull
    <2>4. CASE Slot(p) # Null
      BY <1>4, <1>6, <1>d, <2>1, <2>2, <2>4 DEF LookForNull
    <2> QED BY <2>3, <2>4
  <1>7. ASSUME LookForLeaf(p) PROVE Placed /\ Mutexed /\ Goal
    <2>1. at[p].pc = "leaf?" /\ UNCHANGED lock
      BY <1>7 DEF LookForLeaf, Is
    <2>2. at[p].pc \in Walking \ {"hang"}
      BY <2>1 DEF Walking
    <2>3. Slot(p) # Null /\ (Type(Slot(p)) # "leaf" => Slot(p) \in DOMAIN subp)
      <3>1. Slot(p) # Null
        BY <1>2, <2>1, <2>2 DEF Walker
      <3>2. Slot(p) \in Node \cup {Null}
        BY <2>2, WalkerPlace
      <3> QED BY <1>3, <3>1, <3>2 DEF Node
    <2>4. CASE Type(Slot(p)) = "leaf"
      BY <1>4, <1>7, <1>d, <2>1, <2>2, <2>3, <2>4 DEF LookForLeaf
    <2>5. CASE Type(Slot(p)) # "leaf"
      BY <1>4, <1>7, <1>d, <2>1, <2>2, <2>3, <2>5 DEF LookForLeaf
    <2> QED BY <2>4, <2>5
  <1>8. ASSUME LockNull(p) PROVE Placed /\ Mutexed /\ Goal
    <2>1. at[p].pc = "grow" /\ lock[Mutex(p)] = Free
      BY <1>8 DEF LockNull, Is, Unlocked
    <2>2. at[p].pc \in Walking \ {"hang"}
      BY <2>1 DEF Walking
    <2>3. CASE Slot(p) # Null
      BY <1>4, <1>8, <1>d, <2>1, <2>2, <2>3 DEF LockNull
    <2>4. CASE Slot(p) = Null
      <3>1. Locked(p) /\ Goto(p, "insert")
        BY <1>8, <2>4 DEF LockNull
      <3>2. Mutexed /\ Mutex(p) \in 0 .. MAXLOCK - 1 /\ lock'[Mutex(p)] = p
        BY <2>1, <2>2, <3>1, Mutexes, WalkerPlace
      <3>3. /\ Placed /\ at'[p].pc = "insert" /\ Loaded' = Loaded
        BY <1>a, <1>c, <2>1, <3>1
      <3>4. Body(p)' = Body(p) /\ Slot(p)' = Slot(p) /\ Mutex(p)' = Mutex(p)
        BY <1>b, <1>c, <3>1
      <3>5. at'[p].i = at[p].i /\ at'[p].node = at[p].node /\ at'[p].l = at[p].l
        BY <1>c, <3>1
      <3>6. Walker(p, kid, lev, zone)'
        BY <1>1, <2>2, <2>4, <3>2, <3>3, <3>4, <3>5, WalkerPlace DEF Walker
      <3> QED BY <2>1, <3>2, <3>3, <3>6 DEF Walking, Holding
    <2> QED BY <2>3, <2>4
  <1>9. ASSUME LockLeaf(p) PROVE Placed /\ Mutexed /\ Goal
    <2>1. at[p].pc = "open" /\ lock[Mutex(p)] = Free
      BY <1>9 DEF LockLeaf, Is, Unlocked
    <2>2. at[p].pc \in Walking \ {"hang"}
      BY <2>1 DEF Walking
    <2>3. Slot(p) \in DOMAIN subp \cup DOMAIN bodyp
      <3>1. Slot(p) # Null
        BY <1>2, <2>1, <2>2 DEF Walker
      <3> QED BY <2>2, <3>1, WalkerPlace DEF Node
    <2>4. CASE Type(Slot(p)) # "leaf"
      <3>1. Goto(p, "descend") /\ UNCHANGED lock /\ Slot(p) \in DOMAIN subp
        BY <1>3, <1>9, <2>3, <2>4 DEF LockLeaf
      <3> QED BY <1>4, <1>d, <2>2, <3>1
    <2>5. CASE Type(Slot(p)) = "leaf"
      <3> DEFINE x == IF Len(bodyp[Slot(p)]) = MAX_BODIES_PER_LEAF THEN "subdivide" ELSE "add"
      <3>1. Locked(p) /\ at' = [at EXCEPT ![p].le = Slot(p), ![p].pc = x] /\ Slot(p) \in DOMAIN bodyp
        BY <1>3, <1>9, <2>3, <2>5 DEF LockLeaf
      <3>2. Mutexed /\ Mutex(p) \in 0 .. MAXLOCK - 1 /\ lock'[Mutex(p)] = p
        BY <2>1, <2>2, <3>1, Mutexes, WalkerPlace
      <3> HIDE DEF x
      <3>3. /\ Placed
            /\ at'[p].pc = x /\ at'[p].i = at[p].i /\ at'[p].node = at[p].node
            /\ at'[p].l = at[p].l /\ at'[p].le = Slot(p)
        <4>1. at = [q \in Proc |-> at[q]] /\ \A q \in Proc : IsLocal(at[q])
          BY DEF Types
        <4>2. /\ at'[p] = [at[p] EXCEPT !.le = Slot(p), !.pc = x]
              /\ \A q \in Proc : q # p => at'[q] = at[q]
              /\ at' = [q \in Proc |-> at'[q]]
          BY <3>1, <4>1
        <4>3. at'[p] = [pc |-> x, i |-> at[p].i, node |-> at[p].node, le |-> Slot(p), l |-> at[p].l,
                        k |-> at[p].k, todo |-> at[p].todo, nstep |-> at[p].nstep]
          BY <4>1, <4>2 DEF IsLocal
        <4>4. IsLocal(at'[p])
          BY <4>1, <4>3 DEF IsLocal
        <4> QED BY <4>1, <4>2, <4>3, <4>4
      <3>4. Body(p)' = Body(p) /\ Slot(p)' = Slot(p) /\ Mutex(p)' = Mutex(p)
        BY <1>b, <3>3
      <3>5. /\ x \in {"add", "subdivide"}
            /\ x = "add" => Len(bodyp[Slot(p)]) < MAX_BODIES_PER_LEAF
            /\ x = "subdivide" => Len(bodyp[Slot(p)]) = MAX_BODIES_PER_LEAF
        <4>1. Len(bodyp[Slot(p)]) \in 1 .. MAX_BODIES_PER_LEAF /\ MAX_BODIES_PER_LEAF \in Nat
          BY <3>1, BarnesAssumption DEF LoadPhase, SoundTree, Filled
        <4> QED BY <4>1 DEF x
      <3>6. Loaded' = Loaded
        BY <1>a, <2>1, <3>3, <3>5
      <3>7. Walker(p, kid, lev, zone)'
        BY <1>1, <2>2, <3>1, <3>2, <3>3, <3>4, <3>5, WalkerPlace DEF Walker
      <3> QED BY <2>1, <3>2, <3>3, <3>5, <3>6, <3>7 DEF Walking, Holding
    <2> QED BY <2>4, <2>5
  <1>10. ASSUME Descend(p) PROVE Placed /\ Mutexed /\ Goal
    <2> DEFINE x == IF at[p].l + 1 = Levels THEN "error" ELSE "empty?"
               n == at[p].node
    <2>1. /\ at[p].pc = "descend" /\ UNCHANGED lock
          /\ at' = [at EXCEPT ![p].node = Slot(p), ![p].l = at[p].l + 1, ![p].pc = x]
      BY <1>10 DEF Descend, Is
    <2>2. at[p].pc \in Walking
      BY <2>1 DEF Walking
    <2>3. /\ Slot(p) \in DOMAIN subp /\ n \in DOMAIN subp /\ Index(p) \in Kids
          /\ Slot(p) = subp[n][Index(p)] /\ Body(p) \in zone[n] /\ Body(p) \in Bodies
          /\ at[p].l = lev[n] + 1 /\ at[p].l < Levels /\ lev[n] \in 0 .. Levels
          /\ Index(p) = place[Body(p)][lev[n] + 1] /\ at[p].i \in DOMAIN mybodytab[p]
      BY <1>2, <2>1, <2>2, WalkerPlace DEF Walker
    <2>4. Slot(p) = kid[n][Index(p)]
      <3>1. ASSUME NEW q \in Proc, Is(q, "hang"), at[q].node = n, Index(q) = Index(p) PROVE FALSE
        <4>1. Slot(q) \in DOMAIN bodyp /\ Slot(q) = Slot(p)
          BY <2>3, <3>1 DEF LoadPhase, Walker, Is, Walking, Holding, Slot
        <4> QED BY <2>3, <4>1, Names
      <3> QED BY <2>3, <3>1 DEF LoadPhase, Links
    <2>5. Slot(p) # Null /\ lev[Slot(p)] = lev[n] + 1 /\ Body(p) \in zone[Slot(p)]
      <3>1. Slot(p) # Null
        BY <1>3, <2>3
      <3>2. /\ lev[kid[n][Index(p)]] = lev[n] + 1
            /\ \A b \in Bodies : b \in zone[kid[n][Index(p)]] <=>
                 b \in zone[n] /\ place[b][lev[n] + 1] = Index(p)
        <4>1. TreeShape(DOMAIN subp, DOMAIN bodyp, place, kid, lev, zone)
          BY DEF LoadPhase, SoundTree
        <4>2. \A m \in DOMAIN subp : \A j \in Kids : kid[m][j] # Null =>
                /\ lev[kid[m][j]] = lev[m] + 1
                /\ \A b \in Bodies : b \in zone[kid[m][j]] <=> b \in zone[m] /\ place[b][lev[m] + 1] = j
          BY <4>1 DEF TreeShape
        <4>3. kid[n][Index(p)] # Null /\ n \in DOMAIN subp /\ Index(p) \in Kids
          BY <2>3, <2>4, <3>1
        <4> QED BY <4>2, <4>3, Zenon
      <3> QED BY <2>3, <2>4, <3>1, <3>2
    <2> HIDE DEF x
    <2>6. /\ Placed
          /\ at'[p].pc = x /\ at'[p].i = at[p].i /\ at'[p].node = Slot(p)
          /\ at'[p].l = at[p].l + 1
      <3>1. at = [q \in Proc |-> at[q]] /\ \A q \in Proc : IsLocal(at[q])
        BY DEF Types
      <3>2. /\ at'[p] = [at[p] EXCEPT !.node = Slot(p), !.l = at[p].l + 1, !.pc = x]
            /\ \A q \in Proc : q # p => at'[q] = at[q]
            /\ at' = [q \in Proc |-> at'[q]]
        BY <2>1, <3>1
      <3>3. at'[p] = [pc |-> x, i |-> at[p].i, node |-> Slot(p), le |-> at[p].le, l |-> at[p].l + 1,
                      k |-> at[p].k, todo |-> at[p].todo, nstep |-> at[p].nstep]
        BY <3>1, <3>2 DEF IsLocal
      <3>4. IsLocal(at'[p])
        BY <3>1, <3>3 DEF IsLocal
      <3> QED BY <3>1, <3>2, <3>3, <3>4
    <2>7. x \in {"error", "empty?"} /\ (x = "empty?" => at[p].l + 1 < Levels)
      BY <1>3, <2>3 DEF x
    <2>8. Loaded' = Loaded
      BY <1>a, <2>1, <2>6, <2>7
    <2>9. Body(p)' = Body(p)
      BY <1>1, <2>6 DEF Body
    <2>10. Walker(p, kid, lev, zone)'
      BY <1>1, <2>3, <2>5, <2>6, <2>7, <2>9 DEF Walker, Walking, Holding
    <2> QED BY <1>4, <2>1, <2>6, <2>7, <2>8, <2>10 DEF Walking
  <1>11. Placed /\ Mutexed /\ Goal
    BY <1>5, <1>6, <1>7, <1>8, <1>9, <1>10
  <1>12. Types'
    BY <1>1, <1>11 DEF Types, CellNames, LeafNames
  <1> QED BY <1>1, <1>11, <1>12, Walks

\* Who holds the mutex of a cell is alone there.
LEMMA Alone ==
  ASSUME Types, NEW kid, NEW lev, NEW zone, NEW src, LoadPhase(kid, lev, zone, src), NEW p \in Proc,
         at[p].pc \in Holding
  PROVE  /\ at[p].pc \in Walking /\ lock[Mutex(p)] = p /\ Mutex(p) \in 0 .. MAXLOCK - 1
         /\ \A q \in Proc : q # p /\ at[q].pc \in Holding =>
              at[q].node # at[p].node /\ Mutex(q) # Mutex(p) /\ lock[Mutex(q)] = q
         /\ at[p].pc # "hang" => Slot(p) = kid[at[p].node][Index(p)]
         /\ Slot(p) \notin DOMAIN subp
  <1>1. \A q \in Proc : at[q].pc \in Holding => at[q].pc \in Walking /\ lock[Mutex(q)] = q
    BY DEF LoadPhase, Walker, Walking
  <1>2. Mutex(p) \in 0 .. MAXLOCK - 1
    BY <1>1, WalkerPlace, Mutexes
  <1>3. \A q \in Proc : q # p /\ at[q].pc \in Holding =>
          at[q].node # at[p].node /\ Mutex(q) # Mutex(p) /\ lock[Mutex(q)] = q
    BY <1>1 DEF Mutex
  <1>4. ASSUME at[p].pc # "hang"
        PROVE  Slot(p) = kid[at[p].node][Index(p)]
    <2>1. \A q \in Proc : Is(q, "hang") => ~(at[q].node = at[p].node /\ Index(q) = Index(p))
      BY <1>3, <1>4 DEF Is, Holding
    <2> QED BY <1>1, <2>1, WalkerPlace DEF LoadPhase, Links
  <1>5. Slot(p) \notin DOMAIN subp
    <2>1. Slot(p) = Null \/ Slot(p) \in DOMAIN bodyp
      BY <1>1 DEF LoadPhase, Walker, Holding
    <2> QED BY <2>1, Names DEF Node
  <1> QED BY <1>1, <1>2, <1>3, <1>4, <1>5

\* What a process changes with the mutex: only where it hangs what it has made.
Private(p, kid, lev, zone, kid2, lev2, zone2) ==
  /\ UNCHANGED <<place, mybodytab>>
  /\ \A q \in Proc : q # p => at'[q] = at[q]
  /\ \A m \in 0 .. MAXLOCK - 1 : m # Mutex(p) => lock'[m] = lock[m]
  /\ DOMAIN subp \subseteq DOMAIN subp' /\ DOMAIN bodyp \subseteq DOMAIN bodyp'
  /\ \A m \in DOMAIN subp : \A j \in Kids :
       m # at[p].node \/ j # Index(p) => subp'[m][j] = subp[m][j]
  /\ subp'[at[p].node][Index(p)] = Slot(p) \/ subp'[at[p].node][Index(p)] # Null
  /\ \A m \in DOMAIN bodyp : m # Slot(p) \/ at[p].pc = "hang" => bodyp'[m] = bodyp[m]
  /\ \A m \in DOMAIN subp : /\ lev2[m] = lev[m] /\ zone2[m] = zone[m]
                            /\ m # at[p].node => kid2[m] = kid[m]

\* The others on their way down do not notice.
LEMMA OthersWalk ==
  ASSUME Types, NEW kid, NEW lev, NEW zone, NEW src, LoadPhase(kid, lev, zone, src), NEW p \in Proc,
         at[p].pc \in Holding, NEW kid2, NEW lev2, NEW zone2,
         Private(p, kid, lev, zone, kid2, lev2, zone2), NEW q \in Proc, q # p
  PROVE  /\ Walker(q, kid2, lev2, zone2)'
         /\ Index(q)' = Index(q) /\ (Is(q, "hang")' <=> Is(q, "hang"))
         /\ Is(q, "hang") => at[q].node # at[p].node
  <1>0. /\ at'[q] = at[q] /\ UNCHANGED <<place, mybodytab>>
        /\ \A m \in 0 .. MAXLOCK - 1 : m # Mutex(p) => lock'[m] = lock[m]
        /\ DOMAIN subp \subseteq DOMAIN subp' /\ DOMAIN bodyp \subseteq DOMAIN bodyp'
        /\ \A m \in DOMAIN subp : \A j \in Kids :
             m # at[p].node \/ j # Index(p) => subp'[m][j] = subp[m][j]
        /\ subp'[at[p].node][Index(p)] = Slot(p) \/ subp'[at[p].node][Index(p)] # Null
        /\ \A m \in DOMAIN bodyp : m # Slot(p) \/ at[p].pc = "hang" => bodyp'[m] = bodyp[m]
        /\ \A m \in DOMAIN subp : /\ lev2[m] = lev[m] /\ zone2[m] = zone[m]
                                  /\ m # at[p].node => kid2[m] = kid[m]
    BY DEF Private
  <1>1. /\ Walker(q, kid, lev, zone)
        /\ Body(q)' = Body(q) /\ Mutex(q)' = Mutex(q) /\ Index(q)' = Index(q)
        /\ Slot(q)' = subp'[at[q].node][Index(q)]
    BY <1>0 DEF LoadPhase, Body, Mutex, Index, Slot
  <1>2. /\ at[p].pc \in Walking /\ Slot(p) \notin DOMAIN subp
        /\ at[q].pc \in Holding => at[q].node # at[p].node /\ Mutex(q) # Mutex(p) /\ lock[Mutex(q)] = q
    BY Alone
  <1>3. at[p].node \in DOMAIN subp /\ Index(p) \in Kids /\ Slot(p) = subp[at[p].node][Index(p)]
    BY <1>2, WalkerPlace
  <1>4. Null \notin DOMAIN subp /\ \A m \in DOMAIN bodyp : m \notin DOMAIN subp
    BY Names DEF Node
  <1>5. Is(q, "hang") => at[q].node # at[p].node
    BY <1>2 DEF Is, Holding
  <1>6. CASE at[q].pc \notin Walking
    BY <1>0, <1>1, <1>5, <1>6 DEF Walker, Is
  <1>7. CASE at[q].pc \in Walking
    <2>1. /\ at[q].node \in DOMAIN subp /\ Index(q) \in Kids /\ Slot(q) = subp[at[q].node][Index(q)]
      BY <1>7, WalkerPlace
    <2>2. Slot(q)' = Slot(q) \/ (at[q].node = at[p].node /\ Slot(q) = Slot(p) /\ Slot(q)' # Null)
      BY <1>0, <1>1, <1>3, <2>1
    <2>3. at[q].pc \in Holding => Slot(q)' = Slot(q) /\ lock'[Mutex(q)] = q
      <3>1. Mutex(q) \in 0 .. MAXLOCK - 1
        BY <2>1, Mutexes
      <3> QED BY <1>0, <1>2, <2>2, <3>1
    <2>4. Slot(q) # Null => Slot(q)' # Null
      BY <2>2
    <2>5. Slot(q) \in DOMAIN subp => Slot(q)' = Slot(q)
      BY <1>2, <2>2
    <2>6. at[q].pc \in {"add", "subdivide"} => bodyp'[at[q].le] = bodyp[at[q].le]
      <3> SUFFICES ASSUME at[q].pc \in {"add", "subdivide"}, at[p].pc # "hang",
                          at[q].le = Slot(p)
                   PROVE  FALSE
        BY <1>0, <1>1, <1>7 DEF Walker
      <3>1. at[q].le = Slot(q) /\ at[q].le \in DOMAIN bodyp /\ at[q].pc \in Holding
        BY <1>1, <1>7 DEF Walker, Holding
      <3>a. \A r \in Proc : at[r].pc \in Holding /\ at[r].pc # "hang" => Slot(r) = kid[at[r].node][Index(r)]
        BY Alone
      <3>2. Slot(q) = kid[at[q].node][Index(q)] /\ Slot(p) = kid[at[p].node][Index(p)]
        BY <3>1, <3>a
      <3>3. Slot(q) # Null /\ at[q].node # at[p].node
        BY <1>2, <3>1, Names DEF Node
      <3> QED BY <1>3, <2>1, <3>1, <3>2, <3>3 DEF LoadPhase, SoundTree, TreeShape
    <2>7. /\ at[q].i \in DOMAIN mybodytab[q]
          /\ Body(q) \in zone[at[q].node]
          /\ at[q].l = lev[at[q].node] + 1 /\ at[q].l < Levels
          /\ lev2[at[q].node] = lev[at[q].node] /\ zone2[at[q].node] = zone[at[q].node]
          /\ at[q].pc \in Holding => kid2[at[q].node] = kid[at[q].node]
      BY <1>0, <1>1, <1>2, <1>7, <2>1 DEF Walker
    <2>8. at[q].pc = "hang" => at[q].pc \in Holding
      BY DEF Holding
    <2>9. at[q].pc \in {"insert", "add", "subdivide"} => at[q].pc \in Holding
      BY DEF Holding
    <2>a. /\ (at[q].pc = "load") = (at[q].pc = "load")' /\ at'[q].pc = at[q].pc
          /\ at[q].pc # "load"
      BY <1>0, <1>7 DEF Walking, Holding
    <2>b. Walker(q, kid2, lev2, zone2)'
      BY <1>0, <1>1, <1>7, <2>1, <2>3, <2>4, <2>5, <2>6, <2>7, <2>8, <2>9, <2>a DEF Walker
    <2> QED BY <1>0, <1>1, <1>5, <2>b DEF Is
  <1> QED BY <1>6, <1>7

\* A new leaf.
LEMMA Inserting ==
  ASSUME Types, NEW kid, NEW lev, NEW zone, NEW src, LoadPhase(kid, lev, zone, src), NEW p \in Proc,
         InsertLeaf(p)
  PROVE  /\ Types'
         /\ \E kid2, lev2, zone2, src2 : LoadPhase(kid2, lev2, zone2, src2)'
  <1> DEFINE n  == at[p].node
             k  == Index(p)
             b  == Body(p)
             c  == <<p, at[p].i>>
             le == Leaf(p, mynleaf[p])
  <1>a. PICK kid2 : kid2 = [kid EXCEPT ![n][k] = le]
    OBVIOUS
  <1>b. PICK lev2 : lev2 = With(lev, le, lev[n] + 1)
    OBVIOUS
  <1>z. PICK z : z = {d \in zone[n] : place[d][lev[n] + 1] = k}
    OBVIOUS
  <1>c. PICK zone2 : zone2 = With(zone, le, z)
    OBVIOUS
  <1>d. PICK src2 : src2 = With(src, le, <<c>>)
    OBVIOUS
  <1>1. /\ at[p].pc = "insert" /\ at[p].pc \in Holding /\ at[p].pc \in Walking
        /\ UNCHANGED <<place, mybodytab, done, cube, myncell>>
        /\ bodyp' = With(bodyp, le, <<b>>)
        /\ subp' = [subp EXCEPT ![n][k] = le]
        /\ mynleaf' = [mynleaf EXCEPT ![p] = @ + 1]
        /\ Released(p) /\ Again(p, "load")
    BY DEF InsertLeaf, Is, Loading, Box, Sums, Holding, Walking
  <1>2. /\ at[p].i \in DOMAIN mybodytab[p] /\ b \in Bodies /\ n \in DOMAIN subp /\ b \in zone[n]
        /\ lev[n] \in 0 .. Levels /\ k \in Kids /\ k = place[b][lev[n] + 1]
        /\ Slot(p) = subp[n][k] /\ Slot(p) = Null /\ kid[n][k] = Null
        /\ lock[Mutex(p)] = p /\ Mutex(p) \in 0 .. MAXLOCK - 1
    <2>1. Slot(p) = Null
      BY <1>1 DEF LoadPhase, Walker
    <2> QED BY <1>1, <2>1, Alone, WalkerPlace
  <1>3. le \notin Node /\ le # Null /\ Type(le) = "leaf" /\ Null \notin Node /\ IsLocal(at[p])
    <2>1. mynleaf[p] \in Nat /\ ~(mynleaf[p] < mynleaf[p])
      BY DEF Types
    <2>2. le \notin DOMAIN bodyp
      BY <2>1, Names
    <2>3. Type(le) = "leaf"
      BY DEF Type, Leaf
    <2> QED BY <2>2, <2>3, Names DEF Node, Types
  <1>4. /\ at' = [q \in Proc |-> at'[q]] /\ \A q \in Proc : IsLocal(at'[q])
        /\ \A q \in Proc : q # p => at'[q] = at[q]
        /\ at'[p].pc = "load" /\ at'[p].i = at[p].i + 1 /\ at'[p].node = G_root /\ at'[p].l = 1
    BY <1>1, Moves
  <1>5. /\ lock' \in [0 .. MAXLOCK - 1 -> Proc \cup {Free}]
        /\ \A m \in 0 .. MAXLOCK - 1 : m # Mutex(p) => lock'[m] = lock[m]
    BY <1>1, Mutexes
  <1>6. /\ bodyp \in [LeafNames -> Seq(Bodies)] /\ <<b>> \in Seq(Bodies)
        /\ subp = [m \in CellNames |-> subp[m]] /\ DOMAIN subp = CellNames /\ DOMAIN bodyp = LeafNames
    BY <1>2 DEF Types
  <1>7. /\ DOMAIN subp' = DOMAIN subp /\ DOMAIN bodyp' = DOMAIN bodyp \cup {le}
        /\ bodyp' \in [DOMAIN bodyp \cup {le} -> Seq(Bodies)]
        /\ bodyp'[le] = <<b>> /\ \A m \in DOMAIN bodyp : bodyp'[m] = bodyp[m]
    BY <1>1, <1>3, <1>6 DEF With, Node
  <1>8. LeafNames' = LeafNames \cup {le} /\ CellNames' = CellNames
    <2>1. /\ mynleaf \in [Proc -> Nat] /\ mynleaf' = [mynleaf EXCEPT ![p] = @ + 1]
          /\ myncell' = myncell
      BY <1>1 DEF Types
    <2>2. CellNames' = CellNames
      BY <2>1 DEF CellNames
    <2>3. /\ mynleaf'[p] = mynleaf[p] + 1 /\ \A q \in Proc : q # p => mynleaf'[q] = mynleaf[q]
          /\ \A q \in Proc : mynleaf[q] \in Nat
      BY <2>1
    <2>4. ASSUME NEW m \in {"leaf"} \X Proc \X Nat
          PROVE  m \in LeafNames' <=> m \in LeafNames \cup {le}
      <3>1. m[2] \in Proc /\ m[3] \in Nat /\ m = <<"leaf", m[2], m[3]>>
        OBVIOUS
      <3>2. m[3] < mynleaf'[m[2]] <=> m[3] < mynleaf[m[2]] \/ (m[2] = p /\ m[3] = mynleaf[p])
        BY <2>3, <3>1
      <3>3. m = le <=> m[2] = p /\ m[3] = mynleaf[p]
        BY <3>1 DEF Leaf
      <3> QED BY <3>2, <3>3 DEF LeafNames
    <2>5. le \in {"leaf"} \X Proc \X Nat
      BY <2>3 DEF Leaf
    <2> QED BY <2>2, <2>4, <2>5 DEF LeafNames
  <1>9. Types'
    <2>1. mynleaf' \in [Proc -> Nat]
      BY <1>1 DEF Types
    <2>2. bodyp' \in [LeafNames -> Seq(Bodies)]'
      BY <1>6, <1>7, <1>8
    <2>3. subp' = [m \in CellNames' |-> subp'[m]]
      BY <1>1, <1>6, <1>8
    <2> QED BY <1>1, <1>4, <1>5, <2>1, <2>2, <2>3 DEF Types, Place
  <1>10. TreeShape(DOMAIN subp, DOMAIN bodyp, place, kid, lev, zone)
    BY DEF LoadPhase, SoundTree
  <1>11. /\ kid2 \in [DOMAIN subp -> [Kids -> DOMAIN subp \cup (DOMAIN bodyp \cup {le}) \cup {Null}]]
         /\ \A m \in DOMAIN subp : \A j \in Kids :
              kid2[m][j] = IF m = n /\ j = k THEN le ELSE kid[m][j]
         /\ \A m \in DOMAIN subp : m # n => kid2[m] = kid[m]
         /\ lev2 \in [Node \cup {le} -> 0 .. Levels] /\ lev2[le] = lev[n] + 1
         /\ \A m \in Node : lev2[m] = lev[m]
         /\ zone2 \in [Node \cup {le} -> SUBSET Bodies] /\ zone2[le] = z
         /\ \A m \in Node : zone2[m] = zone[m]
         /\ \A d \in Bodies : d \in z <=> d \in zone[n] /\ place[d][lev[n] + 1] = k
    <2>1. /\ kid \in [DOMAIN subp -> [Kids -> DOMAIN subp \cup DOMAIN bodyp \cup {Null}]]
          /\ lev \in [Node -> 0 .. Levels] /\ zone \in [Node -> SUBSET Bodies]
          /\ lev[n] < Levels /\ Levels \in Nat /\ n \in Node
      BY <1>2, <1>10, BarnesAssumption DEF TreeShape, Node
    <2>2. lev[n] + 1 \in 0 .. Levels
      BY <1>2, <2>1
    <2>3. z \in SUBSET Bodies /\ \A d \in Bodies : d \in z <=> d \in zone[n] /\ place[d][lev[n] + 1] = k
      BY <1>z, <2>1
    <2> HIDE DEF le, n, k
    <2>4. /\ kid2 \in [DOMAIN subp -> [Kids -> DOMAIN subp \cup (DOMAIN bodyp \cup {le}) \cup {Null}]]
          /\ \A m \in DOMAIN subp : \A j \in Kids :
              kid2[m][j] = IF m = n /\ j = k THEN le ELSE kid[m][j]
          /\ \A m \in DOMAIN subp : m # n => kid2[m] = kid[m]
      BY <1>2, <1>a, <2>1
    <2>5. /\ lev2 \in [Node \cup {le} -> 0 .. Levels] /\ lev2[le] = lev[n] + 1
          /\ \A m \in Node : lev2[m] = lev[m]
      BY <1>3, <1>b, <2>1, <2>2 DEF With
    <2>6. /\ zone2 \in [Node \cup {le} -> SUBSET Bodies] /\ zone2[le] = z
          /\ \A m \in Node : zone2[m] = zone[m]
      BY <1>3, <1>c, <2>1, <2>3 DEF With
    <2> QED BY <2>3, <2>4, <2>5, <2>6
  <1>f. TreeShape(DOMAIN subp', DOMAIN bodyp', place', kid2, lev2, zone2)
    <2>1. /\ n \in DOMAIN subp /\ k \in Kids /\ kid[n][k] = Null
          /\ le \notin DOMAIN subp \cup DOMAIN bodyp /\ le # Null
          /\ Null \notin DOMAIN subp \cup DOMAIN bodyp
      BY <1>2, <1>3 DEF Node
    <2>2. LeafGrows(DOMAIN subp, DOMAIN bodyp, place, kid, lev, zone, n, k, le, kid2, lev2, zone2)
      <3>1. /\ Node = DOMAIN subp \cup DOMAIN bodyp
            /\ Node \cup {le} = DOMAIN subp \cup (DOMAIN bodyp \cup {le})
        BY DEF Node
      <3> HIDE DEF le, n, k
      <3> QED BY <1>11, <2>1, <3>1 DEF LeafGrows
    <2> HIDE DEF le, n, k
    <2>3. TreeShape(DOMAIN subp, DOMAIN bodyp \cup {le}, place, kid2, lev2, zone2)
      BY <1>10, <2>2, GrowLeaf
    <2> QED BY <1>1, <1>7, <2>3, Zenon
  <1>12. Filled(zone2)'
    <2>1. MAX_BODIES_PER_LEAF \in Nat \ {0}
      BY BarnesAssumption
    <2>2. Len(bodyp'[le]) = 1 /\ bodyp'[le][1] = b /\ b \in zone2[le]
      BY <1>2, <1>7, <1>11
    <2>3. \A m \in DOMAIN bodyp : /\ Len(bodyp[m]) \in 1 .. MAX_BODIES_PER_LEAF
                                  /\ \A i \in 1 .. Len(bodyp[m]) : bodyp[m][i] \in zone[m]
      BY DEF LoadPhase, SoundTree, Filled
    <2> HIDE DEF le
    <2>4. ASSUME NEW m \in DOMAIN bodyp'
          PROVE  /\ Len(bodyp'[m]) \in 1 .. MAX_BODIES_PER_LEAF
                 /\ \A i \in 1 .. Len(bodyp'[m]) : bodyp'[m][i] \in zone2[m]
      <3>1. CASE m = le
        <4>1. \A i \in 1 .. Len(bodyp'[le]) : i = 1
          BY <2>2
        <4>2. Len(bodyp'[le]) \in 1 .. MAX_BODIES_PER_LEAF
          BY <2>1, <2>2
        <4> QED BY <2>2, <3>1, <4>1, <4>2, Zenon
      <3>2. CASE m # le
        <4>1. m \in DOMAIN bodyp /\ m \in Node
          BY <1>7, <3>2 DEF Node
        <4>2. bodyp'[m] = bodyp[m] /\ zone2[m] = zone[m]
          BY <1>7, <1>11, <4>1, Zenon
        <4> QED BY <2>3, <4>1, <4>2, Zenon
      <3> QED BY <3>1, <3>2
    <2> QED BY <2>4 DEF Filled
  <1>13. Held(DOMAIN bodyp', bodyp', mybodytab', Loaded', src2)
    <2>1. Held(DOMAIN bodyp, bodyp, mybodytab, Loaded, src) /\ b = mybodytab[p][at[p].i]
      BY DEF LoadPhase, Body
    <2>2. Loaded' = Loaded \cup {c} /\ c \notin Loaded /\ c \in Proc \X Nat
      <3>1. at[p].i \in Nat
        BY <1>3 DEF IsLocal
      <3> QED BY <1>1, <1>2, <1>4, <3>1, OneMoreLoaded
    <2>3. c[1] = p /\ c[2] = at[p].i
      OBVIOUS
    <2>4. bodyp \in [DOMAIN bodyp -> Seq(Bodies)] /\ le \notin DOMAIN bodyp
      BY <1>3, <1>6 DEF Node
    <2> HIDE DEF le, b, c
    <2>5. Held(DOMAIN bodyp \cup {le}, With(bodyp, le, <<b>>), mybodytab, Loaded \cup {c}, src2)
      BY <1>2, <1>d, <2>1, <2>2, <2>3, <2>4, HeldInsert
    <2> QED BY <1>1, <1>7, <2>2, <2>5
  <1>14. /\ subp' \in [DOMAIN subp -> [Kids -> (Node \cup {le}) \cup {Null}]] /\ Node' = Node \cup {le}
         /\ \A m \in DOMAIN subp : \A j \in Kids :
              subp'[m][j] = IF m = n /\ j = k THEN le ELSE subp[m][j]
    <2>1. subp \in [DOMAIN subp -> [Kids -> Node \cup {Null}]]
      BY DEF LoadPhase, Links
    <2>2. Node' = Node \cup {le}
      BY <1>7 DEF Node
    <2> HIDE DEF le, n, k
    <2> QED BY <1>1, <1>2, <2>1, <2>2
  <1>e. Private(p, kid, lev, zone, kid2, lev2, zone2)
    <2>1. /\ \A m \in DOMAIN subp : \A j \in Kids :
               m # at[p].node \/ j # Index(p) => subp'[m][j] = subp[m][j]
          /\ subp'[at[p].node][Index(p)] # Null
      BY <1>2, <1>3, <1>14
    <2>2. \A m \in DOMAIN bodyp : bodyp'[m] = bodyp[m]
      BY <1>7
    <2>3. \A m \in DOMAIN subp : /\ lev2[m] = lev[m] /\ zone2[m] = zone[m]
                                 /\ m # at[p].node => kid2[m] = kid[m]
      BY <1>11 DEF Node
    <2>4. DOMAIN subp \subseteq DOMAIN subp' /\ DOMAIN bodyp \subseteq DOMAIN bodyp'
      BY <1>7, <1>14
    <2> QED BY <1>1, <1>4, <1>5, <2>1, <2>2, <2>3, <2>4 DEF Private
  <1>15. ASSUME NEW q \in Proc, q # p
         PROVE  /\ Walker(q, kid2, lev2, zone2)'
                /\ Index(q)' = Index(q) /\ (Is(q, "hang")' <=> Is(q, "hang"))
                /\ Is(q, "hang") => at[q].node # n
    BY <1>1, <1>e, <1>15, OthersWalk
  <1>16. Links(kid2)'
    <2>1. ASSUME NEW m \in DOMAIN subp, NEW j \in Kids,
                 \A q \in Proc : Is(q, "hang")' => ~(at'[q].node = m /\ Index(q)' = j)
          PROVE  subp'[m][j] = kid2[m][j]
      <3>1. \A q \in Proc : Is(q, "hang") => ~(at[q].node = m /\ Index(q) = j)
        BY <1>1, <1>4, <1>15, <2>1 DEF Is
      <3>2. subp[m][j] = kid[m][j]
        BY <3>1 DEF LoadPhase, Links
      <3> QED BY <1>11, <1>14, <3>2
    <2> QED BY <1>7, <1>14, <2>1 DEF Links
  <1>17. Walker(p, kid2, lev2, zone2)'
    BY <1>4 DEF Walker, Walking, Holding
  <1>18. /\ \A q \in Proc : at'[q].pc \in {"load", "error", "loaded"} \cup Walking
         /\ InCube' /\ done' = {}
    BY <1>1, <1>4 DEF LoadPhase, InCube
  <1>19. LoadPhase(kid2, lev2, zone2, src2)'
    BY <1>f, <1>12, <1>13, <1>15, <1>16, <1>17, <1>18 DEF LoadPhase, SoundTree
  <1> QED BY <1>9, <1>19

\* One body more in a leaf.
LEMMA Adding ==
  ASSUME Types, NEW kid, NEW lev, NEW zone, NEW src, LoadPhase(kid, lev, zone, src), NEW p \in Proc,
         AddBody(p)
  PROVE  Types' /\ \E src2 : LoadPhase(kid, lev, zone, src2)'
  <1> DEFINE n  == at[p].node
             k  == Index(p)
             b  == Body(p)
             c  == <<p, at[p].i>>
             le == at[p].le
  <1>d. PICK src2 : src2 = [src EXCEPT ![le] = Append(@, c)]
    OBVIOUS
  <1>1. /\ at[p].pc = "add" /\ at[p].pc \in Holding /\ at[p].pc \in Walking
        /\ UNCHANGED <<place, mybodytab, done, cube, subp, myncell, mynleaf>>
        /\ bodyp' = [bodyp EXCEPT ![le] = Append(@, b)]
        /\ Released(p) /\ Again(p, "load")
    BY DEF AddBody, Is, Loading, Box, Sums, Holding, Walking
  <1>2. /\ at[p].i \in DOMAIN mybodytab[p] /\ b \in Bodies /\ n \in DOMAIN subp /\ b \in zone[n]
        /\ lev[n] \in 0 .. Levels /\ k \in Kids /\ k = place[b][lev[n] + 1]
        /\ Slot(p) = subp[n][k] /\ Slot(p) = le /\ kid[n][k] = le /\ le \in DOMAIN bodyp
        /\ Len(bodyp[le]) < MAX_BODIES_PER_LEAF
    <2>1. Slot(p) = le /\ le \in DOMAIN bodyp /\ Len(bodyp[le]) < MAX_BODIES_PER_LEAF
      BY <1>1 DEF LoadPhase, Walker
    <2> QED BY <1>1, <2>1, Alone, WalkerPlace
  <1>3. le # Null /\ IsLocal(at[p])
    BY <1>2, Names DEF Node, Types
  <1>4. /\ at' = [q \in Proc |-> at'[q]] /\ \A q \in Proc : IsLocal(at'[q])
        /\ \A q \in Proc : q # p => at'[q] = at[q]
        /\ at'[p].pc = "load" /\ at'[p].i = at[p].i + 1 /\ at'[p].node = G_root /\ at'[p].l = 1
    BY <1>1, Moves
  <1>5. /\ lock' \in [0 .. MAXLOCK - 1 -> Proc \cup {Free}]
        /\ \A m \in 0 .. MAXLOCK - 1 : m # Mutex(p) => lock'[m] = lock[m]
    BY <1>1, Mutexes
  <1>6. bodyp \in [LeafNames -> Seq(Bodies)] /\ DOMAIN bodyp = LeafNames
    BY DEF Types
  <1>7. /\ bodyp' \in [DOMAIN bodyp -> Seq(Bodies)] /\ DOMAIN bodyp' = DOMAIN bodyp
        /\ bodyp'[le] = Append(bodyp[le], b) /\ bodyp[le] \in Seq(Bodies)
        /\ \A m \in DOMAIN bodyp : m # le => bodyp'[m] = bodyp[m]
    <2>1. bodyp[le] \in Seq(Bodies) /\ le \in DOMAIN bodyp /\ b \in Bodies
      BY <1>2, <1>6
    <2>2. PICK s : s = Append(bodyp[le], b)
      OBVIOUS
    <2>3. bodyp' = [bodyp EXCEPT ![le] = s]
      BY <1>1, <2>2
    <2> HIDE DEF le, b
    <2>4. s \in Seq(Bodies)
      BY <2>1, <2>2
    <2> QED BY <1>6, <2>1, <2>2, <2>3, <2>4
  <1>8. LeafNames' = LeafNames /\ CellNames' = CellNames
    BY <1>1 DEF LeafNames, CellNames
  <1>9. Types'
    BY <1>1, <1>4, <1>5, <1>6, <1>7, <1>8 DEF Types, Place
  <1>10. TreeShape(DOMAIN subp, DOMAIN bodyp, place, kid, lev, zone)
    BY DEF LoadPhase, SoundTree
  <1>11. b \in zone[le]
    BY <1>2, <1>3, <1>10, SMTT(30) DEF TreeShape
  <1>12. Filled(zone)'
    <2>1. MAX_BODIES_PER_LEAF \in Nat \ {0} /\ Len(bodyp[le]) \in Nat
      BY <1>7, BarnesAssumption, SMTT(30)
    <2>2. \A m \in DOMAIN bodyp : /\ Len(bodyp[m]) \in 1 .. MAX_BODIES_PER_LEAF
                                  /\ \A i \in 1 .. Len(bodyp[m]) : bodyp[m][i] \in zone[m]
      BY DEF LoadPhase, SoundTree, Filled
    <2>3. /\ Len(bodyp'[le]) = Len(bodyp[le]) + 1
          /\ \A i \in 1 .. Len(bodyp'[le]) : bodyp'[le][i] = b \/ (i \in 1 .. Len(bodyp[le])
                                                                /\ bodyp'[le][i] = bodyp[le][i])
      <3>1. bodyp'[le] = Append(bodyp[le], b) /\ bodyp[le] \in Seq(Bodies) /\ b \in Bodies
        BY <1>2, <1>7
      <3> HIDE DEF le, b
      <3> QED BY <3>1, Appended
    <2>4. /\ Len(bodyp'[le]) \in 1 .. MAX_BODIES_PER_LEAF
          /\ \A i \in 1 .. Len(bodyp'[le]) : bodyp'[le][i] \in zone[le]
      <3>1. Len(bodyp'[le]) \in 1 .. MAX_BODIES_PER_LEAF
        <4>1. PICK m : m = Len(bodyp[le])
          OBVIOUS
        <4>2. m \in Nat /\ m < MAX_BODIES_PER_LEAF /\ Len(bodyp'[le]) = m + 1
          BY <1>2, <2>1, <2>3, <4>1
        <4> QED BY <2>1, <4>2
      <3>2. \A i \in 1 .. Len(bodyp[le]) : bodyp[le][i] \in zone[le]
        BY <1>2, <2>2, Zenon
      <3>3. \A i \in 1 .. Len(bodyp'[le]) : bodyp'[le][i] \in zone[le]
        BY <1>11, <2>3, <3>2, Zenon
      <3> QED BY <3>1, <3>3
    <2> HIDE DEF le
    <2>5. ASSUME NEW m \in DOMAIN bodyp'
          PROVE  /\ Len(bodyp'[m]) \in 1 .. MAX_BODIES_PER_LEAF
                 /\ \A i \in 1 .. Len(bodyp'[m]) : bodyp'[m][i] \in zone[m]
      <3>1. CASE m = le
        BY <2>4, <3>1, Zenon
      <3>2. CASE m # le
        <4>1. m \in DOMAIN bodyp /\ bodyp'[m] = bodyp[m]
          BY <1>7, <3>2
        <4> QED BY <2>2, <4>1, Zenon
      <3> QED BY <3>1, <3>2
    <2> QED BY <2>5 DEF Filled
  <1>13. Held(DOMAIN bodyp', bodyp', mybodytab', Loaded', src2)
    <2>1. Held(DOMAIN bodyp, bodyp, mybodytab, Loaded, src) /\ b = mybodytab[p][at[p].i]
      BY DEF LoadPhase, Body
    <2>2. Loaded' = Loaded \cup {c} /\ c \notin Loaded /\ c \in Proc \X Nat
      <3>1. at[p].i \in Nat
        BY <1>3 DEF IsLocal
      <3> QED BY <1>1, <1>2, <1>4, <3>1, OneMoreLoaded
    <2>3. c[1] = p /\ c[2] = at[p].i
      OBVIOUS
    <2>4. bodyp \in [DOMAIN bodyp -> Seq(Bodies)]
      BY <1>6
    <2> HIDE DEF le, b, c
    <2>5. Held(DOMAIN bodyp, [bodyp EXCEPT ![le] = Append(@, b)], mybodytab, Loaded \cup {c}, src2)
      BY <1>2, <1>d, <2>1, <2>2, <2>3, <2>4, HeldAppend
    <2> QED BY <1>1, <1>7, <2>2, <2>5
  <1>e. Private(p, kid, lev, zone, kid, lev, zone)
    BY <1>1, <1>2, <1>4, <1>5, <1>7 DEF Private
  <1>15. ASSUME NEW q \in Proc, q # p
         PROVE  /\ Walker(q, kid, lev, zone)'
                /\ Index(q)' = Index(q) /\ (Is(q, "hang")' <=> Is(q, "hang"))
    BY <1>1, <1>e, <1>15, OthersWalk
  <1>16. Links(kid)'
    <2>1. ASSUME NEW m \in DOMAIN subp, NEW j \in Kids,
                 \A q \in Proc : Is(q, "hang")' => ~(at'[q].node = m /\ Index(q)' = j)
          PROVE  subp'[m][j] = kid[m][j]
      <3>1. \A q \in Proc : Is(q, "hang") => ~(at[q].node = m /\ Index(q) = j)
        BY <1>1, <1>4, <1>15, <2>1 DEF Is
      <3> QED BY <1>1, <3>1 DEF LoadPhase, Links
    <2>2. Node' = Node /\ subp' \in [DOMAIN subp -> [Kids -> Node \cup {Null}]]
      BY <1>1, <1>7 DEF Node, LoadPhase, Links
    <2> QED BY <1>1, <2>1, <2>2 DEF Links
  <1>17. Walker(p, kid, lev, zone)'
    BY <1>4 DEF Walker, Walking, Holding
  <1>18. /\ \A q \in Proc : at'[q].pc \in {"load", "error", "loaded"} \cup Walking
         /\ InCube' /\ done' = {}
    BY <1>1, <1>4 DEF LoadPhase, InCube
  <1>19. TreeShape(DOMAIN subp', DOMAIN bodyp', place', kid, lev, zone)
    BY <1>1, <1>7, <1>10
  <1>20. LoadPhase(kid, lev, zone, src2)'
    BY <1>12, <1>13, <1>15, <1>16, <1>17, <1>18, <1>19 DEF LoadPhase, SoundTree
  <1> QED BY <1>9, <1>20

\* The new cell is hung where the leaf was.
LEMMA Hanging ==
  ASSUME Types, NEW kid, NEW lev, NEW zone, NEW src, LoadPhase(kid, lev, zone, src), NEW p \in Proc,
         HangCell(p)
  PROVE  Types' /\ LoadPhase(kid, lev, zone, src)'
  <1> DEFINE n == at[p].node
             k == Index(p)
             c == at[p].le
  <1>1. /\ at[p].pc = "hang" /\ at[p].pc \in Holding /\ at[p].pc \in Walking
        /\ UNCHANGED <<place, mybodytab, done, cube, bodyp, myncell, mynleaf>>
        /\ subp' = [subp EXCEPT ![n][k] = c]
        /\ Released(p) /\ Goto(p, "descend")
    BY DEF HangCell, Is, Loading, Box, Sums, Holding, Walking
  <1>2. /\ at[p].i \in DOMAIN mybodytab[p] /\ Body(p) \in Bodies
        /\ n \in DOMAIN subp /\ Body(p) \in zone[n]
        /\ at[p].l = lev[n] + 1 /\ at[p].l < Levels
        /\ k \in Kids /\ c \in DOMAIN subp /\ kid[n][k] = c
    <2>1. c \in DOMAIN subp /\ kid[n][k] = c
      BY <1>1 DEF LoadPhase, Walker
    <2> QED BY <1>1, <2>1, WalkerPlace
  <1>3. c # Null
    BY <1>2, Names DEF Node
  <1>4. /\ at' = [q \in Proc |-> at'[q]] /\ \A q \in Proc : IsLocal(at'[q])
        /\ \A q \in Proc : q # p => at'[q] = at[q]
        /\ at'[p].pc = "descend" /\ at'[p].i = at[p].i /\ at'[p].node = n /\ at'[p].l = at[p].l
    BY <1>1, Moves
  <1>5. /\ lock' \in [0 .. MAXLOCK - 1 -> Proc \cup {Free}]
        /\ \A m \in 0 .. MAXLOCK - 1 : m # Mutex(p) => lock'[m] = lock[m]
    BY <1>1, Mutexes
  <1>6. subp = [m \in CellNames |-> subp[m]] /\ DOMAIN subp = CellNames
    BY DEF Types
  <1>7. DOMAIN subp' = DOMAIN subp /\ Node' = Node
    BY <1>1, <1>6 DEF Node
  <1>8. LeafNames' = LeafNames /\ CellNames' = CellNames
    BY <1>1 DEF LeafNames, CellNames
  <1>9. Types'
    <2>1. subp' = [m \in CellNames' |-> subp'[m]]
      BY <1>1, <1>6, <1>8
    <2> QED BY <1>1, <1>4, <1>5, <1>8, <2>1 DEF Types, Place
  <1>10. SoundTree(kid, lev, zone)'
    BY <1>1, <1>7 DEF LoadPhase, SoundTree, Filled
  <1>13. Held(DOMAIN bodyp', bodyp', mybodytab', Loaded', src)
    <2>1. Loaded' = Loaded
      BY <1>1, <1>4, SameLoaded
    <2> QED BY <1>1, <2>1 DEF LoadPhase
  <1>14. /\ subp' \in [DOMAIN subp -> [Kids -> Node \cup {Null}]]
         /\ \A m \in DOMAIN subp : \A j \in Kids :
              subp'[m][j] = IF m = n /\ j = k THEN c ELSE subp[m][j]
    <2>1. subp \in [DOMAIN subp -> [Kids -> Node \cup {Null}]] /\ c \in Node
      BY <1>2 DEF LoadPhase, Links, Node
    <2> HIDE DEF c, n, k
    <2> QED BY <1>1, <1>2, <2>1
  <1>e. Private(p, kid, lev, zone, kid, lev, zone)
    BY <1>1, <1>2, <1>3, <1>4, <1>5, <1>7, <1>14 DEF Private
  <1>15. ASSUME NEW q \in Proc, q # p
         PROVE  /\ Walker(q, kid, lev, zone)'
                /\ Index(q)' = Index(q) /\ (Is(q, "hang")' <=> Is(q, "hang"))
    BY <1>1, <1>e, <1>15, OthersWalk
  <1>16. Links(kid)'
    <2>1. ASSUME NEW m \in DOMAIN subp, NEW j \in Kids,
                 \A q \in Proc : Is(q, "hang")' => ~(at'[q].node = m /\ Index(q)' = j)
          PROVE  subp'[m][j] = kid[m][j]
      <3>1. CASE m = n /\ j = k
        BY <1>2, <1>14, <3>1
      <3>2. CASE ~(m = n /\ j = k)
        <4>1. \A q \in Proc : Is(q, "hang") => ~(at[q].node = m /\ Index(q) = j)
          <5> SUFFICES ASSUME NEW q \in Proc, Is(q, "hang"), at[q].node = m, Index(q) = j
                       PROVE  FALSE
            OBVIOUS
          <5>1. q # p
            BY <3>2
          <5> QED BY <1>4, <1>15, <2>1, <5>1
        <4>2. subp[m][j] = kid[m][j]
          BY <4>1 DEF LoadPhase, Links
        <4> QED BY <1>14, <3>2, <4>2
      <3> QED BY <3>1, <3>2
    <2> QED BY <1>7, <1>14, <2>1 DEF Links
  <1>17. Walker(p, kid, lev, zone)'
    <2>1. Body(p)' = Body(p) /\ Index(p)' = k
      BY <1>1, <1>4 DEF Body, Index
    <2>2. Slot(p)' = c
      BY <1>2, <1>4, <1>14, <2>1 DEF Slot
    <2> QED BY <1>1, <1>2, <1>4, <1>7, <2>1, <2>2 DEF Walker, Holding
  <1>18. /\ \A q \in Proc : at'[q].pc \in {"load", "error", "loaded"} \cup Walking
         /\ InCube' /\ done' = {}
    BY <1>1, <1>4 DEF LoadPhase, InCube, Walking
  <1>20. LoadPhase(kid, lev, zone, src)'
    BY <1>10, <1>13, <1>15, <1>16, <1>17, <1>18 DEF LoadPhase
  <1> QED BY <1>9, <1>20

\* The leaves M of a leaf le that a process subdivides: it stays for the child first, and
\* those of others are the next ones in its table.
NewLeaves(p, others, first, le, leaf, M) ==
  /\ leaf = [k \in others \cup {first} |->
               IF k = first THEN le ELSE Leaf(p, mynleaf[p] + Cardinality({o \in others : o < k}))]
  /\ M = {leaf[k] : k \in others \cup {first}}
  /\ mynleaf' = [mynleaf EXCEPT ![p] = @ + Cardinality(others)]

\* They are new, and each child has its own.
LEMMA FreshLeaves ==
  ASSUME Types, NEW p \in Proc, NEW others, IsFiniteSet(others), others \subseteq Int,
         NEW first, first \notin others, NEW le \in LeafNames,
         NEW leaf, NEW M, NewLeaves(p, others, first, le, leaf, M)
  PROVE  /\ leaf \in [others \cup {first} -> M] /\ leaf[first] = le /\ le \in M
         /\ \A j, h \in others \cup {first} : leaf[j] = leaf[h] => j = h
         /\ \A m \in M : m \in LeafNames => m = le
         /\ \A m \in M : Type(m) = "leaf" /\ m # Null
         /\ LeafNames' = LeafNames \cup M
         /\ mynleaf' \in [Proc -> Nat]
  <1> DEFINE rank(k) == Cardinality({o \in others : o < k})
             z == mynleaf[p]
             N == Cardinality(others)
  <1>0. /\ leaf = [k \in others \cup {first} |-> IF k = first THEN le ELSE Leaf(p, z + rank(k))]
        /\ M = {leaf[k] : k \in others \cup {first}}
        /\ mynleaf' = [mynleaf EXCEPT ![p] = @ + N]
    BY DEF NewLeaves
  <1>1. z \in Nat /\ N \in Nat /\ mynleaf \in [Proc -> Nat]
    BY FS_CardinalityType DEF Types
  <1>2. /\ \A k \in others : rank(k) \in 0 .. N - 1
        /\ \A k, h \in others : rank(k) = rank(h) => k = h
        /\ \A r \in 0 .. N - 1 : \E k \in others : rank(k) = r
    <2>1. [k \in others |-> rank(k)] \in Bijection(others, 0 .. N - 1)
      BY Ranks
    <2> HIDE DEF rank, N
    <2> QED BY <2>1 DEF Bijection, Injection, Surjection, IsInjective
  <1>3. /\ leaf[first] = le /\ DOMAIN leaf = others \cup {first}
        /\ \A k \in others : leaf[k] = <<"leaf", p, z + rank(k)>>
    BY <1>0 DEF Leaf
  <1>4. M = {leaf[k] : k \in others \cup {first}}
    BY <1>0
  <1>m. \A m \in M : m = le \/ \E k \in others : m = leaf[k]
    BY <1>3, <1>4
  <1> HIDE DEF rank, z, N
  <1>5. leaf \in [others \cup {first} -> M] /\ le \in M
    <2>1. leaf = [k \in others \cup {first} |-> leaf[k]]
      BY <1>0
    <2> QED BY <1>3, <1>4, <2>1
  <1>6. \A m \in LeafNames : /\ m \in {"leaf"} \X Proc \X Nat /\ Type(m) = "leaf"
                             /\ m # Null /\ (m[2] = p => m[3] < z)
    BY DEF LeafNames, Type, Null, z
  <1>7. \A k \in others : /\ leaf[k] \in {"leaf"} \X Proc \X Nat /\ Type(leaf[k]) = "leaf"
                          /\ leaf[k] # Null /\ leaf[k][2] = p /\ leaf[k][3] = z + rank(k)
                          /\ leaf[k] \notin LeafNames
    <2> SUFFICES ASSUME NEW k \in others
                 PROVE  /\ leaf[k] \in {"leaf"} \X Proc \X Nat /\ Type(leaf[k]) = "leaf"
                        /\ leaf[k] # Null /\ leaf[k][2] = p /\ leaf[k][3] = z + rank(k)
                        /\ leaf[k] \notin LeafNames
      BY Zenon
    <2>1. rank(k) \in Nat /\ z + rank(k) \in Nat /\ ~(z + rank(k) < z)
      BY <1>1, <1>2
    <2>2. leaf[k] = <<"leaf", p, z + rank(k)>>
      BY <1>3
    <2>a. \A x : <<"leaf", p, x>>[2] = p /\ <<"leaf", p, x>>[3] = x
      OBVIOUS
    <2>3. leaf[k][2] = p /\ leaf[k][3] = z + rank(k)
      BY <2>2, <2>a, Zenon
    <2> QED BY <1>6, <2>1, <2>2, <2>3 DEF Type, Null
  <1>n. ASSUME NEW m \in M, m # le
        PROVE  m \in {"leaf"} \X Proc \X Nat /\ Type(m) = "leaf" /\ m # Null /\ m[2] = p /\ m \notin LeafNames
    <2>1. PICK k \in others : m = leaf[k]
      BY <1>m, <1>n, Zenon
    <2> QED BY <1>7, <2>1
  <1>8. \A j, h \in others \cup {first} : leaf[j] = leaf[h] => j = h
    <2> SUFFICES ASSUME NEW j \in others \cup {first}, NEW h \in others \cup {first}, leaf[j] = leaf[h]
                 PROVE  j = h
      OBVIOUS
    <2>1. CASE j \in others /\ h \in others
      <3>1. z + rank(j) = z + rank(h)
        <4>1. leaf[j][3] = z + rank(j) /\ leaf[h][3] = z + rank(h)
          BY <1>7, <2>1, Zenon
        <4> QED BY <4>1, Zenon
      <3>2. rank(j) \in Int /\ rank(h) \in Int
        BY <1>1, <1>2, <2>1
      <3> QED BY <1>1, <1>2, <2>1, <3>1, <3>2
    <2>2. CASE j = first \/ h = first
      BY <1>3, <1>7, <2>2
    <2> QED BY <2>1, <2>2
  <1>9. /\ \A m \in M : m \in LeafNames => m = le
        /\ \A m \in M : Type(m) = "leaf" /\ m # Null
    BY <1>n, <1>6
  <1>10. /\ mynleaf' \in [Proc -> Nat] /\ mynleaf'[p] = z + N
         /\ \A q \in Proc : q # p => mynleaf'[q] = mynleaf[q]
    BY <1>0, <1>1 DEF z, N
  <1>11. ASSUME NEW m \in {"leaf"} \X Proc \X Nat
         PROVE  m \in LeafNames' <=> m \in LeafNames \cup M
    <2>1. m[2] \in Proc /\ m[3] \in Nat /\ m = <<"leaf", m[2], m[3]>>
      OBVIOUS
    <2>2. m \in LeafNames' <=> m[3] < mynleaf'[m[2]]
      BY DEF LeafNames
    <2>3. m \in LeafNames <=> m[3] < mynleaf[m[2]]
      BY DEF LeafNames
    <2>4. CASE m[2] # p
      <3>1. m \in M => m \in LeafNames
        BY <1>n, <2>4
      <3> QED BY <1>10, <2>1, <2>2, <2>3, <2>4, <3>1
    <2>5. CASE m[2] = p
      <3>1. m \in M /\ m \notin LeafNames => m[3] < z + N
        <4>1. \A k \in others : z + rank(k) < z + N
          BY <1>1, <1>2
        <4>2. \A k \in others : leaf[k][3] = z + rank(k)
          BY <1>7, Zenon
        <4>3. \A k \in others : leaf[k][3] < z + N
          BY <4>1, <4>2
        <4> QED BY <1>m, <4>3, Zenon
      <3>2. m[3] < z + N /\ ~(m[3] < z) => m \in M
        <4> SUFFICES ASSUME m[3] < z + N, ~(m[3] < z) PROVE m \in M
          OBVIOUS
        <4>1. m[3] - z \in 0 .. N - 1
          BY <1>1, <2>1
        <4>2. PICK k \in others : rank(k) = m[3] - z
          BY <1>2, <4>1
        <4>3. z + rank(k) = m[3]
          BY <1>1, <2>1, <4>2
        <4>4. leaf[k] = m
          BY <1>3, <2>1, <2>5, <4>3
        <4> QED BY <1>4, <4>4
      <3>3. mynleaf[m[2]] = z /\ mynleaf'[m[2]] = z + N
        BY <1>10, <2>5 DEF z
      <3>4. m[3] < z => m[3] < z + N
        BY <1>1, <2>1
      <3> QED BY <2>2, <2>3, <3>1, <3>2, <3>3, <3>4
    <2> QED BY <2>4, <2>5
  <1>12. LeafNames' = LeafNames \cup M
    <2>1. \A m \in M : m \in {"leaf"} \X Proc \X Nat
      BY <1>n, <1>6
    <2>2. \A m \in LeafNames' : m \in {"leaf"} \X Proc \X Nat
      BY DEF LeafNames
    <2> QED BY <1>6, <1>11, <2>1, <2>2
  <1> QED BY <1>3, <1>5, <1>8, <1>9, <1>10, <1>12

\* A new cell with the leaf and others in it, which is not in the tree yet.
LEMMA Subdividing ==
  ASSUME Types, NEW kid, NEW lev, NEW zone, NEW src, LoadPhase(kid, lev, zone, src), NEW p \in Proc,
         SubdivideLeaf(p)
  PROVE  /\ Types'
         /\ \E kid2, lev2, zone2, src2 : LoadPhase(kid2, lev2, zone2, src2)'
  <1> DEFINE n        == at[p].node
             k        == Index(p)
             le       == at[p].le
             c        == Cell(p, myncell[p])
             index(i) == place[bodyp[le][i]][at[p].l + 1]
             first    == index(1)
             others   == {index(i) : i \in DOMAIN bodyp[le]} \ {first}
             kept(j)  == IF j = first THEN le
                         ELSE Leaf(p, mynleaf[p] + Cardinality({o \in others : o < j}))
             used     == others \cup {first}
             Z        == 1 .. Len(bodyp[le])
             Here     == DOMAIN subp \cup {c}
             There    == DOMAIN bodyp
  <1>1. /\ at[p].pc = "subdivide" /\ at[p].pc \in Holding /\ at[p].pc \in Walking
        /\ UNCHANGED <<place, mybodytab, done, cube, lock>>
        /\ subp' = With(subp, c, [j \in Kids |-> IF j \in used THEN kept(j) ELSE Null])
        /\ bodyp' = [m \in DOMAIN bodyp \cup {kept(j) : j \in used} |->
                       IF m \in {kept(j) : j \in used}
                       THEN Part(bodyp[le], {i \in DOMAIN bodyp[le] : kept(index(i)) = m})
                       ELSE bodyp[m]]
        /\ myncell' = [myncell EXCEPT ![p] = @ + 1]
        /\ mynleaf' = [mynleaf EXCEPT ![p] = @ + Cardinality(others)]
        /\ at' = [at EXCEPT ![p].le = c, ![p].pc = "hang"]
    BY DEF SubdivideLeaf, Is, Loading, Box, Sums, Holding, Walking
  <1>2. /\ at[p].i \in DOMAIN mybodytab[p] /\ Body(p) \in Bodies /\ n \in DOMAIN subp
        /\ Body(p) \in zone[n] /\ lev[n] \in 0 .. Levels /\ k \in Kids
        /\ at[p].l = lev[n] + 1 /\ at[p].l < Levels
        /\ Slot(p) = subp[n][k] /\ Slot(p) = le /\ kid[n][k] = le /\ le \in DOMAIN bodyp
        /\ lock[Mutex(p)] = p /\ subp[n] \in [Kids -> Node \cup {Null}]
    <2>1. Slot(p) = le /\ le \in DOMAIN bodyp
      BY <1>1 DEF LoadPhase, Walker
    <2>2. /\ at[p].i \in DOMAIN mybodytab[p] /\ Body(p) \in Bodies /\ n \in DOMAIN subp
          /\ Body(p) \in zone[n] /\ lev[n] \in 0 .. Levels /\ k \in Kids
          /\ at[p].l = lev[n] + 1 /\ at[p].l < Levels
          /\ Slot(p) = subp[n][k] /\ subp[n] \in [Kids -> Node \cup {Null}]
      <3>1. at[p].pc \in Walking
        BY <1>1
      <3> QED BY <3>1, WalkerPlace
    <2>3. lock[Mutex(p)] = p /\ Slot(p) = kid[n][k]
      BY <1>1, Alone
    <2> QED BY <2>1, <2>2, <2>3
  <1>3. TreeShape(DOMAIN subp, DOMAIN bodyp, place, kid, lev, zone)
    BY DEF LoadPhase, SoundTree
  <1>4. /\ Levels \in Nat /\ MAX_BODIES_PER_LEAF \in Nat /\ DOMAIN bodyp = LeafNames
        /\ bodyp \in [LeafNames -> Seq(Bodies)] /\ DOMAIN subp = CellNames
        /\ place \in [Bodies -> [1 .. Levels -> Kids]]
        /\ \A m \in DOMAIN bodyp : m \notin DOMAIN subp /\ m # Null
        /\ \A m \in DOMAIN subp : m # Null
    BY BarnesAssumption, Names DEF Types, Place, Node
  <1>5. /\ lev[le] = lev[n] + 1 /\ lev[le] \in 0 .. Levels /\ lev[le] < Levels
        /\ lev[le] + 1 \in 1 .. Levels /\ at[p].l + 1 = lev[le] + 1
        /\ zone[le] \in SUBSET Bodies
    <2>1. lev[le] = lev[n] + 1 /\ zone[le] \in SUBSET Bodies
      BY <1>2, <1>3, <1>4 DEF TreeShape
    <2> QED BY <1>2, <1>4, <2>1
  <1>6. /\ bodyp[le] \in Seq(Bodies) /\ Len(bodyp[le]) \in 1 .. MAX_BODIES_PER_LEAF
        /\ DOMAIN bodyp[le] = Z /\ 1 \in Z
        /\ \A i \in Z : bodyp[le][i] \in zone[le] /\ bodyp[le][i] \in Bodies
        /\ \A i \in Z : index(i) = place[bodyp[le][i]][lev[le] + 1] /\ index(i) \in Kids
    <2>1. bodyp[le] \in Seq(Bodies) /\ Len(bodyp[le]) \in 1 .. MAX_BODIES_PER_LEAF
      BY <1>2, <1>4 DEF LoadPhase, SoundTree, Filled
    <2>2. DOMAIN bodyp[le] = Z /\ 1 \in Z
      BY <1>4, <2>1
    <2>3. \A i \in Z : bodyp[le][i] \in zone[le] /\ bodyp[le][i] \in Bodies
      BY <1>2, <1>5 DEF LoadPhase, SoundTree, Filled
    <2>4. \A i \in Z : index(i) = place[bodyp[le][i]][lev[le] + 1]
      BY <1>5
    <2>5. \A i \in Z : index(i) \in Kids
      BY <1>4, <1>5, <2>3, <2>4
    <2> QED BY <2>1, <2>2, <2>3, <2>4, <2>5
  <1>7. /\ others \subseteq Kids /\ first \in Kids /\ first \notin others /\ used \subseteq Kids
        /\ \A i \in Z : index(i) \in used
        /\ \A j \in used : \E i \in Z : index(i) = j
    BY <1>6
  <1>8. IsFiniteSet(others) /\ others \subseteq Int
    <2>1. IsFiniteSet(Kids)
      BY BarnesAssumption, FS_Interval DEF Kids
    <2>2. Kids \subseteq Int
      BY BarnesAssumption DEF Kids
    <2> QED BY <1>7, <2>1, <2>2, FS_Subset
  <1>a. PICK leaf : leaf = [j \in used |-> kept(j)]
    OBVIOUS
  <1>b. PICK M : M = {leaf[j] : j \in used}
    OBVIOUS
  <1>9. /\ leaf \in [used -> M] /\ leaf[first] = le /\ le \in M
        /\ \A j, h \in used : leaf[j] = leaf[h] => j = h
        /\ \A m \in M : m \in LeafNames => m = le
        /\ \A m \in M : Type(m) = "leaf" /\ m # Null
        /\ LeafNames' = LeafNames \cup M
        /\ mynleaf' \in [Proc -> Nat]
    <2>1. le \in LeafNames /\ used = others \cup {first}
      BY <1>2, <1>4
    <2>2. leaf = [j \in others \cup {first} |->
                    IF j = first THEN le
                    ELSE Leaf(p, mynleaf[p] + Cardinality({o \in others : o < j}))]
      BY <1>a
    <2>3. M = {leaf[j] : j \in others \cup {first}}
      BY <1>b
    <2>4. mynleaf' = [mynleaf EXCEPT ![p] = @ + Cardinality(others)]
      BY <1>1
    <2>5. NewLeaves(p, others, first, le, leaf, M)
      BY <2>2, <2>3, <2>4 DEF NewLeaves
    <2> HIDE DEF others, first, le
    <2> QED BY <1>7, <1>8, <2>1, <2>5, FreshLeaves
  <1>c. PICK ch : ch = [j \in Kids |-> IF j \in used THEN leaf[j] ELSE Null]
    OBVIOUS
  <1>d. PICK f : f = [i \in Z |-> leaf[index(i)]]
    OBVIOUS
  <1>e. PICK to : to = [m \in M |-> {i \in Z : f[i] = m}]
    OBVIOUS
  <1>10. /\ subp' = With(subp, c, ch)
         /\ bodyp' = [m \in DOMAIN bodyp \cup M |->
                        IF m \in M THEN Part(bodyp[le], to[m]) ELSE bodyp[m]]
         /\ f \in [Z -> M] /\ \A i \in Z : f[i] = leaf[index(i)]
    <2>1. \A j \in used : kept(j) = leaf[j]
      BY <1>a
    <2>2. ch = [j \in Kids |-> IF j \in used THEN kept(j) ELSE Null]
      BY <1>c, <2>1
    <2>3. M = {kept(j) : j \in used}
      <3>1. M = {leaf[j] : j \in used}
        BY <1>b
      <3> HIDE DEF kept, used
      <3> QED BY <2>1, <3>1
    <2>4. f \in [Z -> M] /\ \A i \in Z : f[i] = leaf[index(i)]
      BY <1>7, <1>9, <1>d
    <2>5. \A m \in M : to[m] = {i \in DOMAIN bodyp[le] : kept(index(i)) = m}
      <3>1. \A i \in Z : f[i] = kept(index(i))
        <4> HIDE DEF kept, index, used, Z
        <4> QED BY <1>7, <2>1, <2>4
      <3>2. \A m \in M : to[m] = {i \in Z : f[i] = m}
        BY <1>e
      <3>3. DOMAIN bodyp[le] = Z
        BY <1>6
      <3> HIDE DEF kept, index, le, Z
      <3> QED BY <3>1, <3>2, <3>3
    <2>6. bodyp' = [m \in DOMAIN bodyp \cup M |->
                      IF m \in M THEN Part(bodyp[le], {i \in DOMAIN bodyp[le] : kept(index(i)) = m})
                      ELSE bodyp[m]]
      BY <1>1, <2>3
    <2> HIDE DEF kept, used, index
    <2> QED BY <1>1, <2>2, <2>4, <2>5, <2>6
  <1> HIDE DEF kept, others, first, used
  <1>11. /\ c \notin DOMAIN subp /\ c \notin DOMAIN bodyp \cup M /\ c # Null /\ Type(c) = "cell"
         /\ CellNames' = CellNames \cup {c} /\ myncell' \in [Proc -> Nat] /\ myncell'[0] >= 1
    <2>1. /\ myncell \in [Proc -> Nat] /\ myncell' = [myncell EXCEPT ![p] = @ + 1] /\ myncell[0] >= 1
      BY <1>1 DEF Types
    <2>2. /\ myncell'[p] = myncell[p] + 1 /\ \A q \in Proc : q # p => myncell'[q] = myncell[q]
          /\ \A q \in Proc : myncell[q] \in Nat
          /\ myncell' \in [Proc -> Nat]
      BY <2>1
    <2>3. myncell'[0] >= 1
      <3>1. 0 \in Proc
        BY BarnesAssumption DEF Proc
      <3>2. 0 # p => myncell'[0] = myncell[0]
        BY <2>2, <3>1
      <3> QED BY <2>1, <2>2, <3>1, <3>2
    <2>4. ~(myncell[p] < myncell[p])
      BY <2>2
    <2>5. Type(c) = "cell" /\ c \notin DOMAIN subp
      BY <2>2, <2>4, Names DEF Type, Cell
    <2>6. c \notin DOMAIN bodyp \cup M /\ c # Null
      BY <1>9, <2>5, Names
    <2>7. ASSUME NEW m \in {"cell"} \X Proc \X Nat
          PROVE  m \in CellNames' <=> m \in CellNames \cup {c}
      <3>1. m[2] \in Proc /\ m[3] \in Nat /\ m = <<"cell", m[2], m[3]>>
        OBVIOUS
      <3>2. m[3] < myncell'[m[2]] <=> m[3] < myncell[m[2]] \/ (m[2] = p /\ m[3] = myncell[p])
        BY <2>2, <3>1
      <3>3. m = c <=> m[2] = p /\ m[3] = myncell[p]
        BY <3>1 DEF Cell
      <3> QED BY <3>2, <3>3 DEF CellNames
    <2>8. c \in {"cell"} \X Proc \X Nat
      BY <2>2 DEF Cell
    <2>9. CellNames' = CellNames \cup {c}
      BY <2>7, <2>8 DEF CellNames
    <2> QED BY <2>2, <2>3, <2>5, <2>6, <2>9
  <1> HIDE DEF c
  <1>12. /\ DOMAIN subp' = DOMAIN subp \cup {c} /\ subp'[c] = ch
         /\ subp' = [m \in DOMAIN subp \cup {c} |-> subp'[m]]
         /\ \A m \in DOMAIN subp : subp'[m] = subp[m]
    BY <1>10, <1>11 DEF With
  <1>13. ASSUME NEW m \in M
         PROVE  /\ bodyp'[m] \in Seq(Bodies) /\ Len(bodyp'[m]) \in 1 .. MAX_BODIES_PER_LEAF
                /\ \A i \in 1 .. Len(bodyp'[m]) : \E h \in Z : bodyp'[m][i] = bodyp[le][h] /\ f[h] = m
    <2>1. to[m] = {i \in Z : f[i] = m} /\ bodyp'[m] = Part(bodyp[le], to[m])
      BY <1>e, <1>10
    <2>2. to[m] \in SUBSET DOMAIN bodyp[le] /\ to[m] \subseteq Int
      BY <1>6, <2>1
    <2>3. PICK h \in Z : h \in to[m]
      <3>1. PICK j \in used : leaf[j] = m
        BY <1>b
      <3>2. PICK h \in Z : index(h) = j
        BY <1>7
      <3>3. f[h] = m
        BY <1>10, <3>1, <3>2
      <3> QED BY <2>1, <3>3
    <2>4. /\ IsFiniteSet(to[m]) /\ Cardinality(to[m]) \in 0 .. Len(bodyp[le])
          /\ bodyp'[m] \in Seq(Bodies) /\ Len(bodyp'[m]) = Cardinality(to[m])
          /\ \A j \in 1 .. Cardinality(to[m]) : bodyp'[m][j] = bodyp[le][Position(to[m], j)]
      <3>1. bodyp[le] \in Seq(Bodies)
        BY <1>6
      <3>2. \A x \in Seq(Bodies) : to[m] \in SUBSET DOMAIN x =>
              /\ IsFiniteSet(to[m]) /\ Cardinality(to[m]) \in 0 .. Len(x)
              /\ Part(x, to[m]) \in Seq(Bodies) /\ Len(Part(x, to[m])) = Cardinality(to[m])
              /\ \A j \in 1 .. Cardinality(to[m]) : Part(x, to[m])[j] = x[Position(to[m], j)]
        BY PartOfSeq
      <3> HIDE DEF le
      <3> QED BY <2>1, <2>2, <3>1, <3>2, Zenon
    <2>5. Cardinality(to[m]) # 0
      BY <2>3, <2>4, FS_EmptySet
    <2>6. Len(bodyp'[m]) \in 1 .. MAX_BODIES_PER_LEAF
      BY <1>4, <1>6, <2>4, <2>5
    <2>7. \A j \in 1 .. Cardinality(to[m]) : Position(to[m], j) \in to[m]
      BY <2>2, <2>4, Positions
    <2>8. \A i \in to[m] : i \in Z /\ f[i] = m
      BY <2>1
    <2>9. \A i \in 1 .. Len(bodyp'[m]) : \E j \in Z : bodyp'[m][i] = bodyp[le][j] /\ f[j] = m
      BY <2>4, <2>7, <2>8
    <2> QED BY <2>4, <2>6, <2>9
  <1>14. /\ DOMAIN bodyp' = DOMAIN bodyp \cup M /\ bodyp' \in [DOMAIN bodyp \cup M -> Seq(Bodies)]
         /\ \A m \in DOMAIN bodyp : m \notin M => bodyp'[m] = bodyp[m]
    <2>1. /\ DOMAIN bodyp' = DOMAIN bodyp \cup M /\ bodyp' = [m \in DOMAIN bodyp \cup M |-> bodyp'[m]]
          /\ \A m \in DOMAIN bodyp : m \notin M => bodyp'[m] = bodyp[m]
      BY <1>10
    <2>2. \A m \in DOMAIN bodyp \cup M : bodyp'[m] \in Seq(Bodies)
      BY <1>4, <1>13, <2>1
    <2> QED BY <2>1, <2>2
  <1>15. /\ at' = [q \in Proc |-> at'[q]] /\ \A q \in Proc : IsLocal(at'[q])
         /\ \A q \in Proc : q # p => at'[q] = at[q]
         /\ at'[p].pc = "hang" /\ at'[p].le = c
         /\ at'[p].i = at[p].i /\ at'[p].node = n /\ at'[p].l = at[p].l
    <2>1. at = [q \in Proc |-> at[q]] /\ \A q \in Proc : IsLocal(at[q])
      BY DEF Types
    <2>2. /\ at'[p] = [at[p] EXCEPT !.le = c, !.pc = "hang"]
          /\ \A q \in Proc : q # p => at'[q] = at[q]
          /\ at' = [q \in Proc |-> at'[q]]
      BY <1>1, <2>1
    <2>3. at'[p] = [pc |-> "hang", i |-> at[p].i, node |-> at[p].node, le |-> c, l |-> at[p].l,
                    k |-> at[p].k, todo |-> at[p].todo, nstep |-> at[p].nstep]
      BY <2>1, <2>2 DEF IsLocal
    <2>4. IsLocal(at'[p])
      BY <2>1, <2>3 DEF IsLocal
    <2> QED BY <2>1, <2>2, <2>3, <2>4
  <1>16. Types'
    <2>1. subp' = [m \in CellNames' |-> subp'[m]]
      BY <1>4, <1>11, <1>12
    <2>2. bodyp' \in [LeafNames' -> Seq(Bodies)]
      BY <1>4, <1>9, <1>14
    <2> QED BY <1>1, <1>9, <1>11, <1>15, <2>1, <2>2 DEF Types, Place
  <1>f. PICK kid2 : kid2 = [m \in DOMAIN subp \cup {c} |->
          IF m = c THEN ch ELSE IF m = n THEN [kid[n] EXCEPT ![k] = c] ELSE kid[m]]
    OBVIOUS
  <1>g. PICK lev2 : lev2 = [m \in Here \cup (There \cup M) |->
          IF m = c THEN lev[le] ELSE IF m \in M THEN lev[le] + 1 ELSE lev[m]]
    OBVIOUS
  <1>h. PICK zone2 : zone2 = [m \in Here \cup (There \cup M) |->
          IF m = c THEN zone[le]
          ELSE IF m \in M THEN {b \in zone[le] : /\ place[b][lev[le] + 1] \in Kids
                                                /\ ch[place[b][lev[le] + 1]] = m}
          ELSE zone[m]]
    OBVIOUS
  <1>i. PICK src2 : src2 = [m \in DOMAIN bodyp \cup M |->
          IF m \in M THEN Part(src[le], to[m]) ELSE src[m]]
    OBVIOUS
  <1>17. /\ ch \in [Kids -> M \cup {Null}]
         /\ \A m \in M : \E j \in Kids : ch[j] = m
         /\ \A j, h \in Kids : ch[j] # Null /\ ch[j] = ch[h] => j = h
         /\ \A j \in used : ch[j] = leaf[j]
    <2>1. \A j \in used : j \in Kids /\ leaf[j] \in M /\ leaf[j] # Null
      BY <1>7, <1>9
    <2>2. \A j \in Kids : ch[j] = IF j \in used THEN leaf[j] ELSE Null
      BY <1>c
    <2>3. \A m \in M : \E j \in used : leaf[j] = m
      BY <1>b
    <2>4. ch \in [Kids -> M \cup {Null}]
      BY <1>c, <2>1
    <2>5. \A m \in M : \E j \in Kids : ch[j] = m
      BY <2>1, <2>2, <2>3
    <2>6. \A j, h \in Kids : ch[j] # Null /\ ch[j] = ch[h] => j = h
      BY <1>9, <2>1, <2>2
    <2> QED BY <2>1, <2>2, <2>4, <2>5, <2>6
  <1>18. /\ kid2 \in [Here -> [Kids -> Here \cup (There \cup M) \cup {Null}]]
         /\ kid2[c] = ch
         /\ \A m \in DOMAIN subp : \A j \in Kids :
              kid2[m][j] = IF m = n /\ j = k THEN c ELSE kid[m][j]
         /\ \A m \in DOMAIN subp : m # n => kid2[m] = kid[m]
    <2>1. kid \in [DOMAIN subp -> [Kids -> DOMAIN subp \cup There \cup {Null}]]
      BY <1>3 DEF TreeShape
    <2>2. /\ kid2[c] = ch /\ \A m \in DOMAIN subp : m # c
          /\ \A m \in DOMAIN subp : m # n => kid2[m] = kid[m]
          /\ kid2[n] = [kid[n] EXCEPT ![k] = c]
          /\ kid2 = [m \in Here |-> kid2[m]]
      BY <1>2, <1>11, <1>f
    <2>3. /\ kid2[n] \in [Kids -> Here \cup (There \cup M) \cup {Null}]
          /\ \A j \in Kids : kid2[n][j] = IF j = k THEN c ELSE kid[n][j]
      BY <1>2, <2>1, <2>2
    <2>4. ch \in [Kids -> Here \cup (There \cup M) \cup {Null}]
      BY <1>17
    <2>5. \A m \in DOMAIN subp : kid[m] \in [Kids -> Here \cup (There \cup M) \cup {Null}]
      BY <2>1
    <2>6. \A m \in Here : kid2[m] \in [Kids -> Here \cup (There \cup M) \cup {Null}]
      BY <2>2, <2>3, <2>4, <2>5
    <2>7. kid2 \in [Here -> [Kids -> Here \cup (There \cup M) \cup {Null}]]
      BY <2>2, <2>6
    <2> QED BY <2>2, <2>3, <2>7
  <1>19. /\ lev2 \in [Here \cup (There \cup M) -> 0 .. Levels] /\ lev2[c] = lev[le]
         /\ \A m \in M : lev2[m] = lev[le] + 1
         /\ \A m \in DOMAIN subp \cup There : m # le => lev2[m] = lev[m]
    <2>1. lev \in [DOMAIN subp \cup There -> 0 .. Levels]
      BY <1>3 DEF TreeShape
    <2>2. lev[le] + 1 \in 0 .. Levels /\ lev[le] \in 0 .. Levels
      BY <1>4, <1>5
    <2>3. /\ \A m \in M : m # c
          /\ \A m \in DOMAIN subp \cup There : m # c /\ (m \in M => m = le)
      BY <1>4, <1>9, <1>11, Names
    <2> HIDE DEF le
    <2> QED BY <1>g, <2>1, <2>2, <2>3
  <1>20. /\ zone2 \in [Here \cup (There \cup M) -> SUBSET Bodies] /\ zone2[c] = zone[le]
         /\ \A m \in M : \A b \in Bodies : b \in zone2[m] <=> /\ b \in zone[le]
                                                       /\ ch[place[b][lev[le] + 1]] = m
                                                       /\ place[b][lev[le] + 1] \in Kids
         /\ \A m \in DOMAIN subp \cup There : m # le => zone2[m] = zone[m]
    <2>1. zone \in [DOMAIN subp \cup There -> SUBSET Bodies] /\ zone[le] \in SUBSET Bodies
      BY <1>3, <1>5 DEF TreeShape
    <2>3. /\ \A m \in M : m # c
          /\ \A m \in DOMAIN subp \cup There : m # c /\ (m \in M => m = le)
      BY <1>4, <1>9, <1>11, Names
    <2> HIDE DEF le
    <2> QED BY <1>h, <2>1, <2>3
  <1> HIDE DEF index
  <1>21. TreeShape(DOMAIN subp', DOMAIN bodyp', place', kid2, lev2, zone2)
    <2>1. /\ DOMAIN subp \cap DOMAIN bodyp = {} /\ M \cap (DOMAIN subp \cup DOMAIN bodyp) = {le}
          /\ Null \notin DOMAIN subp \cup DOMAIN bodyp \cup M
          /\ c \notin DOMAIN subp \cup DOMAIN bodyp \cup M
      <3>1. \A m \in DOMAIN subp : m \notin M
        BY <1>9, Names
      <3> QED BY <1>2, <1>4, <1>9, <1>11, <3>1
    <2> HIDE DEF le, n, k
    <2>2. CellGrows(DOMAIN subp, DOMAIN bodyp, place, kid, lev, zone, n, k, le, c, M, ch,
                    kid2, lev2, zone2)
      BY <1>2, <1>5, <1>11, <1>17, <1>18, <1>19, <1>20, <2>1 DEF CellGrows
    <2>3. TreeShape(DOMAIN subp \cup {c}, DOMAIN bodyp \cup M, place, kid2, lev2, zone2)
      BY <1>3, <2>2, GrowCell
    <2> QED BY <1>1, <1>12, <1>14, <2>3
  <1>22. Filled(zone2)'
    <2>1. \A m \in DOMAIN bodyp : /\ Len(bodyp[m]) \in 1 .. MAX_BODIES_PER_LEAF
                                  /\ \A i \in 1 .. Len(bodyp[m]) : bodyp[m][i] \in zone[m]
      BY DEF LoadPhase, SoundTree, Filled
    <2>2. ASSUME NEW m \in DOMAIN bodyp'
          PROVE  /\ Len(bodyp'[m]) \in 1 .. MAX_BODIES_PER_LEAF
                 /\ \A i \in 1 .. Len(bodyp'[m]) : bodyp'[m][i] \in zone2[m]
      <3>1. CASE m \in M
        <4>1. ASSUME NEW h \in Z, f[h] = m PROVE bodyp[le][h] \in zone2[m]
          <5>1. /\ index(h) = place[bodyp[le][h]][lev[le] + 1] /\ index(h) \in Kids
                /\ bodyp[le][h] \in zone[le] /\ bodyp[le][h] \in Bodies
            BY <1>6
          <5>2. ch[index(h)] = m
            BY <1>7, <1>10, <1>17, <4>1
          <5>3. PICK b : b = bodyp[le][h]
            OBVIOUS
          <5>4. b \in Bodies /\ b \in zone[le] /\ ch[place[b][lev[le] + 1]] = m
                /\ place[b][lev[le] + 1] \in Kids
            BY <5>1, <5>2, <5>3
          <5>5. b \in zone2[m]
            BY <1>20, <3>1, <5>4
          <5> QED BY <5>3, <5>5
        <4>2. ASSUME NEW i \in 1 .. Len(bodyp'[m]) PROVE bodyp'[m][i] \in zone2[m]
          <5>1. PICK h \in Z : bodyp'[m][i] = bodyp[le][h] /\ f[h] = m
            BY <1>13, <3>1, Zenon
          <5> QED BY <4>1, <5>1, Zenon
        <4> QED BY <1>13, <3>1, <4>2
      <3>2. CASE m \notin M
        <4>1. m \in DOMAIN bodyp /\ m # le
          BY <1>9, <1>14, <3>2
        <4>2. bodyp'[m] = bodyp[m] /\ zone2[m] = zone[m]
          BY <1>14, <1>20, <3>2, <4>1
        <4> QED BY <2>1, <4>1, <4>2, Zenon
      <3> QED BY <3>1, <3>2
    <2> QED BY <2>2 DEF Filled
  <1>23. Held(DOMAIN bodyp', bodyp', mybodytab', Loaded', src2)
    <2>1. Loaded' = Loaded
      BY <1>1, <1>15, SameLoaded
    <2>2. Held(DOMAIN bodyp, bodyp, mybodytab, Loaded, src)
      BY DEF LoadPhase
    <2>3. /\ bodyp \in [DOMAIN bodyp -> Seq(Bodies)] /\ le \in DOMAIN bodyp /\ le \in M
          /\ \A m \in DOMAIN bodyp : m \in M => m = le
          /\ f \in [1 .. Len(bodyp[le]) -> M]
          /\ to = [m \in M |-> {i \in 1 .. Len(bodyp[le]) : f[i] = m}]
      BY <1>2, <1>4, <1>9, <1>10, <1>e
    <2> HIDE DEF le
    <2>4. Splits(DOMAIN bodyp, bodyp, src, le, M, f, to, bodyp', src2)
      BY <1>10, <1>i, <2>3 DEF Splits
    <2>5. Held(DOMAIN bodyp \cup M, bodyp', mybodytab, Loaded, src2)
      BY <2>2, <2>3, <2>4, HeldSplit
    <2> QED BY <1>1, <1>14, <2>1, <2>5
  <1>24. Private(p, kid, lev, zone, kid2, lev2, zone2)
    <2>1. /\ \A m \in DOMAIN subp : \A j \in Kids :
               m # at[p].node \/ j # Index(p) => subp'[m][j] = subp[m][j]
          /\ subp'[at[p].node][Index(p)] = Slot(p)
      BY <1>2, <1>12
    <2>2. \A m \in DOMAIN bodyp : m # Slot(p) \/ at[p].pc = "hang" => bodyp'[m] = bodyp[m]
      BY <1>1, <1>2, <1>4, <1>9, <1>14
    <2>3. \A m \in DOMAIN subp : /\ lev2[m] = lev[m] /\ zone2[m] = zone[m]
                                 /\ m # at[p].node => kid2[m] = kid[m]
      BY <1>2, <1>4, <1>18, <1>19, <1>20
    <2> QED BY <1>1, <1>12, <1>14, <1>15, <2>1, <2>2, <2>3 DEF Private
  <1>25. ASSUME NEW q \in Proc, q # p
         PROVE  /\ Walker(q, kid2, lev2, zone2)'
                /\ Index(q)' = Index(q) /\ (Is(q, "hang")' <=> Is(q, "hang"))
    BY <1>1, <1>24, <1>25, OthersWalk
  <1>26. Body(p)' = Body(p) /\ Index(p)' = k
    BY <1>1, <1>15 DEF Body, Index
  <1>27. Links(kid2)'
    <2>1. ASSUME NEW m \in DOMAIN subp', NEW j \in Kids,
                 \A q \in Proc : Is(q, "hang")' => ~(at'[q].node = m /\ Index(q)' = j)
          PROVE  subp'[m][j] = kid2[m][j]
      <3>1. CASE m = c
        BY <1>12, <1>18, <3>1
      <3>2. CASE m # c
        <4>1. m \in DOMAIN subp /\ ~(m = n /\ j = k)
          BY <1>12, <1>15, <1>26, <2>1, <3>2 DEF Is
        <4>2. \A q \in Proc : Is(q, "hang") => ~(at[q].node = m /\ Index(q) = j)
          <5> SUFFICES ASSUME NEW q \in Proc, Is(q, "hang"), at[q].node = m, Index(q) = j PROVE FALSE
            OBVIOUS
          <5>1. q # p
            BY <1>1 DEF Is
          <5>2. at'[q] = at[q] /\ Index(q)' = Index(q) /\ Is(q, "hang")'
            BY <1>15, <1>25, <5>1
          <5> QED BY <2>1, <5>2
        <4>3. subp[m][j] = kid[m][j]
          BY <4>1, <4>2 DEF LoadPhase, Links
        <4> QED BY <1>12, <1>18, <4>1, <4>3
      <3> QED BY <3>1, <3>2
    <2>2. subp' \in [DOMAIN subp' -> [Kids -> Node' \cup {Null}]]
      <3>1. subp \in [DOMAIN subp -> [Kids -> Node \cup {Null}]]
        BY DEF LoadPhase, Links
      <3>2. Node' = Node \cup {c} \cup M
        BY <1>12, <1>14 DEF Node
      <3>3. \A m \in DOMAIN subp : subp[m] \in [Kids -> Node' \cup {Null}]
        BY <3>1, <3>2
      <3>4. ch \in [Kids -> Node' \cup {Null}]
        BY <1>17, <3>2
      <3>5. \A m \in DOMAIN subp \cup {c} : subp'[m] \in [Kids -> Node' \cup {Null}]
        BY <1>12, <3>3, <3>4
      <3> QED BY <1>12, <3>5
    <2> QED BY <2>1, <2>2 DEF Links
  <1>28. Walker(p, kid2, lev2, zone2)'
    <2>1. Slot(p)' = le
      BY <1>2, <1>12, <1>15, <1>26 DEF Slot
    <2>2. Mutex(p)' = Mutex(p)
      BY <1>15 DEF Mutex
    <2>3. lev2[n] = lev[n] /\ zone2[n] = zone[n] /\ kid2[n][k] = c
      BY <1>2, <1>4, <1>18, <1>19, <1>20
    <2>4. /\ n \in DOMAIN subp' /\ le \in DOMAIN bodyp' /\ c \in DOMAIN subp'
      BY <1>2, <1>12, <1>14
    <2> QED BY <1>1, <1>2, <1>15, <1>26, <2>1, <2>2, <2>3, <2>4 DEF Walker
  <1>29. /\ \A q \in Proc : at'[q].pc \in {"load", "error", "loaded"} \cup Walking
         /\ InCube' /\ done' = {}
    BY <1>1, <1>15 DEF LoadPhase, InCube, Walking, Holding
  <1>30. LoadPhase(kid2, lev2, zone2, src2)'
    BY <1>21, <1>22, <1>23, <1>25, <1>27, <1>28, <1>29 DEF LoadPhase, SoundTree
  <1> QED BY <1>16, <1>30

\* Whatever a process does while the bodies are loaded.
LEMMA LoadSteps ==
  ASSUME Types, NEW kid, NEW lev, NEW zone, NEW src, LoadPhase(kid, lev, zone, src), NEW p \in Proc,
         Load(p)
  PROVE  /\ Types'
         /\ \E kid2, lev2, zone2, src2 : LoadPhase(kid2, lev2, zone2, src2)'
  <1>1. CASE \/ NextBody(p) \/ LookForNull(p) \/ LookForLeaf(p) \/ LockNull(p) \/ LockLeaf(p)
             \/ Descend(p)
    <2>1. Types' /\ LoadPhase(kid, lev, zone, src)'
      BY <1>1, LookingAround
    <2> QED BY <2>1
  <1>2. CASE InsertLeaf(p)
    BY <1>2, Inserting
  <1>3. CASE AddBody(p)
    <2>1. Types' /\ \E src2 : LoadPhase(kid, lev, zone, src2)'
      BY <1>3, Adding
    <2> QED BY <2>1
  <1>4. CASE HangCell(p)
    <2>1. Types' /\ LoadPhase(kid, lev, zone, src)'
      BY <1>4, Hanging
    <2> QED BY <2>1
  <1>5. CASE SubdivideLeaf(p)
    BY <1>5, Subdividing
  <1> QED BY <1>1, <1>2, <1>3, <1>4, <1>5 DEF Load

-----------------------------------------------------------------------------
(* All bodies are loaded.                                                  *)

\* A barrier changes nothing but where the processes are.
LEMMA Together ==
  ASSUME Types, NEW from, NEW to, Barrier(from, to)
  PROVE  /\ Types' /\ UNCHANGED <<place, minmax, cube, subp, bodyp, myncell, mynleaf, done, mass,
                                  mybodytab>>
         /\ \A p \in Proc : at[p].pc = from
         /\ \A p \in Proc : /\ at'[p].pc = to /\ at'[p].i = 1 /\ at'[p].k = 1
                            /\ at'[p].node = G_root /\ at'[p].l = 1 /\ at'[p].todo = << >>
  <1>1. /\ UNCHANGED <<place, minmax, cube, subp, bodyp, myncell, mynleaf, done, mass, mybodytab, lock>>
        /\ \A p \in Proc : at[p].pc = from
        /\ at' = [p \in Proc |-> At(p, to)]
    BY DEF Barrier, Box, Tree, Sums, Is
  <1>2. \A p \in Proc : at'[p] = [pc |-> to, i |-> 1, node |-> G_root, le |-> Null, l |-> 1, k |-> 1,
                                  todo |-> << >>, nstep |-> at[p].nstep]
    BY <1>1 DEF At, Local
  <1>3. at' = [p \in Proc |-> at'[p]] /\ \A p \in Proc : IsLocal(at'[p])
    BY <1>1, <1>2 DEF IsLocal
  <1>4. Types'
    BY <1>1, <1>3 DEF Types, CellNames, LeafNames, Place
  <1> QED BY <1>1, <1>2, <1>4

\* There are finitely many places of bodies in the tables.
LEMMA CopiesAreFinite ==
  ASSUME Types
  PROVE  /\ IsFiniteSet(Copies)
         /\ \A c \in Proc \X Nat : c \in Copies <=> c[2] \in DOMAIN mybodytab[c[1]]
         /\ Copies \subseteq Proc \X Nat
         /\ \A c \in Copies : mybodytab[c[1]][c[2]] \in Bodies
  <1>0. mybodytab \in [Proc -> Seq(Bodies)] /\ NPROC \in Nat
    BY BarnesAssumption DEF Types
  <1>1. \A p \in Proc : /\ Len(mybodytab[p]) \in Nat /\ DOMAIN mybodytab[p] = 1 .. Len(mybodytab[p])
                        /\ \A i \in DOMAIN mybodytab[p] : i \in Nat /\ mybodytab[p][i] \in Bodies
    BY <1>0
  <1>2. /\ \A c \in Proc \X Nat : c \in Copies <=> c[2] \in DOMAIN mybodytab[c[1]]
        /\ Copies \subseteq Proc \X Nat
    BY <1>1 DEF Copies
  <1>3. \A c \in Copies : c[1] \in Proc /\ c[2] \in DOMAIN mybodytab[c[1]]
    BY <1>2
  <1>4. \A c \in Copies : mybodytab[c[1]][c[2]] \in Bodies
    BY <1>1, <1>3
  <1> DEFINE upto(n) == {c \in Copies : c[1] < n}
             bad == {n \in 0 .. NPROC : ~IsFiniteSet(upto(n))}
  <1>5. bad = {}
    <2> SUFFICES ASSUME NEW x \in bad PROVE FALSE
      OBVIOUS
    <2>0. bad \subseteq Nat
      OBVIOUS
    <2>1. PICK n \in bad : \A y \in bad : n <= y
      BY <2>0, LeastNumber, Zenon
    <2>2. n \in 0 .. NPROC /\ ~IsFiniteSet(upto(n))
      OBVIOUS
    <2>3. n # 0
      <3>1. upto(0) = {}
        <4>1. \A c \in Copies : ~(c[1] < 0)
          BY <1>3 DEF Proc
        <4> QED BY <4>1
      <3> QED BY <2>2, <3>1, FS_EmptySet
    <2>4. n - 1 \in 0 .. NPROC /\ ~(n <= n - 1) /\ n - 1 \in Proc
      BY <1>0, <2>2, <2>3 DEF Proc
    <2>5. IsFiniteSet(upto(n - 1))
      <3>1. n - 1 \notin bad
        BY <2>1, <2>4, Zenon
      <3> QED BY <2>4, <3>1
    <2> DEFINE q    == n - 1
               mine == {q} \X DOMAIN mybodytab[q]
    <2>6. IsFiniteSet(mine)
      <3>1. q \in Proc /\ DOMAIN mybodytab[q] = 1 .. Len(mybodytab[q]) /\ Len(mybodytab[q]) \in Nat
        BY <1>1, <2>4
      <3>2. IsFiniteSet(DOMAIN mybodytab[q])
        BY <3>1, FirstNumbers
      <3>3. [i \in DOMAIN mybodytab[q] |-> <<q, i>>] \in Surjection(DOMAIN mybodytab[q], mine)
        BY DEF Surjection
      <3> HIDE DEF q, mine
      <3> QED BY <3>2, <3>3, FS_Surjection
    <2>7. upto(n) \subseteq upto(n - 1) \cup mine
      <3> SUFFICES ASSUME NEW c \in Copies, c[1] < n, ~(c[1] < q) PROVE c \in mine
        OBVIOUS
      <3>1. c[1] = q
        BY <1>0, <1>3, <2>2 DEF Proc
      <3>2. c = <<c[1], c[2]>>
        BY <1>2
      <3> QED BY <1>3, <3>1, <3>2
    <2>8. IsFiniteSet(upto(n - 1) \cup mine)
      BY <2>5, <2>6, FS_Union
    <2> HIDE DEF upto, mine
    <2>9. upto(n) \in SUBSET (upto(n - 1) \cup mine)
      BY <2>7
    <2> QED BY <2>2, <2>8, <2>9, FS_Subset
  <1>6. IsFiniteSet(upto(NPROC))
    <2> HIDE DEF upto
    <2>1. NPROC \in 0 .. NPROC
      BY <1>0
    <2> QED BY <1>5, <2>1
  <1>7. upto(NPROC) = Copies
    BY <1>0, <1>3 DEF Proc
  <1> QED BY <1>2, <1>4, <1>6, <1>7

\* The bodies of a leaf are counted by the places they come from.
LEMMA HeldCount ==
  ASSUME Types, NEW S, NEW src, Held(DOMAIN bodyp, bodyp, mybodytab, S, src), NEW n \in DOMAIN bodyp,
         NEW I \in SUBSET (1 .. Len(bodyp[n])), NEW T \in SUBSET S,
         \A i \in I : src[n][i] \in T, \A c \in T : \E i \in I : src[n][i] = c
  PROVE  IsFiniteSet(T) /\ Cardinality(T) = Cardinality(I)
  <1> DEFINE f == [i \in I |-> src[n][i]]
  <1>1. Len(bodyp[n]) \in Nat
    BY DEF Types
  <1>2. IsFiniteSet(I)
    BY <1>1, FirstNumbers, FS_Subset
  <1>3. \A i, j \in I : src[n][i] = src[n][j] => i = j
    BY SMTT(30) DEF Held
  <1>4. f \in Bijection(I, T)
    BY <1>3 DEF Bijection, Injection, Surjection, IsInjective
  <1>5. ExistsBijection(I, T)
    BY <1>4 DEF ExistsBijection
  <1> QED BY <1>2, <1>5, FS_Bijection

\* When all bodies are loaded, no cell is still to be hung up.
LEMMA AllLoaded ==
  ASSUME Types, NEW kid, NEW lev, NEW zone, NEW src, LoadPhase(kid, lev, zone, src),
         \A p \in Proc : at[p].pc = "loaded"
  PROVE  /\ SoundTree(subp, lev, zone) /\ Held(DOMAIN bodyp, bodyp, mybodytab, Copies, src)
         /\ InCube /\ done = {}
  <1>1. kid = subp
    <2>1. \A n \in DOMAIN subp : \A k \in Kids : subp[n][k] = kid[n][k]
      BY DEF LoadPhase, Links, Is
    <2>2. /\ subp \in [DOMAIN subp -> [Kids -> Node \cup {Null}]]
          /\ kid \in [DOMAIN subp -> [Kids -> Node \cup {Null}]]
      BY DEF LoadPhase, Links, SoundTree, TreeShape, Node
    <2>3. ASSUME NEW n \in DOMAIN subp PROVE subp[n] = kid[n]
      <3>1. subp[n] \in [Kids -> Node \cup {Null}] /\ kid[n] \in [Kids -> Node \cup {Null}]
        BY <2>2
      <3>2. \A k \in Kids : subp[n][k] = kid[n][k]
        BY <2>1
      <3> QED BY <3>1, <3>2
    <2> QED BY <2>2, <2>3
  <1>2. Loaded = Copies
    <2>1. \A q \in Proc : \A i \in Nat : <<q, i>> \in Loaded <=> i \in DOMAIN mybodytab[q]
      BY DEF Loaded, Past
    <2>2. \A q \in Proc : \A i \in Nat : <<q, i>> \in Copies <=> i \in DOMAIN mybodytab[q]
      BY CopiesAreFinite
    <2>3. Loaded \subseteq Proc \X Nat /\ Copies \subseteq Proc \X Nat
      BY CopiesAreFinite DEF Loaded
    <2> QED BY <2>1, <2>2, <2>3, SamePairs
  <1> QED BY <1>1, <1>2 DEF LoadPhase

\* A leaf has a body of its zone as often as the tables have it.
LEMMA InZone ==
  ASSUME Types, NEW lev, NEW zone, NEW src, SoundTree(subp, lev, zone),
         Held(DOMAIN bodyp, bodyp, mybodytab, Copies, src), NEW n \in DOMAIN bodyp
  PROVE  /\ \A i \in 1 .. Len(bodyp[n]) :
              /\ bodyp[n][i] \in Bodies /\ bodyp[n][i] \in zone[n] /\ n = WayDown(bodyp[n][i])
              /\ src[n][i] \in Copies /\ bodyp[n][i] = mybodytab[src[n][i][1]][src[n][i][2]]
         /\ \A c \in Copies : mybodytab[c[1]][c[2]] \in zone[n] =>
              \E i \in 1 .. Len(bodyp[n]) : src[n][i] = c
  <1>0. bodyp[n] \in Seq(Bodies)
    BY DEF Types
  <1>1. \A m \in DOMAIN bodyp : \A b \in Bodies : b \in zone[m] => m = WayDown(b)
    BY WayInZones DEF SoundTree
  <1>2. \A m \in DOMAIN bodyp : \A i \in 1 .. Len(bodyp[m]) :
          /\ bodyp[m][i] \in zone[m]
          /\ src[m][i] \in Copies /\ bodyp[m][i] = mybodytab[src[m][i][1]][src[m][i][2]]
    BY DEF SoundTree, Filled, Held
  <1>3. \A i \in 1 .. Len(bodyp[n]) : bodyp[n][i] \in Bodies
    BY <1>0
  <1>4. ASSUME NEW c \in Copies, mybodytab[c[1]][c[2]] \in zone[n]
        PROVE  \E i \in 1 .. Len(bodyp[n]) : src[n][i] = c
    <2>1. PICK m \in DOMAIN bodyp : \E i \in 1 .. Len(bodyp[m]) : src[m][i] = c
      BY DEF Held
    <2>2. PICK i \in 1 .. Len(bodyp[m]) : src[m][i] = c
      BY <2>1
    <2>3. bodyp[m][i] = mybodytab[c[1]][c[2]] /\ bodyp[m][i] \in zone[m]
      BY <1>2, <2>2
    <2>4. mybodytab[c[1]][c[2]] \in Bodies
      BY CopiesAreFinite
    <2>5. m = n
      BY <1>1, <1>4, <2>3, <2>4
    <2> QED BY <2>2, <2>5
  <1> QED BY <1>1, <1>2, <1>3, <1>4

\* The bodies are in the leaves where a search for them ends.
LEMMA InPlace ==
  ASSUME Types, NEW lev, NEW zone, NEW src, SoundTree(subp, lev, zone),
         Held(DOMAIN bodyp, bodyp, mybodytab, Copies, src)
  PROVE  BodiesAreInPlace
  <1>1. \A n \in DOMAIN bodyp : Len(bodyp[n]) \in 1 .. MAX_BODIES_PER_LEAF
    BY DEF SoundTree, Filled
  <1>2. ASSUME NEW b \in Bodies, NEW n \in DOMAIN bodyp
        PROVE  Cardinality({i \in DOMAIN bodyp[n] : bodyp[n][i] = b}) =
                 IF n = WayDown(b) THEN Times(b) ELSE 0
    <2> DEFINE I == {i \in 1 .. Len(bodyp[n]) : bodyp[n][i] = b}
               T == {c \in Copies : mybodytab[c[1]][c[2]] = b}
    <2>0. DOMAIN bodyp[n] = 1 .. Len(bodyp[n])
      BY DEF Types
    <2>1. \A i \in 1 .. Len(bodyp[n]) :
              /\ bodyp[n][i] \in Bodies /\ bodyp[n][i] \in zone[n] /\ n = WayDown(bodyp[n][i])
              /\ src[n][i] \in Copies /\ bodyp[n][i] = mybodytab[src[n][i][1]][src[n][i][2]]
      BY InZone, SMTT(30)
    <2>2. CASE n # WayDown(b)
      <3>1. I = {}
        BY <2>1, <2>2
      <3> QED BY <2>0, <2>2, <3>1, FS_EmptySet
    <2>3. CASE n = WayDown(b)
      <3>1. \A c \in T : \E i \in I : src[n][i] = c
        <4> SUFFICES ASSUME NEW c \in Copies, mybodytab[c[1]][c[2]] = b
                     PROVE  \E i \in I : src[n][i] = c
          OBVIOUS
        <4>1. PICK m \in DOMAIN bodyp : \E i \in 1 .. Len(bodyp[m]) : src[m][i] = c
          BY DEF Held
        <4>2. PICK i \in 1 .. Len(bodyp[m]) : src[m][i] = c
          BY <4>1
        <4>3. bodyp[m][i] = b /\ m = WayDown(bodyp[m][i])
          BY <4>2, InZone
        <4> QED BY <2>3, <4>2, <4>3
      <3>2. \A i \in I : src[n][i] \in T
        BY <2>1
      <3>3. I \in SUBSET (1 .. Len(bodyp[n])) /\ T \in SUBSET Copies
        OBVIOUS
      <3>4. T = {c \in Copies : mybodytab[c[1]][c[2]] = b}
        OBVIOUS
      <3> HIDE DEF I, T
      <3>5. Cardinality(T) = Cardinality(I)
        BY <3>1, <3>2, <3>3, HeldCount
      <3>6. Times(b) = Cardinality(T)
        BY <3>4 DEF Times
      <3> QED BY <2>0, <2>3, <3>5, <3>6 DEF I
    <2> QED BY <2>2, <2>3
  <1>3. ASSUME NEW b \in Bodies, Times(b) > 0 PROVE WayDown(b) \in DOMAIN bodyp
    <2>1. {c \in Copies : mybodytab[c[1]][c[2]] = b} # {}
      <3> SUFFICES ASSUME {c \in Copies : mybodytab[c[1]][c[2]] = b} = {} PROVE FALSE
        OBVIOUS
      <3>1. Times(b) = Cardinality({})
        BY DEF Times
      <3>2. Times(b) = 0
        BY <3>1, FS_EmptySet
      <3> QED BY <1>3, <3>2
    <2>2. PICK c \in Copies : mybodytab[c[1]][c[2]] = b
      BY <2>1
    <2>3. PICK m \in DOMAIN bodyp : \E i \in 1 .. Len(bodyp[m]) : src[m][i] = c
      BY DEF Held
    <2>4. PICK i \in 1 .. Len(bodyp[m]) : src[m][i] = c
      BY <2>3
    <2>5. bodyp[m][i] = b /\ m = WayDown(bodyp[m][i])
      BY <2>2, <2>4, InZone
    <2> QED BY <2>5
  <1> QED BY <1>1, <1>2, <1>3 DEF BodiesAreInPlace

-----------------------------------------------------------------------------
(* While the nodes are summed.                                             *)

\* A node is in the table of its process.
LEMMA Owners ==
  ASSUME Types
  PROVE  /\ \A n \in DOMAIN subp : /\ n[2] \in Proc /\ n[3] \in Nat /\ n[3] < myncell[n[2]]
                                  /\ n = Cell(n[2], n[3]) /\ Type(n) = "cell"
                                  /\ myncell[n[2]] \in Nat
         /\ \A n \in DOMAIN bodyp : /\ n[2] \in Proc /\ n[3] \in Nat /\ n[3] < mynleaf[n[2]]
                                   /\ n = Leaf(n[2], n[3]) /\ Type(n) = "leaf"
                                   /\ mynleaf[n[2]] \in Nat
  <1>1. /\ myncell \in [Proc -> Nat] /\ mynleaf \in [Proc -> Nat]
        /\ DOMAIN subp = CellNames /\ DOMAIN bodyp = LeafNames
    BY Names DEF Types
  <1>2. \A n \in CellNames : n[2] \in Proc /\ n[3] \in Nat /\ n[3] < myncell[n[2]]
    BY DEF CellNames
  <1>3. \A n \in LeafNames : n[2] \in Proc /\ n[3] \in Nat /\ n[3] < mynleaf[n[2]]
    BY DEF LeafNames
  <1> QED BY <1>1, <1>2, <1>3, Names

BodyAt(c) == mybodytab[c[1]][c[2]]

\* The number of bodies in a zone, and of those in its first children.
Under(n, zone)          == Cardinality({c \in Copies : BodyAt(c) \in zone[n]})
Before(n, j, lev, zone) == Cardinality({c \in Copies : /\ BodyAt(c) \in zone[n]
                                                       /\ place[BodyAt(c)][lev[n] + 1] < j})

\* The nodes whose sum is complete, the one a process is at, and what it has taken
\* the sums of.
IsSummed(n) ==
  \/ at[n[2]].pc = "summed"
  \/ Type(n) = "leaf" /\ at[n[2]].pc = "cells"
  \/ Type(n) = "leaf" /\ at[n[2]].pc = "leaves" /\ mynleaf[n[2]] - n[3] < at[n[2]].i
  \/ Type(n) = "cell" /\ at[n[2]].pc = "cells" /\ myncell[n[2]] - n[3] < at[n[2]].i
IsCurrent(n)   == at[n[2]].pc = "cells" /\ myncell[n[2]] - n[3] = at[n[2]].i
HasTaken(m, j) == IsSummed(m) \/ (IsCurrent(m) /\ j < at[m[2]].k - 1)
IsTaken(n)     == \E m \in DOMAIN subp : \E j \in Kids : subp[m][j] = n /\ HasTaken(m, j)

SumPhase(lev, zone, src) ==
  /\ \A p \in Proc : at[p].pc \in {"leaves", "cells", "summed"} /\ at[p].k \in 1 .. NSUB
  /\ InCube
  /\ SoundTree(subp, lev, zone)
  /\ Held(DOMAIN bodyp, bodyp, mybodytab, Copies, src)
  /\ done = {n \in Node : IsSummed(n) /\ ~IsTaken(n)}
  /\ \A n \in Node : IsTaken(n) => IsSummed(n)
  /\ \A n \in Node : IsSummed(n) => n \in DOMAIN mass /\ mass[n] = Under(n, zone)
  /\ \A n \in DOMAIN subp : IsCurrent(n) /\ at[n[2]].k > 1 =>
       n \in DOMAIN mass /\ mass[n] = Before(n, at[n[2]].k - 1, lev, zone)

\* At first no node is summed.
LEMMA SumsBegin ==
  ASSUME Types, NEW kid, NEW lev, NEW zone, NEW src, LoadPhase(kid, lev, zone, src),
         Barrier("loaded", "leaves")
  PROVE  Types' /\ SumPhase(lev, zone, src)'
  <1>1. /\ Types'
        /\ UNCHANGED <<place, minmax, cube, subp, bodyp, myncell, mynleaf, done, mass, mybodytab>>
        /\ \A p \in Proc : at[p].pc = "loaded"
        /\ \A p \in Proc : at'[p].pc = "leaves" /\ at'[p].i = 1 /\ at'[p].k = 1
    BY Together
  <1>2. /\ SoundTree(subp, lev, zone) /\ Held(DOMAIN bodyp, bodyp, mybodytab, Copies, src)
        /\ InCube /\ done = {}
    BY <1>1, AllLoaded
  <1>3. /\ SoundTree(subp, lev, zone)' /\ InCube'
        /\ Held(DOMAIN bodyp, bodyp, mybodytab, Copies, src)'
    BY <1>1, <1>2 DEF SoundTree, Filled, InCube, Copies
  <1>4. ASSUME NEW n \in Node
        PROVE  ~IsSummed(n)' /\ ~IsCurrent(n)'
    <2>1. n[2] \in Proc /\ n[3] \in Nat /\ Type(n) \in {"cell", "leaf"}
          /\ (Type(n) = "leaf" => n[3] < mynleaf[n[2]] /\ mynleaf[n[2]] \in Nat)
      BY Owners DEF Node
    <2>2. at'[n[2]].pc = "leaves" /\ at'[n[2]].i = 1
      BY <1>1, <2>1
    <2>3. Type(n) = "leaf" => ~(mynleaf[n[2]] - n[3] < 1)
      BY <2>1
    <2> QED BY <1>1, <2>2, <2>3 DEF IsSummed, IsCurrent
  <1>5. Node' = Node /\ \A n \in DOMAIN subp : n \in Node
    BY <1>1 DEF Node
  <1>6. ASSUME NEW n \in Node PROVE ~IsTaken(n)'
    BY <1>1, <1>4, <1>5 DEF IsTaken, HasTaken
  <1>7. 1 \in 1 .. NSUB
    BY BarnesAssumption
  <1> QED BY <1>1, <1>2, <1>3, <1>4, <1>5, <1>6, <1>7 DEF SumPhase

\* What is below a leaf and below the children of a cell.
LEMMA UnderLeaf ==
  ASSUME Types, NEW lev, NEW zone, NEW src, SoundTree(subp, lev, zone),
         Held(DOMAIN bodyp, bodyp, mybodytab, Copies, src), NEW n \in DOMAIN bodyp
  PROVE  Under(n, zone) = Len(bodyp[n])
  <1> DEFINE I == 1 .. Len(bodyp[n])
             T == {c \in Copies : mybodytab[c[1]][c[2]] \in zone[n]}
  <1>1. \A i \in I : src[n][i] \in T
    BY InZone
  <1>2. \A c \in T : \E i \in I : src[n][i] = c
    BY InZone
  <1>3. I \in SUBSET (1 .. Len(bodyp[n])) /\ T \in SUBSET Copies
    OBVIOUS
  <1>4. Cardinality(I) = Len(bodyp[n])
    <2>1. Len(bodyp[n]) \in Nat
      BY DEF Types
    <2> QED BY <2>1, FirstNumbers
  <1>5. Under(n, zone) = Cardinality(T)
    BY DEF Under, BodyAt
  <1> HIDE DEF I, T
  <1>6. Cardinality(T) = Cardinality(I)
    BY <1>1, <1>2, <1>3, HeldCount
  <1> QED BY <1>4, <1>5, <1>6

LEMMA UnderCell ==
  ASSUME Types, NEW lev, NEW zone, NEW src, SoundTree(subp, lev, zone),
         Held(DOMAIN bodyp, bodyp, mybodytab, Copies, src), NEW n \in DOMAIN subp
  PROVE  /\ Before(n, 0, lev, zone) = 0 /\ Before(n, NSUB, lev, zone) = Under(n, zone)
         /\ \A k \in Kids : Before(n, k + 1, lev, zone) =
              Before(n, k, lev, zone) + (IF subp[n][k] = Null THEN 0 ELSE Under(subp[n][k], zone))
         /\ \A k \in Kids : subp[n][k] \in Node \cup {Null}
         /\ \A j \in Nat : Before(n, j, lev, zone) \in Nat
  <1> DEFINE kidof(c) == place[BodyAt(c)][lev[n] + 1]
             U        == {c \in Copies : BodyAt(c) \in zone[n]}
             B(j)     == {c \in Copies : BodyAt(c) \in zone[n] /\ kidof(c) < j}
             K(k)     == {c \in Copies : BodyAt(c) \in zone[n] /\ kidof(c) = k}
  <1>0. /\ Before(n, 0, lev, zone) = Cardinality(B(0)) /\ Under(n, zone) = Cardinality(U)
        /\ \A j \in Nat : Before(n, j, lev, zone) = Cardinality(B(j))
    BY DEF Before, Under
  <1>1. TreeShape(DOMAIN subp, DOMAIN bodyp, place, subp, lev, zone)
    BY DEF SoundTree
  <1>2. lev[n] + 1 \in 1 .. Levels
    <2>1. lev[n] \in 0 .. Levels /\ lev[n] < Levels
      BY <1>1 DEF TreeShape
    <2> QED BY <2>1, BarnesAssumption
  <1>3. \A c \in Copies : BodyAt(c) \in Bodies /\ kidof(c) \in Kids
    <2>1. \A c \in Copies : BodyAt(c) \in Bodies
      BY CopiesAreFinite DEF BodyAt
    <2>2. place \in [Bodies -> [1 .. Levels -> Kids]]
      BY DEF Types, Place
    <2> QED BY <1>2, <2>1, <2>2
  <1>4. IsFiniteSet(Copies) /\ NSUB \in Nat /\ Kids = 0 .. NSUB - 1
    BY CopiesAreFinite, BarnesAssumption DEF Kids
  <1> HIDE DEF kidof
  <1>5. B(0) = {}
    <2>1. \A c \in Copies : ~(kidof(c) < 0)
      BY <1>3, <1>4
    <2> QED BY <2>1
  <1>6. B(NSUB) = U
    <2>1. \A c \in Copies : kidof(c) < NSUB
      BY <1>3, <1>4
    <2> QED BY <2>1
  <1>7. \A j \in Nat : IsFiniteSet(B(j)) /\ Cardinality(B(j)) \in Nat
    <2> SUFFICES ASSUME NEW j \in Nat PROVE IsFiniteSet(B(j)) /\ Cardinality(B(j)) \in Nat
      OBVIOUS
    <2>1. B(j) \in SUBSET Copies
      OBVIOUS
    <2> HIDE DEF B
    <2> QED BY <1>4, <2>1, FS_Subset, FS_CardinalityType
  <1>8. \A k \in Kids : subp[n][k] \in Node \cup {Null}
    BY <1>1 DEF TreeShape, Node
  <1>9. ASSUME NEW k \in Kids
        PROVE  Cardinality(B(k + 1)) =
                 Cardinality(B(k)) + (IF subp[n][k] = Null THEN 0 ELSE Under(subp[n][k], zone))
    <2>1. B(k + 1) = B(k) \cup K(k) /\ B(k) \cap K(k) = {}
      <3>1. \A c \in Copies : /\ kidof(c) < k + 1 <=> kidof(c) < k \/ kidof(c) = k
                              /\ ~(kidof(c) < k /\ kidof(c) = k)
        BY <1>3, <1>4
      <3> QED BY <3>1
    <2>2. K(k) \in SUBSET Copies /\ k \in Nat
      BY <1>4
    <2>3. CASE subp[n][k] = Null
      <3>1. ASSUME NEW c \in Copies, BodyAt(c) \in zone[n], kidof(c) = k PROVE FALSE
        <4>1. PICK m \in DOMAIN bodyp : \E i \in 1 .. Len(bodyp[m]) : src[m][i] = c
          BY DEF Held
        <4>2. PICK i \in 1 .. Len(bodyp[m]) : src[m][i] = c
          BY <4>1
        <4>3. bodyp[m][i] = BodyAt(c) /\ m = WayDown(BodyAt(c))
          BY <4>2, InZone DEF BodyAt
        <4>4. subp[n][place[BodyAt(c)][lev[n] + 1]] = Null
          BY <2>3, <3>1 DEF kidof
        <4>5. WayDown(BodyAt(c)) = Null
          BY <1>1, <1>3, <3>1, <4>4, WayInZones
        <4> QED BY <4>3, <4>5, Names DEF Node
      <3>2. B(k + 1) = B(k)
        BY <2>1, <3>1
      <3> HIDE DEF B
      <3> QED BY <1>7, <2>2, <2>3, <3>2
    <2>4. CASE subp[n][k] # Null
      <3>1. \A b \in Bodies : b \in zone[subp[n][k]] <=> b \in zone[n] /\ place[b][lev[n] + 1] = k
        BY <1>1, <2>4 DEF TreeShape
      <3>2. K(k) = {c \in Copies : BodyAt(c) \in zone[subp[n][k]]}
        BY <1>3, <3>1 DEF kidof
      <3>3. Under(subp[n][k], zone) = Cardinality(K(k))
        BY <3>2 DEF Under
      <3> HIDE DEF B, K
      <3>4. IsFiniteSet(K(k)) /\ Cardinality(K(k)) \in Nat
        BY <1>4, <2>2, FS_Subset, FS_CardinalityType
      <3>5. Cardinality(B(k + 1)) = Cardinality(B(k)) + Cardinality(K(k)) - Cardinality({})
        BY <1>7, <2>1, <2>2, <3>4, FS_Union
      <3>6. Cardinality({}) = 0
        BY FS_EmptySet
      <3> QED BY <1>7, <2>2, <2>4, <3>3, <3>4, <3>5, <3>6
    <2> QED BY <2>3, <2>4
  <1> HIDE DEF B, U, K
  <1>a. \A k \in Kids : k \in Nat /\ k + 1 \in Nat
    BY <1>4
  <1> QED BY <1>0, <1>4, <1>5, <1>6, <1>7, <1>8, <1>9, <1>a, FS_EmptySet

\* Some nodes are summed, and some have been taken by their parents.
SumStep(lev, zone, new, took) ==
  /\ UNCHANGED <<place, cube, subp, bodyp, mybodytab>>
  /\ \A p \in Proc : at'[p].pc \in {"leaves", "cells", "summed"} /\ at'[p].k \in 1 .. NSUB
  /\ new \subseteq Node
  /\ \A n \in Node : IsSummed(n)' <=> IsSummed(n) \/ n \in new
  /\ \A n \in Node : IsTaken(n)' <=> IsTaken(n) \/ n \in took
  /\ \A n \in Node : n \in took => IsSummed(n)
  /\ \A n \in new : ~IsSummed(n)
  /\ done' = (done \ took) \cup new
  /\ \A n \in new : n \in DOMAIN mass' /\ mass'[n] = Under(n, zone)
  /\ \A n \in Node : IsSummed(n) => n \in DOMAIN mass' /\ mass'[n] = mass[n]
  /\ \A n \in DOMAIN subp : IsCurrent(n)' /\ at'[n[2]].k > 1 =>
       n \in DOMAIN mass' /\ mass'[n] = Before(n, at'[n[2]].k - 1, lev, zone)

LEMMA SumsGoOn ==
  ASSUME Types, NEW lev, NEW zone, NEW src, SumPhase(lev, zone, src),
         NEW new, NEW took, SumStep(lev, zone, new, took)
  PROVE  SumPhase(lev, zone, src)'
  <1>0. UNCHANGED <<place, cube, subp, bodyp, mybodytab>>
    BY DEF SumStep
  <1>1. Node' = Node
    BY <1>0 DEF Node
  <1>2. /\ SoundTree(subp, lev, zone)' /\ InCube'
        /\ Held(DOMAIN bodyp, bodyp, mybodytab, Copies, src)'
    BY <1>0 DEF SumPhase, SoundTree, Filled, InCube, Copies
  <1>3. \A n : Under(n, zone)' = Under(n, zone)
    BY <1>0 DEF Under, Copies, BodyAt
  <1>4. \A n \in DOMAIN subp : Before(n, at[n[2]].k - 1, lev, zone)' = Before(n, at'[n[2]].k - 1, lev, zone)
    BY <1>0 DEF Before, Copies, BodyAt
  <1>5. /\ done = {n \in Node : IsSummed(n) /\ ~IsTaken(n)}
        /\ \A n \in Node : IsTaken(n) => IsSummed(n)
        /\ \A n \in Node : IsSummed(n) => n \in DOMAIN mass /\ mass[n] = Under(n, zone)
    BY DEF SumPhase
  <1>6. done' = {n \in Node : IsSummed(n)' /\ ~IsTaken(n)'}
    BY <1>1, <1>5 DEF SumStep
  <1>7. \A n \in Node : IsTaken(n)' => IsSummed(n)'
    BY <1>5 DEF SumStep
  <1>8. \A n \in Node : IsSummed(n)' => n \in DOMAIN mass' /\ mass'[n] = Under(n, zone)
    BY <1>5 DEF SumStep
  <1>9. (\A n \in DOMAIN subp : IsCurrent(n) /\ at[n[2]].k > 1 =>
           n \in DOMAIN mass /\ mass[n] = Before(n, at[n[2]].k - 1, lev, zone))'
    BY <1>0, <1>4 DEF SumStep
  <1> QED BY <1>1, <1>2, <1>3, <1>6, <1>7, <1>8, <1>9 DEF SumPhase, SumStep

\* A process goes through its leaves.
LEMMA SummingLeaf ==
  ASSUME Types, NEW lev, NEW zone, NEW src, SumPhase(lev, zone, src), NEW p \in Proc, SumLeaf(p)
  PROVE  Types' /\ SumPhase(lev, zone, src)'
  <1>1. /\ at[p].pc = "leaves"
        /\ UNCHANGED <<place, minmax, cube, subp, bodyp, myncell, mynleaf, lock, mybodytab>>
    BY DEF SumLeaf, Summing, Is, Box, Tree
  <1>2. /\ at[p].i \in Nat \ {0} /\ mynleaf[p] \in Nat /\ myncell[p] \in Nat
        /\ \A q \in Proc : at[q].pc \in {"leaves", "cells", "summed"} /\ at[q].k \in 1 .. NSUB
        /\ 1 \in 1 .. NSUB
    BY BarnesAssumption, SMTT(30) DEF Types, IsLocal, SumPhase
  <1>3. ASSUME at' = [q \in Proc |-> at'[q]], \A q \in Proc : IsLocal(at'[q]) PROVE Types'
    BY <1>1, <1>3 DEF Types, CellNames, LeafNames, Place
  <1>4. \A n \in Node : n \in DOMAIN subp \/ n \in DOMAIN bodyp
    BY DEF Node
  <1>5. CASE at[p].i > mynleaf[p]
    <2>1. Enter(p, "cells") /\ done' = done /\ mass' = mass
      BY <1>5 DEF SumLeaf, Sums
    <2>2. /\ at' = [q \in Proc |-> at'[q]] /\ \A q \in Proc : IsLocal(at'[q])
          /\ \A q \in Proc : q # p => at'[q] = at[q]
          /\ at'[p].pc = "cells" /\ at'[p].i = 1 /\ at'[p].k = 1
      BY <2>1, Moves
    <2>3. ASSUME NEW n \in Node
          PROVE  /\ IsSummed(n)' <=> IsSummed(n)
                 /\ \A j \in Kids : HasTaken(n, j)' <=> HasTaken(n, j)
                 /\ IsCurrent(n)' /\ at'[n[2]].k > 1 => IsCurrent(n) /\ at'[n[2]] = at[n[2]]
      <3>1. CASE n[2] # p
        <4>1. at'[n[2]] = at[n[2]]
          BY <1>4, <2>2, <3>1, Owners
        <4> QED BY <1>1, <4>1 DEF IsSummed, IsCurrent, HasTaken
      <3>2. CASE n[2] = p
        <4>1. CASE n \in DOMAIN subp
          <5>1. Type(n) = "cell" /\ n[3] \in Nat /\ n[3] < myncell[p]
            BY <3>2, <4>1, Owners
          <5>2. ~(myncell[p] - n[3] < 1)
            BY <1>2, <5>1
          <5>3. ~IsSummed(n) /\ ~IsSummed(n)'
            BY <1>1, <2>2, <3>2, <5>1, <5>2 DEF IsSummed
          <5>4. \A j \in Kids : ~(j < 1 - 1)
            BY BarnesAssumption DEF Kids
          <5> QED BY <1>1, <2>2, <3>2, <5>3, <5>4 DEF IsCurrent, HasTaken
        <4>2. CASE n \in DOMAIN bodyp
          <5>1. Type(n) = "leaf" /\ n[3] \in Nat /\ n[3] < mynleaf[p]
            BY <3>2, <4>2, Owners
          <5>2. mynleaf[p] - n[3] < at[p].i
            BY <1>2, <1>5, <5>1
          <5>3. IsSummed(n) /\ IsSummed(n)'
            BY <1>1, <2>2, <3>2, <5>1, <5>2 DEF IsSummed
          <5> QED BY <2>2, <3>2, <5>3 DEF HasTaken
        <4> QED BY <1>4, <4>1, <4>2
      <3> QED BY <3>1, <3>2
    <2>4. \A n \in Node : IsTaken(n)' <=> IsTaken(n)
      BY <1>1, <2>3 DEF IsTaken, Node
    <2>5. \A n \in DOMAIN subp : IsCurrent(n)' /\ at'[n[2]].k > 1 =>
            n \in DOMAIN mass' /\ mass'[n] = Before(n, at'[n[2]].k - 1, lev, zone)
      <3> SUFFICES ASSUME NEW n \in DOMAIN subp, IsCurrent(n)', at'[n[2]].k > 1
                   PROVE  n \in DOMAIN mass' /\ mass'[n] = Before(n, at'[n[2]].k - 1, lev, zone)
        OBVIOUS
      <3>1. IsCurrent(n) /\ at'[n[2]] = at[n[2]]
        BY <2>3 DEF Node
      <3>2. n \in DOMAIN mass /\ mass[n] = Before(n, at[n[2]].k - 1, lev, zone)
        BY <3>1 DEF SumPhase
      <3> QED BY <2>1, <3>1, <3>2
    <2>6. \A n \in Node : IsSummed(n) => n \in DOMAIN mass' /\ mass'[n] = mass[n]
      BY <2>1 DEF SumPhase
    <2>7. \A q \in Proc : at'[q].pc \in {"leaves", "cells", "summed"} /\ at'[q].k \in 1 .. NSUB
      BY <1>2, <2>2
    <2>8. Types'
      BY <1>3, <2>2
    <2>9. {} \in SUBSET Node /\ done' = (done \ {}) \cup {}
      BY <2>1
    <2>10. SumStep(lev, zone, {}, {})
      BY <1>1, <2>3, <2>4, <2>5, <2>6, <2>7, <2>9 DEF SumStep
    <2>11. SumPhase(lev, zone, src)'
      BY <2>10, SumsGoOn
    <2> QED BY <2>8, <2>11
  <1>6. CASE ~(at[p].i > mynleaf[p])
    <2> DEFINE l == Leaf(p, mynleaf[p] - at[p].i)
    <2>1. Again(p, "leaves") /\ done' = done \cup {l} /\ mass' = With(mass, l, Len(bodyp[l]))
      BY <1>6 DEF SumLeaf
    <2>2. /\ at' = [q \in Proc |-> at'[q]] /\ \A q \in Proc : IsLocal(at'[q])
          /\ \A q \in Proc : q # p => at'[q] = at[q]
          /\ at'[p].pc = "leaves" /\ at'[p].i = at[p].i + 1 /\ at'[p].k = 1
      BY <2>1, Moves
    <2>3. /\ l \in DOMAIN bodyp /\ l[2] = p /\ l[3] = mynleaf[p] - at[p].i
          /\ Type(l) = "leaf" /\ l \in Node
      <3>1. mynleaf[p] - at[p].i \in Nat /\ mynleaf[p] - at[p].i < mynleaf[p]
        BY <1>2, <1>6
      <3> QED BY <3>1, Names DEF Leaf, Type, Node
    <2>4. ASSUME NEW n \in Node
          PROVE  /\ IsSummed(n)' <=> IsSummed(n) \/ n \in {l}
                 /\ IsSummed(n) => n # l
                 /\ n \in DOMAIN subp => /\ \A j \in Kids : HasTaken(n, j)' <=> HasTaken(n, j)
                                         /\ IsCurrent(n)' => IsCurrent(n) /\ at'[n[2]] = at[n[2]]
      <3>1. CASE n[2] # p
        <4>1. at'[n[2]] = at[n[2]] /\ n # l
          BY <1>4, <2>2, <2>3, <3>1, Owners
        <4> QED BY <1>1, <4>1 DEF IsSummed, IsCurrent, HasTaken
      <3>2. CASE n[2] = p
        <4>1. CASE n \in DOMAIN subp
          <5>1. Type(n) = "cell" /\ n # l
            BY <2>3, <4>1, Owners
          <5>2. ~IsSummed(n) /\ ~IsSummed(n)'
            BY <1>1, <2>2, <3>2, <5>1 DEF IsSummed
          <5> QED BY <1>1, <2>2, <3>2, <5>1, <5>2 DEF IsCurrent, HasTaken
        <4>2. CASE n \in DOMAIN bodyp
          <5>1. /\ Type(n) = "leaf" /\ n[3] \in Nat /\ n[3] < mynleaf[p] /\ n = Leaf(p, n[3])
                /\ n \notin DOMAIN subp
            BY <3>2, <4>2, Owners, Names
          <5>2. n = l <=> n[3] = mynleaf[p] - at[p].i
            BY <2>3, <5>1 DEF Leaf
          <5>3. /\ IsSummed(n) <=> mynleaf[p] - n[3] < at[p].i
                /\ IsSummed(n)' <=> mynleaf[p] - n[3] < at[p].i + 1
            BY <1>1, <2>2, <3>2, <5>1 DEF IsSummed
          <5> HIDE DEF l
          <5>4. /\ mynleaf[p] - n[3] < at[p].i + 1 <=>
                     mynleaf[p] - n[3] < at[p].i \/ n[3] = mynleaf[p] - at[p].i
                /\ mynleaf[p] - n[3] < at[p].i => ~(n[3] = mynleaf[p] - at[p].i)
            BY <1>2, <5>1
          <5> QED BY <5>1, <5>2, <5>3, <5>4
        <4> QED BY <1>4, <4>1, <4>2
      <3> QED BY <3>1, <3>2
    <2> HIDE DEF l
    <2>5. \A n \in Node : IsTaken(n)' <=> IsTaken(n)
      BY <1>1, <2>4 DEF IsTaken, Node
    <2>6. \A n \in Node : IsSummed(n) => n \in DOMAIN mass' /\ mass'[n] = mass[n]
      <3>1. \A n \in Node : IsSummed(n) => n \in DOMAIN mass /\ n # l
        BY <2>4 DEF SumPhase
      <3> QED BY <2>1, <3>1 DEF With
    <2>7. l \in DOMAIN mass' /\ mass'[l] = Under(l, zone)
      <3>1. Under(l, zone) = Len(bodyp[l])
        BY <2>3, UnderLeaf DEF SumPhase
      <3> QED BY <2>1, <3>1 DEF With
    <2>8. \A n \in DOMAIN subp : IsCurrent(n)' /\ at'[n[2]].k > 1 =>
            n \in DOMAIN mass' /\ mass'[n] = Before(n, at'[n[2]].k - 1, lev, zone)
      <3> SUFFICES ASSUME NEW n \in DOMAIN subp, IsCurrent(n)', at'[n[2]].k > 1
                   PROVE  n \in DOMAIN mass' /\ mass'[n] = Before(n, at'[n[2]].k - 1, lev, zone)
        OBVIOUS
      <3>1. IsCurrent(n) /\ at'[n[2]] = at[n[2]]
        BY <2>4 DEF Node
      <3>2. n \in DOMAIN mass /\ mass[n] = Before(n, at[n[2]].k - 1, lev, zone)
        BY <3>1 DEF SumPhase
      <3>3. n # l
        BY <2>3, Names
      <3> QED BY <2>1, <3>1, <3>2, <3>3 DEF With
    <2>9. \A q \in Proc : at'[q].pc \in {"leaves", "cells", "summed"} /\ at'[q].k \in 1 .. NSUB
      BY <1>2, <2>2
    <2>10. Types'
      BY <1>3, <2>2
    <2>11. {l} \in SUBSET Node /\ done' = (done \ {}) \cup {l}
      BY <2>1, <2>3
    <2>12. \A n \in {l} : ~IsSummed(n) /\ n \in DOMAIN mass' /\ mass'[n] = Under(n, zone)
      BY <2>3, <2>4, <2>7
    <2>13. SumStep(lev, zone, {l}, {})
      BY <1>1, <2>4, <2>5, <2>6, <2>8, <2>9, <2>11, <2>12 DEF SumStep
    <2>14. SumPhase(lev, zone, src)'
      BY <2>13, SumsGoOn
    <2> QED BY <2>10, <2>14
  <1> QED BY <1>5, <1>6

\* A process goes through its cells.
LEMMA SummingCell ==
  ASSUME Types, NEW lev, NEW zone, NEW src, SumPhase(lev, zone, src), NEW p \in Proc, SumCell(p)
  PROVE  Types' /\ SumPhase(lev, zone, src)'
  <1>1. /\ at[p].pc = "cells"
        /\ UNCHANGED <<place, minmax, cube, subp, bodyp, myncell, mynleaf, lock, mybodytab>>
    BY DEF SumCell, Summing, Is, Box, Tree
  <1>2. /\ at[p].i \in Nat \ {0} /\ mynleaf[p] \in Nat /\ myncell[p] \in Nat
        /\ \A q \in Proc : at[q].pc \in {"leaves", "cells", "summed"} /\ at[q].k \in 1 .. NSUB
        /\ NSUB \in Nat \ {0} /\ Kids = 0 .. NSUB - 1
    BY BarnesAssumption DEF Types, IsLocal, SumPhase, Kids
  <1>3. ASSUME at' = [q \in Proc |-> at'[q]], \A q \in Proc : IsLocal(at'[q]) PROVE Types'
    BY <1>1, <1>3 DEF Types, CellNames, LeafNames, Place
  <1>4. \A n \in Node : n \in DOMAIN subp \/ n \in DOMAIN bodyp
    BY DEF Node
  <1>5. CASE at[p].i > myncell[p]
    <2>1. Enter(p, "summed") /\ done' = done /\ mass' = mass
      BY <1>5 DEF SumCell, Sums
    <2>2. /\ at' = [q \in Proc |-> at'[q]] /\ \A q \in Proc : IsLocal(at'[q])
          /\ \A q \in Proc : q # p => at'[q] = at[q]
          /\ at'[p].pc = "summed" /\ at'[p].i = 1 /\ at'[p].k = 1
      BY <2>1, Moves
    <2>3. ASSUME NEW n \in Node
          PROVE  /\ IsSummed(n)' <=> IsSummed(n)
                 /\ \A j \in Kids : HasTaken(n, j)' <=> HasTaken(n, j)
                 /\ IsCurrent(n)' /\ at'[n[2]].k > 1 => IsCurrent(n) /\ at'[n[2]] = at[n[2]]
      <3>1. CASE n[2] # p
        <4>1. at'[n[2]] = at[n[2]]
          BY <1>4, <2>2, <3>1, Owners
        <4> QED BY <1>1, <4>1 DEF IsSummed, IsCurrent, HasTaken
      <3>2. CASE n[2] = p
        <4>1. IsSummed(n)' /\ ~IsCurrent(n)'
          BY <1>1, <2>2, <3>2 DEF IsSummed, IsCurrent
        <4>2. IsSummed(n)
          <5>1. CASE n \in DOMAIN subp
            <6>1. Type(n) = "cell" /\ n[3] \in Nat /\ n[3] < myncell[p]
              BY <3>2, <5>1, Owners
            <6>2. myncell[p] - n[3] < at[p].i
              BY <1>2, <1>5, <6>1
            <6> QED BY <1>1, <3>2, <6>1, <6>2 DEF IsSummed
          <5>2. CASE n \in DOMAIN bodyp
            <6>1. Type(n) = "leaf"
              BY <5>2, Owners
            <6> QED BY <1>1, <3>2, <6>1 DEF IsSummed
          <5> QED BY <1>4, <5>1, <5>2
        <4> QED BY <4>1, <4>2 DEF HasTaken
      <3> QED BY <3>1, <3>2
    <2>4. \A n \in Node : IsTaken(n)' <=> IsTaken(n)
      BY <1>1, <2>3 DEF IsTaken, Node
    <2>5. \A n \in DOMAIN subp : IsCurrent(n)' /\ at'[n[2]].k > 1 =>
            n \in DOMAIN mass' /\ mass'[n] = Before(n, at'[n[2]].k - 1, lev, zone)
      <3> SUFFICES ASSUME NEW n \in DOMAIN subp, IsCurrent(n)', at'[n[2]].k > 1
                   PROVE  n \in DOMAIN mass' /\ mass'[n] = Before(n, at'[n[2]].k - 1, lev, zone)
        OBVIOUS
      <3>1. IsCurrent(n) /\ at'[n[2]] = at[n[2]]
        BY <2>3 DEF Node
      <3>2. n \in DOMAIN mass /\ mass[n] = Before(n, at[n[2]].k - 1, lev, zone)
        BY <3>1 DEF SumPhase
      <3> QED BY <2>1, <3>1, <3>2
    <2>6. \A n \in Node : IsSummed(n) => n \in DOMAIN mass' /\ mass'[n] = mass[n]
      BY <2>1 DEF SumPhase
    <2>7. \A q \in Proc : at'[q].pc \in {"leaves", "cells", "summed"} /\ at'[q].k \in 1 .. NSUB
      BY <1>2, <2>2
    <2>8. Types'
      BY <1>3, <2>2
    <2>9. {} \in SUBSET Node /\ done' = (done \ {}) \cup {}
      BY <2>1
    <2>10. SumStep(lev, zone, {}, {})
      BY <1>1, <2>3, <2>4, <2>5, <2>6, <2>7, <2>9 DEF SumStep
    <2>11. SumPhase(lev, zone, src)'
      BY <2>10, SumsGoOn
    <2> QED BY <2>8, <2>11
  <1>6. CASE ~(at[p].i > myncell[p])
    <2> DEFINE q    == Cell(p, myncell[p] - at[p].i)
               k    == at[p].k
               r    == subp[q][k - 1]
               more == IF r = Null THEN 0 ELSE mass[r]
               sum  == (IF k = 1 THEN 0 ELSE mass[q]) + more
    <2>1. /\ r # Null => r \in done
          /\ mass' = With(mass, q, sum)
          /\ done' = (done \ {r}) \cup (IF k = NSUB THEN {q} ELSE {})
          /\ IF k = NSUB THEN Again(p, "cells") ELSE at' = [at EXCEPT ![p].k = @ + 1]
      BY <1>6 DEF SumCell
    <2>2. /\ at' = [o \in Proc |-> at'[o]] /\ \A o \in Proc : IsLocal(at'[o])
          /\ \A o \in Proc : o # p => at'[o] = at[o]
          /\ at'[p].pc = "cells"
          /\ k = NSUB => at'[p].i = at[p].i + 1 /\ at'[p].k = 1
          /\ k # NSUB => at'[p].i = at[p].i /\ at'[p].k = k + 1
      <3>1. CASE k = NSUB
        BY <2>1, <3>1, Moves
      <3>2. CASE k # NSUB
        <4>1. at = [o \in Proc |-> at[o]] /\ \A o \in Proc : IsLocal(at[o])
          BY DEF Types
        <4>2. at' = [at EXCEPT ![p].k = @ + 1]
          BY <2>1, <3>2
        <4>3. /\ at'[p] = [at[p] EXCEPT !.k = @ + 1] /\ \A o \in Proc : o # p => at'[o] = at[o]
              /\ at' = [o \in Proc |-> at'[o]]
          BY <4>1, <4>2
        <4>4. at'[p] = [pc |-> at[p].pc, i |-> at[p].i, node |-> at[p].node, le |-> at[p].le,
                        l |-> at[p].l, k |-> k + 1, todo |-> at[p].todo, nstep |-> at[p].nstep]
          BY <4>1, <4>3 DEF IsLocal
        <4>5. IsLocal(at'[p])
          BY <4>1, <4>4 DEF IsLocal
        <4> QED BY <1>1, <3>2, <4>1, <4>3, <4>4, <4>5
      <3> QED BY <3>1, <3>2
    <2>3. /\ q \in DOMAIN subp /\ q[2] = p /\ q[3] = myncell[p] - at[p].i
          /\ Type(q) = "cell" /\ q \in Node /\ k \in 1 .. NSUB /\ k - 1 \in Kids
          /\ r \in Node \cup {Null} /\ q # Null
      <3>1. myncell[p] - at[p].i \in Nat /\ myncell[p] - at[p].i < myncell[p]
        BY <1>2, <1>6
      <3>2. /\ q \in DOMAIN subp /\ q[2] = p /\ q[3] = myncell[p] - at[p].i
            /\ Type(q) = "cell" /\ q \in Node /\ q # Null
        BY <3>1, Names DEF Cell, Type, Node
      <3>3. k \in 1 .. NSUB /\ k - 1 \in Kids
        BY <1>2
      <3> HIDE DEF q, k
      <3>4. r \in Node \cup {Null}
        BY <3>2, <3>3, UnderCell DEF SumPhase
      <3> QED BY <3>2, <3>3, <3>4
    <2>a. Types'
      BY <1>3, <2>2
    <2>4. ASSUME NEW n \in Node
          PROVE  /\ IsSummed(n)' <=> IsSummed(n) \/ (k = NSUB /\ n = q)
                 /\ IsSummed(n) => n # q
                 /\ n \in DOMAIN subp =>
                      /\ \A j \in Kids : HasTaken(n, j)' <=> HasTaken(n, j) \/ (n = q /\ j = k - 1)
                      /\ IsCurrent(n)' /\ at'[n[2]].k > 1 /\ n # q =>
                           IsCurrent(n) /\ at'[n[2]] = at[n[2]]
      <3>1. CASE n[2] # p
        <4>1. at'[n[2]] = at[n[2]] /\ n # q
          BY <1>4, <2>2, <2>3, <3>1, Owners
        <4> QED BY <1>1, <4>1 DEF IsSummed, IsCurrent, HasTaken
      <3>2. CASE n[2] = p
        <4>1. CASE n \in DOMAIN bodyp
          <5>1. Type(n) = "leaf" /\ n \notin DOMAIN subp /\ n # q
            BY <2>3, <4>1, Owners, Names
          <5>2. IsSummed(n) /\ IsSummed(n)'
            BY <1>1, <2>2, <3>2, <5>1 DEF IsSummed
          <5> QED BY <5>1, <5>2
        <4>2. CASE n \in DOMAIN subp
          <5>1. Type(n) = "cell" /\ n[3] \in Nat /\ n[3] < myncell[p] /\ n = Cell(p, n[3])
            BY <3>2, <4>2, Owners
          <5>2. n = q <=> n[3] = myncell[p] - at[p].i
            BY <2>3, <5>1 DEF Cell
          <5>3. /\ IsSummed(n) <=> myncell[p] - n[3] < at[p].i
                /\ IsSummed(n)' <=> myncell[p] - n[3] < at'[p].i
                /\ IsCurrent(n) <=> myncell[p] - n[3] = at[p].i
                /\ IsCurrent(n)' <=> myncell[p] - n[3] = at'[p].i
            BY <1>1, <2>2, <3>2, <5>1 DEF IsSummed, IsCurrent
          <5>4. /\ \A j \in Kids : HasTaken(n, j) <=> IsSummed(n) \/ (IsCurrent(n) /\ j < k - 1)
                /\ \A j \in Kids : HasTaken(n, j)' <=>
                                     IsSummed(n)' \/ (IsCurrent(n)' /\ j < at'[p].k - 1)
            BY <3>2 DEF HasTaken
          <5>5. /\ n = q <=> IsCurrent(n)
                /\ IsSummed(n) => ~IsCurrent(n)
            BY <1>2, <5>1, <5>2, <5>3
          <5> HIDE DEF q, r
          <5>6. CASE k = NSUB
            <6>1. at'[p].i = at[p].i + 1 /\ at'[p].k = 1
              BY <2>2, <5>6
            <6>2. IsSummed(n)' <=> IsSummed(n) \/ n = q
              BY <1>2, <5>1, <5>2, <5>3, <6>1
            <6>3. \A j \in Kids : ~(j < 1 - 1) /\ (j < k - 1 \/ j = k - 1) /\ ~(1 > 1)
              BY <1>2, <5>6
            <6>4. \A j \in Kids : HasTaken(n, j)' <=> IsSummed(n)'
              BY <5>4, <6>1, <6>3
            <6>5. \A j \in Kids : HasTaken(n, j) \/ (n = q /\ j = k - 1) <=> IsSummed(n) \/ n = q
              BY <5>4, <5>5, <6>3
            <6>6. ~(at'[n[2]].k > 1)
              BY <3>2, <6>1, <6>3
            <6> QED BY <5>5, <5>6, <6>2, <6>4, <6>5, <6>6
          <5>7. CASE k # NSUB
            <6>1. at'[p].i = at[p].i /\ at'[p].k = k + 1
              BY <2>2, <5>7
            <6>2. (IsSummed(n)' <=> IsSummed(n)) /\ (IsCurrent(n)' <=> IsCurrent(n))
              BY <5>3, <6>1
            <6>3. \A j \in Kids : j < at'[p].k - 1 <=> j < k - 1 \/ j = k - 1
              BY <1>2, <2>3, <6>1
            <6>4. \A j \in Kids : HasTaken(n, j)' <=>
                    IsSummed(n) \/ (IsCurrent(n) /\ (j < k - 1 \/ j = k - 1))
              BY <5>4, <6>2, <6>3, Zenon
            <6>5. \A j \in Kids : HasTaken(n, j)' <=> HasTaken(n, j) \/ (n = q /\ j = k - 1)
              BY <5>4, <5>5, <6>4
            <6>6. ~(IsCurrent(n)' /\ n # q)
              BY <5>5, <6>2
            <6> QED BY <5>5, <5>7, <6>2, <6>5, <6>6
          <5> QED BY <5>6, <5>7
        <4> QED BY <1>4, <4>1, <4>2
      <3> QED BY <3>1, <3>2
    <2>b. PICK new : new = IF k = NSUB THEN {q} ELSE {}
      OBVIOUS
    <2>5. /\ SoundTree(subp, lev, zone)
          /\ Held(DOMAIN bodyp, bodyp, mybodytab, Copies, src)
          /\ \A n \in done : n \in Node /\ IsSummed(n)
          /\ \A n \in Node : IsSummed(n) => n \in DOMAIN mass /\ mass[n] = Under(n, zone)
      BY DEF SumPhase
    <2>6. sum = Before(q, k, lev, zone)
      <3>1. IsCurrent(q)
        <4>1. myncell[p] - q[3] = at[p].i
          BY <1>2, <2>3
        <4> QED BY <1>1, <2>3, <4>1 DEF IsCurrent
      <3>2. k > 1 => mass[q] = Before(q, k - 1, lev, zone)
        BY <2>3, <3>1 DEF SumPhase
      <3>3. more = IF r = Null THEN 0 ELSE Under(r, zone)
        <4>1. r # Null => mass[r] = Under(r, zone)
          BY <2>1, <2>5
        <4> QED BY <4>1
      <3>4. /\ Before(q, 0, lev, zone) = 0
            /\ Before(q, k - 1 + 1, lev, zone) =
                 Before(q, k - 1, lev, zone) + (IF r = Null THEN 0 ELSE Under(r, zone))
        <4>1. \A j \in Kids : Before(q, j + 1, lev, zone) =
                Before(q, j, lev, zone) + (IF subp[q][j] = Null THEN 0 ELSE Under(subp[q][j], zone))
          BY <2>3, <2>5, UnderCell
        <4>2. Before(q, 0, lev, zone) = 0
          BY <2>3, <2>5, UnderCell
        <4> HIDE DEF q, k
        <4> QED BY <2>3, <4>1, <4>2
      <3>5. k - 1 + 1 = k /\ (k = 1 => k - 1 = 0) /\ (k # 1 => k > 1)
        BY <2>3
      <3> HIDE DEF q, r, more, k
      <3>6. (IF k = 1 THEN 0 ELSE mass[q]) = Before(q, k - 1, lev, zone)
        BY <3>2, <3>4, <3>5
      <3> QED BY <3>3, <3>4, <3>5, <3>6
    <2> HIDE DEF sum, more
    <2>7. /\ q \in DOMAIN mass' /\ mass'[q] = Before(q, k, lev, zone)
          /\ \A n \in DOMAIN mass : n # q => n \in DOMAIN mass' /\ mass'[n] = mass[n]
      BY <2>1, <2>6 DEF With
    <2>8. \A n \in Node : IsTaken(n)' <=> IsTaken(n) \/ n \in {r}
      <3>1. DOMAIN subp \subseteq Node
        BY DEF Node
      <3> HIDE DEF q, k
      <3>2. \A m \in DOMAIN subp : \A j \in Kids : HasTaken(m, j)' <=> HasTaken(m, j) \/ (m = q /\ j = k - 1)
        BY <2>4, <3>1
      <3> QED BY <1>1, <2>3, <3>2 DEF IsTaken
    <2>9. \A n \in Node : n \in {r} => IsSummed(n)
      BY <2>1, <2>5, Names
    <2> HIDE DEF q, r, k
    <2>10. \A n \in DOMAIN subp : IsCurrent(n)' /\ at'[n[2]].k > 1 =>
             n \in DOMAIN mass' /\ mass'[n] = Before(n, at'[n[2]].k - 1, lev, zone)
      <3> SUFFICES ASSUME NEW n \in DOMAIN subp, IsCurrent(n)', at'[n[2]].k > 1
                   PROVE  n \in DOMAIN mass' /\ mass'[n] = Before(n, at'[n[2]].k - 1, lev, zone)
        OBVIOUS
      <3>1. CASE n = q
        <4>1. at'[p].k > 1
          BY <2>3, <3>1
        <4>2. at'[p].k = k + 1
          BY <2>2, <4>1
        <4>3. k + 1 - 1 = k
          BY <2>3
        <4> QED BY <2>3, <2>7, <3>1, <4>2, <4>3
      <3>2. CASE n # q
        <4>1. IsCurrent(n) /\ at'[n[2]] = at[n[2]]
          BY <2>4, <3>2 DEF Node
        <4>2. n \in DOMAIN mass /\ mass[n] = Before(n, at[n[2]].k - 1, lev, zone)
          BY <4>1 DEF SumPhase
        <4> QED BY <2>7, <3>2, <4>1, <4>2
      <3> QED BY <3>1, <3>2
    <2>11. \A o \in Proc : at'[o].pc \in {"leaves", "cells", "summed"} /\ at'[o].k \in 1 .. NSUB
      <3>1. at'[p].k \in 1 .. NSUB
        BY <1>2, <2>2, <2>3
      <3> QED BY <1>2, <2>2, <3>1
    <2>12. \A n \in Node : IsSummed(n) => n \in DOMAIN mass' /\ mass'[n] = mass[n]
      BY <2>4, <2>5, <2>7
    <2>13. \A n \in new : ~IsSummed(n) /\ n \in DOMAIN mass' /\ mass'[n] = Under(n, zone)
      <3>1. Before(q, NSUB, lev, zone) = Under(q, zone)
        BY <2>3, <2>5, UnderCell
      <3> QED BY <2>3, <2>4, <2>7, <2>b, <3>1
    <2>14. /\ new \subseteq Node /\ done' = (done \ {r}) \cup new
           /\ \A n \in Node : IsSummed(n)' <=> IsSummed(n) \/ n \in new
      BY <2>1, <2>3, <2>4, <2>b
    <2>15. SumStep(lev, zone, new, {r})
      BY <1>1, <2>8, <2>9, <2>10, <2>11, <2>12, <2>13, <2>14 DEF SumStep
    <2>16. SumPhase(lev, zone, src)'
      BY <2>15, SumsGoOn
    <2> QED BY <2>a, <2>16
  <1> QED BY <1>5, <1>6

\* When all nodes are summed, every node has its sum, and only the root is left.
LEMMA AllSummed ==
  ASSUME Types, NEW lev, NEW zone, NEW src, SumPhase(lev, zone, src),
         \A p \in Proc : at[p].pc = "summed"
  PROVE  SumsAddUp /\ done = {G_root}
  <1>1. \A n \in Node : IsSummed(n)
    BY Owners DEF Node, IsSummed
  <1>2. TreeShape(DOMAIN subp, DOMAIN bodyp, place, subp, lev, zone)
    BY DEF SumPhase, SoundTree
  <1>3. G_root \in Node /\ ~IsTaken(G_root)
    <2>1. \A m \in DOMAIN subp : \A j \in Kids : subp[m][j] # G_root
      <3>1. G_root # Null
        BY DEF G_root, Cell, Null
      <3> QED BY <1>2, <3>1 DEF TreeShape
    <2> QED BY <1>2, <2>1 DEF TreeShape, Node, IsTaken
  <1>4. ASSUME NEW n \in Node, n # G_root PROVE IsTaken(n)
    <2>1. PICK m \in DOMAIN subp : \E j \in Kids : subp[m][j] = n
      BY <1>2, <1>4 DEF TreeShape, Node
    <2>2. IsSummed(m)
      BY <1>1 DEF Node
    <2> QED BY <2>1, <2>2 DEF IsTaken, HasTaken
  <1>5. done = {G_root}
    BY <1>1, <1>3, <1>4 DEF SumPhase
  <1>6. SumsAddUp
    <2> SUFFICES ASSUME NEW n \in Node
                 PROVE  mass[n] = Cardinality({c \in Copies : n \in Range(Way(mybodytab[c[1]][c[2]]))})
      BY DEF SumsAddUp, Node
    <2>1. \A c \in Copies : mybodytab[c[1]][c[2]] \in Bodies
      BY CopiesAreFinite
    <2>2. \A b \in Bodies : n \in Range(Way(b)) <=> b \in zone[n]
      BY <1>2, WayInZones
    <2>3. {c \in Copies : n \in Range(Way(mybodytab[c[1]][c[2]]))} =
          {c \in Copies : mybodytab[c[1]][c[2]] \in zone[n]}
      BY <2>1, <2>2
    <2>4. mass[n] = Under(n, zone)
      BY <1>1 DEF SumPhase
    <2> QED BY <2>3, <2>4 DEF Under, BodyAt
  <1> QED BY <1>5, <1>6

-----------------------------------------------------------------------------
(* The bodies are divided and advanced.                                    *)

\* What a process has still to visit is in the tree.
ToVisit(todo, k, lev, works) ==
  /\ todo \in Seq([node : Node, work : works, d : Nat])
  /\ \A i \in DOMAIN todo : todo[i].node \in DOMAIN subp => todo[i].d = lev[todo[i].node] + 1
  /\ k \in Nat \ {0}
  /\ todo # << >> => /\ todo[1].node \in DOMAIN subp => k = 1
                     /\ todo[1].node \in DOMAIN bodyp => k <= Len(bodyp[todo[1].node])
Visiting(p, lev) == \E works : ToVisit(at[p].todo, at[p].k, lev, works)

Counted(p) == \A i \in DOMAIN mybodytab[p] : mybodytab[p][i] \in minmax

DividePhase(lev, zone) ==
  /\ \A p \in Proc : at[p].pc \in {"divide", "find", "force", "walk", "advance", "advanced"}
  /\ TreeShape(DOMAIN subp, DOMAIN bodyp, place, subp, lev, zone)
  /\ \A n \in DOMAIN bodyp : Len(bodyp[n]) >= 1
  /\ done = {G_root}
  /\ \A p \in Proc : /\ at[p].pc = "divide" => at[p].k = 1
                     /\ at[p].pc = "find" => Visiting(p, lev)
                     /\ at[p].pc = "advanced" => Counted(p)

\* The division begins.
LEMMA DivisionBegins ==
  ASSUME Types, NEW lev, NEW zone, NEW src, SumPhase(lev, zone, src), Barrier("summed", "divide")
  PROVE  Types' /\ DividePhase(lev, zone)'
  <1>1. /\ Types'
        /\ UNCHANGED <<place, minmax, cube, subp, bodyp, myncell, mynleaf, done, mass, mybodytab>>
        /\ \A p \in Proc : at[p].pc = "summed"
        /\ \A p \in Proc : at'[p].pc = "divide" /\ at'[p].k = 1
    BY Together
  <1>2. done = {G_root}
    BY <1>1, AllSummed
  <1>3. /\ TreeShape(DOMAIN subp, DOMAIN bodyp, place, subp, lev, zone)
        /\ \A n \in DOMAIN bodyp : Len(bodyp[n]) \in 1 .. MAX_BODIES_PER_LEAF
    BY DEF SumPhase, SoundTree, Filled
  <1>4. \A n \in DOMAIN bodyp : Len(bodyp[n]) >= 1
    BY <1>3
  <1>5. TreeShape(DOMAIN subp, DOMAIN bodyp, place, subp, lev, zone)'
    BY <1>1, <1>3
  <1> QED BY <1>1, <1>2, <1>4, <1>5 DEF DividePhase

\* Another step of a process, with its own bodies.
Divides(p, lev) ==
  /\ UNCHANGED <<place, subp, bodyp, myncell, mynleaf, done, lock>>
  /\ minmax \subseteq minmax'
  /\ mybodytab' = [q \in Proc |-> mybodytab'[q]] /\ mybodytab'[p] \in Seq(Bodies)
  /\ at' = [q \in Proc |-> at'[q]] /\ IsLocal(at'[p])
  /\ \A q \in Proc : q # p => at'[q] = at[q] /\ mybodytab'[q] = mybodytab[q]
  /\ at'[p].pc \in {"find", "force", "walk", "advance", "advanced"}
  /\ at'[p].pc = "find" => Visiting(p, lev)'
  /\ at'[p].pc = "advanced" => Counted(p)'

LEMMA DivisionGoesOn ==
  ASSUME Types, NEW lev, NEW zone, DividePhase(lev, zone), NEW p \in Proc, Divides(p, lev)
  PROVE  Types' /\ DividePhase(lev, zone)'
  <1>1. Types'
    <2>1. mybodytab' \in [Proc -> Seq(Bodies)]
      BY DEF Types, Divides
    <2>2. \A q \in Proc : IsLocal(at'[q])
      BY DEF Types, Divides
    <2> QED BY <2>1, <2>2 DEF Types, Divides, CellNames, LeafNames, Place
  <1>2. ASSUME NEW q \in Proc
        PROVE  /\ at'[q].pc \in {"divide", "find", "force", "walk", "advance", "advanced"}
               /\ at'[q].pc = "divide" => at'[q].k = 1
               /\ at'[q].pc = "find" => Visiting(q, lev)'
               /\ at'[q].pc = "advanced" => Counted(q)'
    <2>1. CASE q = p
      BY <2>1 DEF Divides
    <2>2. CASE q # p
      <3>1. at'[q] = at[q] /\ mybodytab'[q] = mybodytab[q] /\ Node' = Node
            /\ subp' = subp /\ bodyp' = bodyp /\ minmax \subseteq minmax'
        BY <2>2 DEF Divides, Node
      <3>2. Visiting(q, lev)' <=> Visiting(q, lev)
        BY <3>1 DEF Visiting, ToVisit
      <3>3. Counted(q) => Counted(q)'
        BY <3>1 DEF Counted
      <3> QED BY <3>1, <3>2, <3>3 DEF DividePhase
    <2> QED BY <2>1, <2>2
  <1>3. /\ TreeShape(DOMAIN subp, DOMAIN bodyp, place, subp, lev, zone)'
        /\ (\A n \in DOMAIN bodyp : Len(bodyp[n]) >= 1)' /\ done' = {G_root}
    BY DEF DividePhase, Divides
  <1> QED BY <1>1, <1>2, <1>3 DEF DividePhase

\* What does not look at the tree.
LEMMA Forces ==
  ASSUME Types, NEW lev, NEW zone, DividePhase(lev, zone), NEW p \in Proc,
         BodiesFound(p) \/ BeginForce(p) \/ EndForce(p) \/ AdvanceBodies(p)
  PROVE  Types' /\ DividePhase(lev, zone)'
  <1>1. /\ UNCHANGED <<place, subp, bodyp, myncell, mynleaf, done, lock, mybodytab>>
        /\ minmax \subseteq minmax'
    BY DEF BodiesFound, BeginForce, EndForce, AdvanceBodies, Dividing, Computing, Box, Tree, Sums
  <1>2. PICK x \in {"force", "walk", "advance", "advanced"} :
          /\ Goto(p, x) \/ Enter(p, x) \/ Again(p, x)
          /\ x = "advanced" => minmax' = minmax \cup ToSet(mybodytab[p])
    BY DEF BodiesFound, BeginForce, EndForce, AdvanceBodies
  <1>3. /\ at' = [q \in Proc |-> at'[q]] /\ \A q \in Proc : IsLocal(at'[q])
        /\ \A q \in Proc : q # p => at'[q] = at[q]
        /\ at'[p].pc = x
    BY <1>2, Moves
  <1>4. mybodytab \in [Proc -> Seq(Bodies)]
    BY DEF Types
  <1>5. x = "advanced" => Counted(p)'
    BY <1>1, <1>2 DEF Counted, ToSet
  <1>6. Divides(p, lev)
    BY <1>1, <1>2, <1>3, <1>4, <1>5 DEF Divides
  <1> QED BY <1>6, DivisionGoesOn

\* The search for my bodies begins at the root.
LEMMA Finding ==
  ASSUME Types, NEW lev, NEW zone, DividePhase(lev, zone), NEW p \in Proc, FindBodies(p)
  PROVE  Types' /\ DividePhase(lev, zone)'
  <1> DEFINE v == [node |-> G_root, work |-> 0, d |-> 1]
  <1>1. /\ at[p].pc = "divide"
        /\ UNCHANGED <<place, minmax, subp, bodyp, myncell, mynleaf, done, lock>>
        /\ at' = [at EXCEPT ![p].pc = "find", ![p].todo = <<v>>]
        /\ mybodytab' = [mybodytab EXCEPT ![p] = << >>]
    BY DEF FindBodies, Dividing, Is, Box, Tree, Sums
  <1>2. /\ at = [q \in Proc |-> at[q]] /\ \A q \in Proc : IsLocal(at[q])
        /\ mybodytab \in [Proc -> Seq(Bodies)]
    BY DEF Types
  <1>3. /\ at'[p] = [at[p] EXCEPT !.pc = "find", !.todo = <<v>>]
        /\ at' = [q \in Proc |-> at'[q]] /\ \A q \in Proc : q # p => at'[q] = at[q]
    BY <1>1, <1>2
  <1>4. at'[p] = [pc |-> "find", i |-> at[p].i, node |-> at[p].node, le |-> at[p].le, l |-> at[p].l,
                  k |-> at[p].k, todo |-> <<v>>, nstep |-> at[p].nstep]
    BY <1>2, <1>3 DEF IsLocal
  <1>5. IsLocal(at'[p])
    BY <1>2, <1>4 DEF IsLocal
  <1>6. /\ mybodytab'[p] \in Seq(Bodies) /\ mybodytab' = [q \in Proc |-> mybodytab'[q]]
        /\ \A q \in Proc : q # p => mybodytab'[q] = mybodytab[q]
    <2>1. << >> \in Seq(Bodies)
      OBVIOUS
    <2>2. mybodytab' = [mybodytab EXCEPT ![p] = << >>]
      BY <1>1
    <2>3. /\ mybodytab'[p] = << >> /\ mybodytab' = [q \in Proc |-> mybodytab'[q]]
          /\ \A q \in Proc : q # p => mybodytab'[q] = mybodytab[q]
      BY <1>2, <2>2
    <2> QED BY <2>1, <2>3
  <1>7. Visiting(p, lev)'
    <2>1. /\ G_root \in DOMAIN subp /\ G_root \in Node /\ lev[G_root] = 0 /\ at[p].k = 1
          /\ G_root \notin DOMAIN bodyp
      BY <1>1, Names DEF DividePhase, TreeShape, Node
    <2>2. Node' = Node
      BY <1>1 DEF Node
    <2>3. v \in [node : Node, work : {0}, d : Nat] /\ v.node = G_root /\ v.d = 0 + 1
      BY <2>1
    <2> HIDE DEF v
    <2>4. <<v>> \in Seq([node : Node, work : {0}, d : Nat]) /\ DOMAIN <<v>> = {1} /\ <<v>>[1] = v
      BY <2>3
    <2>5. at'[p].todo = <<v>> /\ at'[p].k = 1
      BY <1>4, <2>1
    <2>6. ToVisit(<<v>>, 1, lev, {0})'
      BY <1>1, <2>1, <2>2, <2>3, <2>4 DEF ToVisit
    <2>7. ToVisit(at[p].todo, at[p].k, lev, {0})'
      BY <2>5, <2>6
    <2> QED BY <2>7 DEF Visiting
  <1>8. Divides(p, lev)
    <2>1. at'[p].pc = "find" /\ minmax \subseteq minmax'
      BY <1>1, <1>4
    <2> QED BY <1>1, <1>3, <1>5, <1>6, <1>7, <2>1 DEF Divides
  <1> QED BY <1>8, DivisionGoesOn

\* The head, the tail and the rest of a sequence.
LEMMA Tails ==
  ASSUME NEW S, NEW s \in Seq(S), s # << >>
  PROVE  /\ Head(s) = s[1] /\ s[1] \in S /\ 1 \in DOMAIN s
         /\ Tail(s) \in Seq(S) /\ \A i \in DOMAIN Tail(s) : i + 1 \in DOMAIN s /\ Tail(s)[i] = s[i + 1]
  OBVIOUS

LEMMA SeqOfMore ==
  ASSUME NEW S, NEW s \in Seq(S), NEW T, S \subseteq T
  PROVE  s \in Seq(T)
  <1>1. Len(s) \in Nat /\ s \in [1 .. Len(s) -> S]
    OBVIOUS
  <1>2. s \in [1 .. Len(s) -> T]
    BY <1>1
  <1> QED BY <1>1, <1>2

LEMMA Joined ==
  ASSUME NEW S, NEW s \in Seq(S), NEW t \in Seq(S)
  PROVE  /\ s \o t \in Seq(S)
         /\ \A i \in DOMAIN (s \o t) : \/ \E j \in DOMAIN s : (s \o t)[i] = s[j]
                                       \/ \E j \in DOMAIN t : (s \o t)[i] = t[j]
  <1>1. /\ s \o t \in Seq(S) /\ Len(s \o t) = Len(s) + Len(t)
        /\ Len(s) \in Nat /\ Len(t) \in Nat
        /\ DOMAIN s = 1 .. Len(s) /\ DOMAIN t = 1 .. Len(t)
        /\ DOMAIN (s \o t) = 1 .. Len(s) + Len(t)
    OBVIOUS
  <1>2. ASSUME NEW i \in DOMAIN (s \o t)
        PROVE  \/ \E j \in DOMAIN s : (s \o t)[i] = s[j]
               \/ \E j \in DOMAIN t : (s \o t)[i] = t[j]
    <2>1. CASE i \in DOMAIN s
      BY <1>1, <2>1
    <2>2. CASE i \notin DOMAIN s
      <3>1. i - Len(s) \in DOMAIN t
        BY <1>1, <2>2
      <3>2. (s \o t)[i] = t[i - Len(s)]
        BY <1>1, <2>2
      <3> QED BY <3>1, <3>2
    <2> QED BY <2>1, <2>2
  <1> QED BY <1>1, <1>2

LEMMA StillToVisit ==
  ASSUME NEW p \in Proc, NEW lev, NEW t, NEW k, NEW works, ToVisit(t, k, lev, works),
         subp' = subp, bodyp' = bodyp, at'[p].todo = t, at'[p].k = k
  PROVE  Visiting(p, lev)'
  <1>1. ToVisit(t, k, lev, works)'
    BY DEF ToVisit, Node
  <1>2. ToVisit(at[p].todo, at[p].k, lev, works)'
    BY <1>1
  <1> QED BY <1>2 DEF Visiting

\* What a process does with the node it visits.
LEMMA VisitPlace ==
  ASSUME Types, NEW lev, NEW zone, DividePhase(lev, zone), NEW p \in Proc,
         at[p].pc = "find", at[p].todo # << >>, NEW works, ToVisit(at[p].todo, at[p].k, lev, works),
         NEW v, v = Head(at[p].todo)
  PROVE  /\ v \in [node : Node, work : works, d : Nat]
         /\ Tail(at[p].todo) \in Seq([node : Node, work : works, d : Nat])
         /\ \A i \in DOMAIN Tail(at[p].todo) : Tail(at[p].todo)[i].node \in DOMAIN subp =>
              Tail(at[p].todo)[i].d = lev[Tail(at[p].todo)[i].node] + 1
         /\ at[p].k \in Nat \ {0}
         /\ Type(v.node) = "cell" => v.node \in DOMAIN subp /\ v.d = lev[v.node] + 1 /\ at[p].k = 1
         /\ Type(v.node) = "leaf" => v.node \in DOMAIN bodyp /\ at[p].k \in 1 .. Len(bodyp[v.node])
  <1> DEFINE todo == at[p].todo
             S    == [node : Node, work : works, d : Nat]
  <1>1. /\ todo \in Seq(S) /\ todo # << >>
        /\ \A i \in DOMAIN todo : todo[i].node \in DOMAIN subp => todo[i].d = lev[todo[i].node] + 1
        /\ at[p].k \in Nat \ {0}
        /\ todo[1].node \in DOMAIN subp => at[p].k = 1
        /\ todo[1].node \in DOMAIN bodyp => at[p].k <= Len(bodyp[todo[1].node])
    BY DEF ToVisit
  <1> HIDE DEF todo, S
  <1>2. /\ Head(todo) = todo[1] /\ todo[1] \in S /\ 1 \in DOMAIN todo
        /\ Tail(todo) \in Seq(S)
        /\ \A i \in DOMAIN Tail(todo) : i + 1 \in DOMAIN todo /\ Tail(todo)[i] = todo[i + 1]
    BY <1>1, Tails
  <1>3. todo[1].node \in Node
    BY <1>2 DEF S
  <1>4. /\ Type(todo[1].node) = "cell" => todo[1].node \in DOMAIN subp
        /\ Type(todo[1].node) = "leaf" => todo[1].node \in DOMAIN bodyp
    BY <1>3, Names DEF Node
  <1>5. Type(todo[1].node) = "leaf" => at[p].k \in 1 .. Len(bodyp[todo[1].node])
    <2>1. \A n \in DOMAIN bodyp : Len(bodyp[n]) \in Nat
      BY DEF Types
    <2> QED BY <1>1, <1>4, <2>1
  <1>6. v = todo[1]
    BY <1>2 DEF todo
  <1>7. v \in S
    BY <1>2, <1>6
  <1>8. /\ Type(v.node) = "cell" => v.node \in DOMAIN subp /\ v.d = lev[v.node] + 1 /\ at[p].k = 1
        /\ Type(v.node) = "leaf" => v.node \in DOMAIN bodyp /\ at[p].k \in 1 .. Len(bodyp[v.node])
    BY <1>1, <1>2, <1>4, <1>5, <1>6, Zenon
  <1>9. \A i \in DOMAIN Tail(todo) : Tail(todo)[i].node \in DOMAIN subp =>
          Tail(todo)[i].d = lev[Tail(todo)[i].node] + 1
    BY <1>1, <1>2
  <1> QED BY <1>1, <1>2, <1>7, <1>8, <1>9 DEF todo, S

\* A process goes on with other nodes to visit.
Puts(p, todo, k) == at' = [at EXCEPT ![p] = [@ EXCEPT !.todo = todo, !.k = k]]

LEMMA GoesOn ==
  ASSUME Types, NEW p \in Proc, at[p].pc = "find", NEW todo, NEW k, Puts(p, todo, k)
  PROVE  /\ at' = [q \in Proc |-> at'[q]] /\ \A q \in Proc : q # p => at'[q] = at[q]
         /\ IsLocal(at'[p]) /\ at'[p].pc = "find" /\ at'[p].todo = todo /\ at'[p].k = k
  <1>1. at = [q \in Proc |-> at[q]] /\ \A q \in Proc : IsLocal(at[q])
    BY DEF Types
  <1>2. /\ at'[p] = [at[p] EXCEPT !.todo = todo, !.k = k]
        /\ at' = [q \in Proc |-> at'[q]] /\ \A q \in Proc : q # p => at'[q] = at[q]
    BY <1>1 DEF Puts
  <1>3. at'[p] = [pc |-> at[p].pc, i |-> at[p].i, node |-> at[p].node, le |-> at[p].le,
                  l |-> at[p].l, k |-> k, todo |-> todo, nstep |-> at[p].nstep]
    <2>1. PICK r : r = at[p]
      OBVIOUS
    <2>2. r = [pc |-> r.pc, i |-> r.i, node |-> r.node, le |-> r.le, l |-> r.l, k |-> r.k,
               todo |-> r.todo, nstep |-> r.nstep]
      BY <1>1, <2>1 DEF IsLocal
    <2>3. [r EXCEPT !.todo = todo, !.k = k] =
            [pc |-> r.pc, i |-> r.i, node |-> r.node, le |-> r.le, l |-> r.l, k |-> k,
             todo |-> todo, nstep |-> r.nstep]
      <3>1. PICK s : s = [r EXCEPT !.todo = todo]
        OBVIOUS
      <3>2. s = [pc |-> r.pc, i |-> r.i, node |-> r.node, le |-> r.le, l |-> r.l, k |-> r.k,
                 todo |-> todo, nstep |-> r.nstep]
        BY <2>2, <3>1
      <3>3. [s EXCEPT !.k = k] =
              [pc |-> r.pc, i |-> r.i, node |-> r.node, le |-> r.le, l |-> r.l, k |-> k,
               todo |-> todo, nstep |-> r.nstep]
        BY <3>2
      <3>4. [r EXCEPT !.todo = todo, !.k = k] = [s EXCEPT !.k = k]
        BY <3>1
      <3> QED BY <3>3, <3>4
    <2>4. at'[p] = [r EXCEPT !.todo = todo, !.k = k]
      BY <1>2, <2>1
    <2> QED BY <2>1, <2>3, <2>4
  <1>4. IsLocal(at'[p])
    BY <1>1, <1>3 DEF IsLocal
  <1> QED BY <1>2, <1>3, <1>4

\* A leaf is visited body by body.
LEMMA VisitingBody ==
  ASSUME Types, NEW lev, NEW zone, DividePhase(lev, zone), NEW p \in Proc, VisitBody(p)
  PROVE  Types' /\ DividePhase(lev, zone)'
  <1> DEFINE v     == Head(at[p].todo)
             b     == bodyp[v.node][at[p].k]
             after == v.work + cost[b]
             ends  == after >= workMax(p) \/ at[p].k = Len(bodyp[v.node])
             over  == [at[p].todo EXCEPT ![1].work = after]
  <1>1. /\ at[p].pc = "find" /\ at[p].todo # << >> /\ Type(v.node) = "leaf"
        /\ UNCHANGED <<place, minmax, subp, bodyp, myncell, mynleaf, done, lock>>
        /\ mybodytab' = [mybodytab EXCEPT ![p] = IF v.work >= workMin(p) THEN Append(@, b) ELSE @]
        /\ at' = [at EXCEPT ![p] =
             IF ends THEN [at[p] EXCEPT !.todo = Tail(@), !.k = 1]
                     ELSE [at[p] EXCEPT !.todo[1].work = after, !.k = @ + 1]]
    BY DEF VisitBody, Dividing, Is, Box, Tree, Sums
  <1>w. (ends => Puts(p, Tail(at[p].todo), 1)) /\ (~ends => Puts(p, over, at[p].k + 1))
    <2> DEFINE x == [at[p] EXCEPT !.todo = Tail(@), !.k = 1]
               y == [at[p] EXCEPT !.todo[1].work = after, !.k = @ + 1]
    <2>3. at' = [at EXCEPT ![p] = IF ends THEN x ELSE y]
      BY <1>1, Zenon
    <2>4. y = [at[p] EXCEPT !.todo = over, !.k = at[p].k + 1]
      OBVIOUS
    <2>1. x = [at[p] EXCEPT !.todo = Tail(at[p].todo), !.k = 1]
      OBVIOUS
    <2> HIDE DEF ends, x, y
    <2>5. ends => at' = [at EXCEPT ![p] = x]
      BY <2>3
    <2>6. ~ends => at' = [at EXCEPT ![p] = y]
      BY <2>3
    <2> QED BY <2>1, <2>4, <2>5, <2>6 DEF Puts
  <1>2. PICK works : ToVisit(at[p].todo, at[p].k, lev, works)
    BY <1>1 DEF DividePhase, Visiting
  <1>3. /\ v \in [node : Node, work : works, d : Nat]
        /\ Tail(at[p].todo) \in Seq([node : Node, work : works, d : Nat])
        /\ \A i \in DOMAIN Tail(at[p].todo) : Tail(at[p].todo)[i].node \in DOMAIN subp =>
             Tail(at[p].todo)[i].d = lev[Tail(at[p].todo)[i].node] + 1
        /\ at[p].k \in Nat \ {0}
        /\ v.node \in DOMAIN bodyp /\ at[p].k \in 1 .. Len(bodyp[v.node])
    <2>1. v = Head(at[p].todo) /\ at[p].pc = "find" /\ at[p].todo # << >> /\ Type(v.node) = "leaf"
      BY <1>1
    <2> HIDE DEF v
    <2>2. \A x : x = Head(at[p].todo) =>
            /\ x \in [node : Node, work : works, d : Nat]
            /\ Tail(at[p].todo) \in Seq([node : Node, work : works, d : Nat])
            /\ \A i \in DOMAIN Tail(at[p].todo) : Tail(at[p].todo)[i].node \in DOMAIN subp =>
                 Tail(at[p].todo)[i].d = lev[Tail(at[p].todo)[i].node] + 1
            /\ at[p].k \in Nat \ {0}
            /\ Type(x.node) = "leaf" => x.node \in DOMAIN bodyp /\ at[p].k \in 1 .. Len(bodyp[x.node])
      BY <1>2, <2>1, VisitPlace
    <2> QED BY <2>1, <2>2, Zenon
  <1>v. v = Head(at[p].todo) /\ at[p].pc = "find"
    BY <1>1
  <1> HIDE DEF v
  <1>4. b \in Bodies
    BY <1>3 DEF Types
  <1> HIDE DEF b, after
  <1>5. /\ mybodytab'[p] \in Seq(Bodies) /\ mybodytab' = [q \in Proc |-> mybodytab'[q]]
        /\ \A q \in Proc : q # p => mybodytab'[q] = mybodytab[q]
    <2>1. mybodytab \in [Proc -> Seq(Bodies)]
      BY DEF Types
    <2>2. /\ mybodytab'[p] = IF v.work >= workMin(p) THEN Append(mybodytab[p], b) ELSE mybodytab[p]
          /\ mybodytab' = [q \in Proc |-> mybodytab'[q]]
          /\ \A q \in Proc : q # p => mybodytab'[q] = mybodytab[q]
      BY <1>1, <2>1
    <2>3. Append(mybodytab[p], b) \in Seq(Bodies) /\ mybodytab[p] \in Seq(Bodies)
      BY <1>4, <2>1
    <2> QED BY <2>2, <2>3
  <1>6. /\ at = [q \in Proc |-> at[q]] /\ \A q \in Proc : IsLocal(at[q])
    BY DEF Types
  <1> HIDE DEF ends
  <1>7. /\ at' = [q \in Proc |-> at'[q]] /\ \A q \in Proc : q # p => at'[q] = at[q]
        /\ IsLocal(at'[p]) /\ at'[p].pc = "find"
        /\ ends => at'[p].todo = Tail(at[p].todo) /\ at'[p].k = 1
        /\ ~ends => at'[p].todo = over /\ at'[p].k = at[p].k + 1
    <2>1. CASE ends
      BY <1>v, <1>w, <2>1, GoesOn
    <2>2. CASE ~ends
      <3> HIDE DEF over
      <3> QED BY <1>v, <1>w, <2>2, GoesOn
    <2> QED BY <2>1, <2>2
  <1>10. Node' = Node /\ \A n \in DOMAIN bodyp : Len(bodyp[n]) \in Nat /\ Len(bodyp[n]) >= 1
    BY <1>1 DEF Node, DividePhase, Types
  <1>11. ASSUME ends PROVE Visiting(p, lev)'
    <2>1. PICK t : t = Tail(at[p].todo)
      OBVIOUS
    <2>2. at'[p].todo = t /\ at'[p].k = 1
      BY <1>7, <1>11, <2>1
    <2>3. /\ t \in Seq([node : Node, work : works, d : Nat])
          /\ \A i \in DOMAIN t : t[i].node \in DOMAIN subp => t[i].d = lev[t[i].node] + 1
      BY <1>3, <2>1
    <2>4. \A n \in DOMAIN bodyp : 1 <= Len(bodyp[n])
      BY <1>10
    <2>5. ToVisit(t, 1, lev, works)
      BY <2>3, <2>4 DEF ToVisit
    <2> QED BY <1>1, <2>2, <2>5, StillToVisit
  <1>12. ASSUME ~ends PROVE Visiting(p, lev)'
    <2> DEFINE todo == at[p].todo
               k    == at[p].k
               more == works \cup {after}
    <2>1. PICK t : t = over
      OBVIOUS
    <2>2. /\ todo \in Seq([node : Node, work : works, d : Nat]) /\ todo # << >>
          /\ \A i \in DOMAIN todo : todo[i].node \in DOMAIN subp => todo[i].d = lev[todo[i].node] + 1
          /\ v = todo[1] /\ 1 \in DOMAIN todo
      BY <1>1, <1>2, <1>v, Tails DEF ToVisit
    <2>3. at'[p].todo = t /\ at'[p].k = k + 1
      BY <1>7, <1>12, <2>1
    <2> HIDE DEF todo
    <2>4. t = [todo EXCEPT ![1] = [v EXCEPT !.work = after]]
      BY <2>1, <2>2 DEF todo
    <2>5. /\ v = [node |-> v.node, work |-> v.work, d |-> v.d]
          /\ v.node \in Node /\ v.d \in Nat
      BY <1>3
    <2>6. PICK w : w = [v EXCEPT !.work = after]
      OBVIOUS
    <2>7. w \in [node : Node, work : more, d : Nat] /\ w.node = v.node /\ w.d = v.d
      BY <2>5, <2>6
    <2>8. /\ todo \in Seq([node : Node, work : more, d : Nat])
      <3>1. \A x \in [node : Node, work : works, d : Nat] : x \in [node : Node, work : more, d : Nat]
        OBVIOUS
      <3>2. [node : Node, work : works, d : Nat] \subseteq [node : Node, work : more, d : Nat]
        BY <3>1
      <3> QED BY <2>2, <3>2, SeqOfMore
    <2>9. /\ t \in Seq([node : Node, work : more, d : Nat]) /\ DOMAIN t = DOMAIN todo
          /\ t[1] = w /\ \A i \in DOMAIN t : i # 1 => t[i] = todo[i]
      BY <2>2, <2>4, <2>6, <2>7, <2>8
    <2>10. /\ k + 1 \in Nat \ {0} /\ k + 1 <= Len(bodyp[v.node])
           /\ v.node \notin DOMAIN subp
      <3>1. k # Len(bodyp[v.node]) /\ Len(bodyp[v.node]) \in Nat
        BY <1>3, <1>10, <1>12 DEF ends
      <3> QED BY <1>3, <3>1, Names, SMTT(30)
    <2> HIDE DEF more, k
    <2>11. ToVisit(t, k + 1, lev, more)
      <3>1. \A i \in DOMAIN t : t[i].node \in DOMAIN subp => t[i].d = lev[t[i].node] + 1
        BY <2>2, <2>7, <2>9, <2>10
      <3> QED BY <2>7, <2>9, <2>10, <3>1 DEF ToVisit
    <2> QED BY <1>1, <2>3, <2>11, StillToVisit
  <1>13. Divides(p, lev)
    BY <1>1, <1>5, <1>7, <1>11, <1>12 DEF Divides
  <1> QED BY <1>13, DivisionGoesOn

\* A cell gives way to those of its children that have some of my work.
LEMMA VisitingCell ==
  ASSUME Types, NEW lev, NEW zone, DividePhase(lev, zone), NEW p \in Proc, VisitCell(p)
  PROVE  Types' /\ DividePhase(lev, zone)'
  <1> DEFINE v         == Head(at[p].todo)
             child     == [i \in DOMAIN Child_Sequence[v.d] |-> subp[v.node][Child_Sequence[v.d][i]]]
             before(i) == v.work + MapThenSumSet(LAMBDA h : costs[child[h]],
                                                 {h \in 1 .. i - 1 : child[h] # Null})
             mine      == {i \in DOMAIN child :
                             /\ child[i] # Null
                             /\ before(i) < workMax(p) /\ before(i) + costs[child[i]] >= workMin(p)}
             visit     == [i \in DOMAIN child |->
                             [node |-> child[i], work |-> before(i), d |-> v.d + 1]]
             next      == Part(visit, mine) \o Tail(at[p].todo)
  <1>1. /\ at[p].pc = "find" /\ at[p].todo # << >> /\ Type(v.node) = "cell"
        /\ UNCHANGED <<place, minmax, subp, bodyp, myncell, mynleaf, done, lock, mybodytab>>
        /\ at' = [at EXCEPT ![p].todo = next]
    BY DEF VisitCell, Dividing, Is, Box, Tree, Sums
  <1>v. v = Head(at[p].todo) /\ at[p].pc = "find" /\ at[p].todo # << >> /\ Type(v.node) = "cell"
    BY <1>1
  <1>m. \A i \in mine : i \in DOMAIN child /\ child[i] # Null
    OBVIOUS
  <1> HIDE DEF mine
  <1>c. child = [i \in DOMAIN Child_Sequence[v.d] |-> subp[v.node][Child_Sequence[v.d][i]]]
    OBVIOUS
  <1>x. mine \subseteq DOMAIN child
    BY <1>m
  <1> HIDE DEF before
  <1>t. DOMAIN visit = DOMAIN child /\ \A i \in DOMAIN child :
          visit[i] = [node |-> child[i], work |-> before(i), d |-> v.d + 1]
    OBVIOUS
  <1>f. visit = [i \in DOMAIN child |-> visit[i]]
    OBVIOUS
  <1> HIDE DEF visit, child, v
  <1>2. PICK works : ToVisit(at[p].todo, at[p].k, lev, works)
    BY <1>1 DEF DividePhase, Visiting
  <1>3. /\ v \in [node : Node, work : works, d : Nat]
        /\ Tail(at[p].todo) \in Seq([node : Node, work : works, d : Nat])
        /\ \A i \in DOMAIN Tail(at[p].todo) : Tail(at[p].todo)[i].node \in DOMAIN subp =>
             Tail(at[p].todo)[i].d = lev[Tail(at[p].todo)[i].node] + 1
        /\ v.node \in DOMAIN subp /\ v.d = lev[v.node] + 1 /\ at[p].k = 1
    <2>1. \A x : x = Head(at[p].todo) =>
            /\ x \in [node : Node, work : works, d : Nat]
            /\ Tail(at[p].todo) \in Seq([node : Node, work : works, d : Nat])
            /\ \A i \in DOMAIN Tail(at[p].todo) : Tail(at[p].todo)[i].node \in DOMAIN subp =>
                 Tail(at[p].todo)[i].d = lev[Tail(at[p].todo)[i].node] + 1
            /\ Type(x.node) = "cell" =>
                 x.node \in DOMAIN subp /\ x.d = lev[x.node] + 1 /\ at[p].k = 1
      BY <1>2, <1>v, VisitPlace
    <2> QED BY <1>v, <2>1, Zenon
  <1>4. /\ v.d \in 1 .. Levels /\ v.d + 1 \in Nat
        /\ \A k \in Kids : subp[v.node][k] # Null =>
             /\ subp[v.node][k] \in Node /\ lev[subp[v.node][k]] = v.d
    <2>1. TreeShape(DOMAIN subp, DOMAIN bodyp, place, subp, lev, zone)
      BY DEF DividePhase
    <2>2. lev[v.node] \in 0 .. Levels /\ lev[v.node] < Levels /\ Levels \in Nat
      BY <1>3, <2>1, BarnesAssumption DEF TreeShape
    <2>3. \A k \in Kids : subp[v.node][k] \in DOMAIN subp \cup DOMAIN bodyp \cup {Null}
      BY <1>3, <2>1 DEF TreeShape
    <2>4. \A k \in Kids : subp[v.node][k] # Null => lev[subp[v.node][k]] = lev[v.node] + 1
      BY <1>3, <2>1 DEF TreeShape
    <2> QED BY <1>3, <2>2, <2>3, <2>4 DEF Node
  <1>5. Child_Sequence[v.d] \in Seq(Kids)
    BY <1>4, BarnesAssumption DEF Kids
  <1>6. \E n \in Nat : DOMAIN child = 1 .. n
    <2>1. \A x \in Seq(Kids) : Len(x) \in Nat /\ DOMAIN x = 1 .. Len(x)
      OBVIOUS
    <2> QED BY <1>5, <1>c, <2>1
  <1>7. \A i \in DOMAIN child : child[i] # Null => child[i] \in Node /\ lev[child[i]] = v.d
    <2>1. \A x \in Seq(Kids) : \A i \in DOMAIN x : x[i] \in Kids
      OBVIOUS
    <2>2. \A i \in DOMAIN Child_Sequence[v.d] : Child_Sequence[v.d][i] \in Kids
      BY <1>5, <2>1
    <2> QED BY <1>4, <1>c, <2>2
  <1> DEFINE more == works \cup {before(i) : i \in DOMAIN child}
             S    == [node : Node, work : more, d : Nat]
             Item == [node : Node \cup {child[i] : i \in DOMAIN child}, work : more, d : Nat]
  <1>8. \A i \in DOMAIN child : visit[i] \in Item
    BY <1>4, <1>t
  <1>9. \A i \in mine : visit[i] \in S /\ visit[i].node = child[i] /\ visit[i].d = v.d + 1
    BY <1>4, <1>7, <1>m, <1>t
  <1>a. [node : Node, work : works, d : Nat] \subseteq S
    <2>1. \A x \in [node : Node, work : works, d : Nat] : x \in S
      OBVIOUS
    <2> QED BY <2>1
  <1> HIDE DEF Item, more
  <1>10. visit \in Seq(Item)
    <2>1. PICK n \in Nat : DOMAIN child = 1 .. n
      BY <1>6
    <2>2. visit \in [1 .. n -> Item]
      BY <1>8, <1>f, <2>1, <1>t
    <2> QED BY <2>2
  <1> HIDE DEF S
  <1> DEFINE part == Part(visit, mine)
             tail == Tail(at[p].todo)
  <1>11. /\ part \in Seq(S)
         /\ \A j \in DOMAIN part : \E i \in mine : part[j] = visit[i]
    <2>1. mine \in SUBSET DOMAIN visit
      BY <1>x, <1>t
    <2>2. /\ IsFiniteSet(mine) /\ Cardinality(mine) \in 0 .. Len(visit)
          /\ part \in Seq(Item) /\ Len(part) = Cardinality(mine)
          /\ \A j \in 1 .. Cardinality(mine) : part[j] = visit[Position(mine, j)]
      BY <1>10, <2>1, PartOfSeq
    <2>3. DOMAIN part = 1 .. Cardinality(mine) /\ part = [j \in 1 .. Cardinality(mine) |-> part[j]]
          /\ Cardinality(mine) \in Nat
      <3> HIDE DEF part
      <3>1. part \in Seq(Item) /\ Len(part) = Cardinality(mine)
        BY <2>2
      <3> QED BY <3>1
    <2>4. mine \subseteq Int
      BY <1>6, <1>x
    <2>5. \A j \in 1 .. Cardinality(mine) : Position(mine, j) \in mine
      BY <2>2, <2>4, Positions
    <2>6. \A j \in 1 .. Cardinality(mine) : part[j] \in S
      BY <1>9, <2>2, <2>5
    <2> HIDE DEF part
    <2>7. part \in [1 .. Cardinality(mine) -> S]
      BY <2>3, <2>6
    <2>8. part \in Seq(S)
      BY <2>3, <2>7
    <2> QED BY <2>2, <2>3, <2>5, <2>8
  <1> HIDE DEF part, tail
  <1>12. tail \in Seq(S)
    BY <1>3, <1>a, SeqOfMore DEF tail
  <1>13. /\ part \o tail \in Seq(S)
         /\ \A i \in DOMAIN (part \o tail) : \/ \E j \in DOMAIN part : (part \o tail)[i] = part[j]
                                             \/ \E j \in DOMAIN tail : (part \o tail)[i] = tail[j]
    BY <1>11, <1>12, Joined
  <1>14. PICK t : t = part \o tail
    OBVIOUS
  <1>15. \A i \in DOMAIN t : t[i].node \in DOMAIN subp => t[i].d = lev[t[i].node] + 1
    <2> SUFFICES ASSUME NEW i \in DOMAIN t, t[i].node \in DOMAIN subp
                 PROVE  t[i].d = lev[t[i].node] + 1
      OBVIOUS
    <2>1. CASE \E j \in DOMAIN part : t[i] = part[j]
      <3>1. PICK h \in mine : t[i] = visit[h]
        BY <1>11, <2>1
      <3> QED BY <1>7, <1>9, <1>m, <3>1
    <2>2. CASE \E j \in DOMAIN tail : t[i] = tail[j]
      BY <1>3, <2>2 DEF tail
    <2> QED BY <1>13, <1>14, <2>1, <2>2
  <1>16. ToVisit(t, 1, lev, more)
    <2>1. t \in Seq([node : Node, work : more, d : Nat])
      BY <1>13, <1>14 DEF S
    <2>2. \A n \in DOMAIN bodyp : 1 <= Len(bodyp[n])
      <3>1. \A n \in DOMAIN bodyp : Len(bodyp[n]) \in Nat /\ Len(bodyp[n]) >= 1
        BY DEF DividePhase, Types
      <3> QED BY <3>1
    <2> QED BY <1>15, <2>1, <2>2 DEF ToVisit
  <1>17. Puts(p, t, 1)
    <2>1. at' = [at EXCEPT ![p].todo = t]
      BY <1>1, <1>14 DEF part, tail
    <2>2. PICK r : r = at[p]
      OBVIOUS
    <2>3. r = [pc |-> r.pc, i |-> r.i, node |-> r.node, le |-> r.le, l |-> r.l, k |-> r.k,
               todo |-> r.todo, nstep |-> r.nstep]
      BY <2>2 DEF Types, IsLocal
    <2>4. r.k = 1
      BY <1>3, <2>2
    <2>5. [r EXCEPT !.todo = t] = [pc |-> r.pc, i |-> r.i, node |-> r.node, le |-> r.le,
                                   l |-> r.l, k |-> r.k, todo |-> t, nstep |-> r.nstep]
      BY <2>3
    <2>6. PICK s : s = [r EXCEPT !.todo = t]
      OBVIOUS
    <2>7. [s EXCEPT !.k = 1] = s
      BY <2>4, <2>5, <2>6
    <2>8. [r EXCEPT !.todo = t, !.k = 1] = [s EXCEPT !.k = 1]
      BY <2>6
    <2>9. at' = [at EXCEPT ![p] = [r EXCEPT !.todo = t]]
      BY <2>1, <2>2
    <2>10. at' = [at EXCEPT ![p] = [r EXCEPT !.todo = t, !.k = 1]]
      BY <2>6, <2>7, <2>8, <2>9
    <2> QED BY <2>2, <2>10 DEF Puts
  <1>18. /\ at' = [q \in Proc |-> at'[q]] /\ \A q \in Proc : q # p => at'[q] = at[q]
         /\ IsLocal(at'[p]) /\ at'[p].pc = "find" /\ at'[p].todo = t /\ at'[p].k = 1
    BY <1>17, <1>v, GoesOn
  <1>19. Visiting(p, lev)'
    BY <1>1, <1>16, <1>18, StillToVisit
  <1>20. mybodytab \in [Proc -> Seq(Bodies)]
    BY DEF Types
  <1>21. Divides(p, lev)
    BY <1>1, <1>18, <1>19, <1>20 DEF Divides
  <1> QED BY <1>21, DivisionGoesOn

-----------------------------------------------------------------------------
(* Between two time steps.                                                 *)

\* The tables of a process hold the nodes they hold when it starts.
StartsAnew(p) == myncell[p] = (IF p = 0 THEN 1 ELSE 0) /\ mynleaf[p] = 0

EndPhase ==
  /\ \A p \in Proc : at[p].pc \in {"end", "start", "finished"}
  /\ at[0].pc = "end" => done = {G_root} /\ \A p \in Proc : Counted(p)
  /\ at[0].pc # "end" => done = {} /\ InCube /\ subp[G_root] = NewCell
  /\ \A p \in Proc : at[p].pc # "end" => StartsAnew(p)

LEMMA TheEnd ==
  ASSUME Types, NEW lev, NEW zone, DividePhase(lev, zone), Barrier("advanced", "end")
  PROVE  Types' /\ EndPhase'
  <1>1. /\ Types'
        /\ UNCHANGED <<subp, myncell, mynleaf, done, mybodytab>>
        /\ \A p \in Proc : at[p].pc = "advanced"
        /\ \A p \in Proc : at'[p].pc = "end"
    BY Together
  <1>2. minmax' = minmax
    BY Together
  <1>3. 0 \in Proc
    BY BarnesAssumption DEF Proc
  <1>4. done = {G_root} /\ \A p \in Proc : Counted(p)
    BY <1>1 DEF DividePhase
  <1>5. \A p \in Proc : Counted(p)'
    BY <1>1, <1>2, <1>4 DEF Counted
  <1> QED BY <1>1, <1>3, <1>4, <1>5 DEF EndPhase

\* The next time step begins with the root alone.
LEMMA LoadBegins ==
  ASSUME Types, EndPhase, Barrier("start", "load")
  PROVE  Types' /\ \E kid, lev, zone, src : LoadPhase(kid, lev, zone, src)'
  <1> DEFINE lev  == [n \in {G_root} |-> 0]
             zone == [n \in {G_root} |-> Bodies]
             src  == [n \in {} |-> << >>]
  <1>1. /\ Types' /\ UNCHANGED <<place, cube, subp, bodyp, myncell, mynleaf, done, mybodytab>>
        /\ \A p \in Proc : at[p].pc = "start"
        /\ \A p \in Proc : at'[p].pc = "load" /\ at'[p].i = 1 /\ at'[p].node = G_root /\ at'[p].l = 1
    BY Together
  <1>2. 0 \in Proc /\ Levels \in Nat /\ 0 < Levels
    BY BarnesAssumption DEF Proc
  <1>3. /\ done = {} /\ InCube /\ subp[G_root] = NewCell
        /\ \A p \in Proc : StartsAnew(p)
    BY <1>1, <1>2 DEF EndPhase
  <1>4. DOMAIN subp = {G_root} /\ DOMAIN bodyp = {}
    <2>1. \A n \in CellNames : n = G_root
      <3> SUFFICES ASSUME NEW n \in CellNames PROVE n = G_root
        OBVIOUS
      <3>1. n \in {"cell"} \X Proc \X Nat /\ n[3] < myncell[n[2]] /\ n[2] \in Proc /\ n[3] \in Nat
        BY DEF CellNames
      <3>2. n[3] < IF n[2] = 0 THEN 1 ELSE 0
        BY <1>3, <3>1 DEF StartsAnew
      <3>3. n[2] = 0 /\ n[3] = 0 /\ n[1] = "cell"
        BY <3>1, <3>2
      <3> QED BY <3>1, <3>3 DEF G_root, Cell
    <2>2. \A n \in LeafNames : FALSE
      <3> SUFFICES ASSUME NEW n \in LeafNames PROVE FALSE
        OBVIOUS
      <3>1. n[3] < mynleaf[n[2]] /\ n[2] \in Proc /\ n[3] \in Nat
        BY DEF LeafNames
      <3> QED BY <1>3, <3>1 DEF StartsAnew
    <2>3. DOMAIN subp = CellNames /\ DOMAIN bodyp = LeafNames /\ G_root \in CellNames
      BY Names
    <2>4. CellNames = {G_root}
      BY <2>1, <2>3
    <2>5. LeafNames = {}
      BY <2>2
    <2> QED BY <2>3, <2>4, <2>5
  <1>5. \A k \in Kids : subp[G_root][k] = Null
    BY <1>3 DEF NewCell
  <1>6. subp \in [{G_root} -> [Kids -> {G_root} \cup {Null}]]
    <2>1. subp[G_root] \in [Kids -> {G_root} \cup {Null}]
      BY <1>3 DEF NewCell
    <2>2. subp = [n \in {G_root} |-> subp[n]]
      BY <1>4, Names DEF Types
    <2> QED BY <2>1, <2>2
  <1>7. /\ lev \in [{G_root} -> 0 .. Levels] /\ zone \in [{G_root} -> SUBSET Bodies]
        /\ lev[G_root] = 0 /\ zone[G_root] = Bodies
    BY <1>2
  <1> HIDE DEF lev, zone
  <1>8. TreeShape({G_root}, {}, place, subp, lev, zone)
    <2>1. {G_root} \cup {} = {G_root} /\ {G_root} \cup {} \cup {Null} = {G_root} \cup {Null}
      OBVIOUS
    <2>2. \A n \in {G_root} : lev[n] < Levels
      BY <1>2, <1>7
    <2> QED BY <1>5, <1>6, <1>7, <2>1, <2>2 DEF TreeShape
  <1>9. TreeShape(DOMAIN subp, DOMAIN bodyp, place, subp, lev, zone)'
    BY <1>1, <1>4, <1>8
  <1>10. SoundTree(subp, lev, zone)'
    BY <1>1, <1>4, <1>9 DEF SoundTree, Filled
  <1>11. (Loaded = {})'
    <2>1. \A q \in Proc : \A i \in Nat : ~Past(q, i)'
      <3> SUFFICES ASSUME NEW q \in Proc, NEW i \in Nat, Past(q, i)' PROVE FALSE
        OBVIOUS
      <3>1. i \in DOMAIN mybodytab'[q] /\ i < 1
        BY <1>1 DEF Past
      <3>2. mybodytab'[q] \in Seq(Bodies)
        BY <1>1 DEF Types
      <3> QED BY <3>1, <3>2
    <2> QED BY <2>1 DEF Loaded
  <1>12. Held({}, bodyp, mybodytab, {}, src)'
    BY DEF Held
  <1>13. Held(DOMAIN bodyp, bodyp, mybodytab, Loaded, src)'
    BY <1>1, <1>4, <1>11, <1>12
  <1>14. Links(subp)'
    <2>1. (Node = {G_root})'
      BY <1>1, <1>4 DEF Node
    <2> QED BY <1>1, <1>4, <1>6, <2>1 DEF Links
  <1>15. \A p \in Proc : Walker(p, subp, lev, zone)'
    BY <1>1 DEF Walker, Walking, Holding
  <1>16. /\ InCube' /\ done' = {}
         /\ \A p \in Proc : at'[p].pc \in {"load", "error", "loaded"} \cup Walking
    BY <1>1, <1>3 DEF InCube
  <1>17. LoadPhase(subp, lev, zone, src)'
    BY <1>10, <1>13, <1>14, <1>15, <1>16 DEF LoadPhase
  <1>18. PICK kid : kid = subp'
    OBVIOUS
  <1>19. LoadPhase(kid, lev, zone, src)'
    BY <1>17, <1>18
  <1> QED BY <1>1, <1>19

\* A process makes its tables anew, and process 0 the cube.
LEMMA Ending ==
  ASSUME Types, EndPhase, NEW p \in Proc, EndStep(p)
  PROVE  Types' /\ EndPhase'
  <1> DEFINE mine  == {n \in DOMAIN subp \cup DOMAIN bodyp : n[2] = p}
             cells == Restrict(subp, DOMAIN subp \ mine)
             x     == IF at[p].nstep + 1 = Steps THEN "finished" ELSE "start"
  <1>1. /\ at[p].pc = "end"
        /\ p = 0 => cube' = minmax /\ place' \in Places
        /\ p # 0 => UNCHANGED <<place, minmax, cube>>
        /\ subp' = IF p = 0 THEN With(cells, G_root, NewCell) ELSE cells
        /\ bodyp' = Restrict(bodyp, DOMAIN bodyp \ mine)
        /\ myncell' = [myncell EXCEPT ![p] = IF p = 0 THEN 1 ELSE 0]
        /\ mynleaf' = [mynleaf EXCEPT ![p] = 0]
        /\ done' = done \ mine
        /\ at' = [at EXCEPT ![p].pc = x, ![p].nstep = @ + 1]
        /\ UNCHANGED <<lock, mybodytab>>
    BY DEF EndStep, Is, Box
  <1>2. /\ 0 \in Proc /\ at = [q \in Proc |-> at[q]] /\ \A q \in Proc : IsLocal(at[q])
        /\ myncell \in [Proc -> Nat] /\ mynleaf \in [Proc -> Nat] /\ myncell[0] >= 1
        /\ DOMAIN subp = CellNames /\ bodyp \in [LeafNames -> Seq(Bodies)]
    BY BarnesAssumption, Names, SMTT(30) DEF Types, Proc
  <1>x. x \in {"finished", "start"}
    OBVIOUS
  <1> HIDE DEF x
  <1>3. /\ at' = [q \in Proc |-> at'[q]] /\ \A q \in Proc : q # p => at'[q] = at[q]
        /\ IsLocal(at'[p]) /\ at'[p].pc = x
    <2>1. PICK r : r = at[p]
      OBVIOUS
    <2>2. r = [pc |-> r.pc, i |-> r.i, node |-> r.node, le |-> r.le, l |-> r.l, k |-> r.k,
               todo |-> r.todo, nstep |-> r.nstep] /\ r.i \in Nat \ {0}
      BY <1>2, <2>1 DEF IsLocal
    <2>3. /\ at'[p] = [r EXCEPT !.pc = x, !.nstep = r.nstep + 1]
          /\ at' = [q \in Proc |-> at'[q]] /\ \A q \in Proc : q # p => at'[q] = at[q]
      BY <1>1, <1>2, <2>1
    <2>4. PICK s : s = [r EXCEPT !.pc = x]
      OBVIOUS
    <2>5. s = [pc |-> x, i |-> r.i, node |-> r.node, le |-> r.le, l |-> r.l, k |-> r.k,
               todo |-> r.todo, nstep |-> r.nstep]
      BY <2>2, <2>4
    <2>6. at'[p] = [s EXCEPT !.nstep = r.nstep + 1]
      BY <2>3, <2>4
    <2>7. at'[p] = [pc |-> x, i |-> r.i, node |-> r.node, le |-> r.le, l |-> r.l, k |-> r.k,
                    todo |-> r.todo, nstep |-> r.nstep + 1]
      BY <2>5, <2>6
    <2> QED BY <2>2, <2>3, <2>7 DEF IsLocal
  <1>4. /\ myncell' \in [Proc -> Nat] /\ mynleaf' \in [Proc -> Nat]
        /\ \A q \in Proc : q # p => myncell'[q] = myncell[q] /\ mynleaf'[q] = mynleaf[q]
        /\ myncell'[p] = (IF p = 0 THEN 1 ELSE 0) /\ mynleaf'[p] = 0
    BY <1>1, <1>2
  <1>5. myncell'[0] >= 1
    BY <1>2, <1>4
  <1>6. \A n : n \in mine <=> n \in Node /\ n[2] = p
    BY DEF Node
  <1> HIDE DEF mine
  <1>7. \A n : n \in CellNames' <=> \/ n \in CellNames /\ n \notin mine
                                    \/ p = 0 /\ n = G_root
    <2>1. \A n : n \in CellNames' <=> /\ n \in {"cell"} \X Proc \X Nat
                                      /\ n[3] < myncell'[n[2]]
      BY DEF CellNames
    <2>2. \A n : n \in CellNames <=> /\ n \in {"cell"} \X Proc \X Nat
                                     /\ n[3] < myncell[n[2]]
      BY DEF CellNames
    <2>3. \A n \in {"cell"} \X Proc \X Nat : n[2] \in Proc /\ n[3] \in Nat /\ n = Cell(n[2], n[3])
      BY DEF Cell
    <2>4. \A n \in {"cell"} \X Proc \X Nat : n[2] = p /\ n[3] < myncell'[n[2]] <=> p = 0 /\ n = G_root
      <3> SUFFICES ASSUME NEW n \in {"cell"} \X Proc \X Nat
                   PROVE  n[2] = p /\ n[3] < myncell'[n[2]] <=> p = 0 /\ n = G_root
        OBVIOUS
      <3>1. n[3] \in Nat /\ n = Cell(n[2], n[3])
        BY <2>3
      <3>2. G_root[2] = 0 /\ G_root[3] = 0 /\ G_root = Cell(0, 0)
        BY DEF G_root, Cell
      <3>3. CASE p = 0
        <4>1. n[2] = 0 => (n[3] < myncell'[n[2]] <=> n[3] < 1)
          BY <1>4, <3>3
        <4>2. n[3] < 1 <=> n[3] = 0
          BY <3>1
        <4> QED BY <3>1, <3>2, <3>3, <4>1, <4>2
      <3>4. CASE p # 0
        <4>1. n[2] = p => ~(n[3] < myncell'[n[2]])
          BY <1>4, <3>1, <3>4
        <4> QED BY <3>4, <4>1
      <3> QED BY <3>3, <3>4
    <2>5. G_root \in {"cell"} \X Proc \X Nat /\ G_root[2] = 0
      BY <1>2 DEF G_root, Cell
    <2>6. \A n \in CellNames : n \in mine <=> n[2] = p
      BY <1>2, <1>6 DEF Node
    <2> SUFFICES ASSUME NEW n
                 PROVE  n \in CellNames' <=> \/ n \in CellNames /\ n \notin mine
                                             \/ p = 0 /\ n = G_root
      OBVIOUS
    <2>7. CASE n \notin {"cell"} \X Proc \X Nat
      BY <2>1, <2>2, <2>5, <2>7
    <2>8. CASE n \in {"cell"} \X Proc \X Nat /\ n[2] = p
      BY <2>1, <2>2, <2>4, <2>6, <2>8
    <2>9. CASE n \in {"cell"} \X Proc \X Nat /\ n[2] # p
      <3>1. myncell'[n[2]] = myncell[n[2]]
        BY <1>4, <2>3, <2>9
      <3>2. p = 0 => n # G_root
        BY <2>5, <2>9
      <3> QED BY <2>1, <2>2, <2>6, <2>9, <3>1, <3>2
    <2> QED BY <2>7, <2>8, <2>9
  <1>8. \A n : n \in LeafNames' <=> n \in LeafNames /\ n \notin mine
    <2>1. \A n : n \in LeafNames' <=> /\ n \in {"leaf"} \X Proc \X Nat
                                      /\ n[3] < mynleaf'[n[2]]
      BY DEF LeafNames
    <2>2. \A n : n \in LeafNames <=> /\ n \in {"leaf"} \X Proc \X Nat
                                     /\ n[3] < mynleaf[n[2]]
      BY DEF LeafNames
    <2>3. \A n \in {"leaf"} \X Proc \X Nat : n[2] \in Proc /\ n[3] \in Nat
      OBVIOUS
    <2>4. \A n \in LeafNames : n \in mine <=> n[2] = p
      BY <1>2, <1>6 DEF Node
    <2> SUFFICES ASSUME NEW n PROVE n \in LeafNames' <=> n \in LeafNames /\ n \notin mine
      OBVIOUS
    <2>5. CASE n \in {"leaf"} \X Proc \X Nat /\ n[2] = p
      <3>1. ~(n[3] < mynleaf'[n[2]])
        BY <1>4, <2>3, <2>5
      <3> QED BY <2>1, <2>2, <2>4, <2>5, <3>1
    <2>6. CASE n \in {"leaf"} \X Proc \X Nat /\ n[2] # p
      <3>1. mynleaf'[n[2]] = mynleaf[n[2]]
        BY <1>4, <2>3, <2>6
      <3> QED BY <2>1, <2>2, <2>4, <2>6, <3>1
    <2> QED BY <2>1, <2>2, <2>5, <2>6
  <1>9. bodyp' \in [LeafNames' -> Seq(Bodies)]
    <2>1. bodyp' = [n \in DOMAIN bodyp \ mine |-> bodyp[n]]
      BY <1>1 DEF Restrict
    <2>2. DOMAIN bodyp \ mine = LeafNames'
      BY <1>2, <1>8
    <2>3. \A n \in LeafNames' : bodyp[n] \in Seq(Bodies)
      BY <1>2, <1>8
    <2> HIDE DEF mine
    <2> QED BY <2>1, <2>2, <2>3
  <1>10. /\ subp' = [n \in CellNames' |-> subp'[n]]
         /\ p = 0 => subp'[G_root] = NewCell
         /\ p # 0 => subp'[G_root] = subp[G_root]
    <2>1. cells = [n \in DOMAIN subp \ mine |-> subp[n]] /\ DOMAIN cells = CellNames \ mine
      BY <1>2 DEF Restrict
    <2>2. G_root \in CellNames
      BY <1>2 DEF CellNames, G_root, Cell
    <2>3. p # 0 => G_root \notin mine
      BY <1>6 DEF G_root, Cell
    <2>4. CASE p = 0
      <3>1. subp' = [n \in DOMAIN cells \cup {G_root} |-> IF n = G_root THEN NewCell ELSE cells[n]]
        BY <1>1, <2>4 DEF With
      <3>2. DOMAIN cells \cup {G_root} = CellNames'
        BY <1>7, <2>1, <2>4
      <3> HIDE DEF cells
      <3> QED BY <2>4, <3>1, <3>2
    <2>5. CASE p # 0
      <3>1. CellNames \ mine = CellNames'
        BY <1>7, <2>5
      <3>2. subp' = [n \in CellNames \ mine |-> subp[n]]
        BY <1>1, <1>2, <2>1, <2>5
      <3> QED BY <2>2, <2>3, <2>5, <3>1, <3>2
    <2> QED BY <2>4, <2>5
  <1>11. place' \in Place
    BY <1>1, BarnesAssumption DEF Types, Place, Kids
  <1>12. Types'
    <2>1. /\ lock' \in [0 .. MAXLOCK - 1 -> Proc \cup {Free}] /\ mybodytab' \in [Proc -> Seq(Bodies)]
      BY <1>1 DEF Types
    <2>2. \A q \in Proc : IsLocal(at'[q])
      BY <1>2, <1>3
    <2>3. Place' = Place
      BY DEF Place
    <2> QED BY <1>3, <1>4, <1>5, <1>9, <1>10, <1>11, <2>1, <2>2, <2>3 DEF Types
  <1>13. /\ \A q \in Proc : at'[q].pc \in {"end", "start", "finished"}
         /\ \A q \in Proc : at'[q].pc # "end" => StartsAnew(q)'
    <2> SUFFICES ASSUME NEW q \in Proc
                 PROVE  /\ at'[q].pc \in {"end", "start", "finished"}
                        /\ at'[q].pc # "end" => StartsAnew(q)'
      OBVIOUS
    <2>1. CASE q = p
      BY <1>3, <1>4, <1>x, <2>1 DEF StartsAnew
    <2>2. CASE q # p
      BY <1>3, <1>4, <2>2 DEF StartsAnew, EndPhase
    <2> QED BY <2>1, <2>2
  <1>14. at'[0].pc = "end" => done' = {G_root} /\ \A q \in Proc : Counted(q)'
    <2> SUFFICES ASSUME at'[0].pc = "end" PROVE done' = {G_root} /\ \A q \in Proc : Counted(q)'
      OBVIOUS
    <2>1. p # 0 /\ at[0].pc = "end"
      BY <1>2, <1>3, <1>x
    <2>2. G_root \notin mine
      BY <1>6, <2>1 DEF G_root, Cell
    <2>3. done = {G_root} /\ \A q \in Proc : Counted(q)
      BY <2>1 DEF EndPhase
    <2>4. done' = {G_root}
      BY <1>1, <2>2, <2>3
    <2>5. \A q \in Proc : Counted(q)'
      BY <1>1, <2>1, <2>3 DEF Counted
    <2> QED BY <2>4, <2>5
  <1>15. at'[0].pc # "end" => done' = {} /\ InCube' /\ subp'[G_root] = NewCell
    <2> SUFFICES ASSUME at'[0].pc # "end" PROVE done' = {} /\ InCube' /\ subp'[G_root] = NewCell
      OBVIOUS
    <2>1. CASE p = 0
      <3>1. done = {G_root} /\ \A q \in Proc : Counted(q)
        BY <1>1, <2>1 DEF EndPhase
      <3>2. G_root \in mine
        BY <1>6, <2>1, Names DEF G_root, Cell, Node
      <3>3. done' = {}
        BY <1>1, <3>1, <3>2
      <3>4. InCube'
        BY <1>1, <2>1, <3>1 DEF InCube, Counted
      <3> QED BY <1>10, <2>1, <3>3, <3>4
    <2>2. CASE p # 0
      <3>1. at[0].pc # "end"
        BY <1>2, <1>3, <2>2
      <3>2. done = {} /\ InCube /\ subp[G_root] = NewCell
        BY <3>1 DEF EndPhase
      <3>3. done' = {}
        BY <1>1, <3>2
      <3>4. InCube'
        BY <1>1, <2>2, <3>2 DEF InCube
      <3> QED BY <1>10, <2>2, <3>2, <3>3, <3>4
    <2> QED BY <2>1, <2>2
  <1> QED BY <1>12, <1>13, <1>14, <1>15 DEF EndPhase

-----------------------------------------------------------------------------
(* The first bodies of a process.                                          *)

LEMMA Products ==
  ASSUME NEW a \in Nat, NEW b \in Nat, NEW c \in Nat, a <= b
  PROVE  c * a \in Nat /\ c * b \in Nat /\ c * a <= c * b
  <1>1. PICK d \in Nat : b = a + d
    <2>1. b - a \in Nat /\ b = a + (b - a)
      OBVIOUS
    <2> QED BY <2>1
  <1>2. c * d \in Nat /\ c * a \in Nat
    OBVIOUS
  <1>3. c * b = c * a + c * d
    BY <1>1
  <1> QED BY <1>2, <1>3

\* N things are n or n + 1 for each of P processes: those of process p end at N or before.
LEMMA SharesFit ==
  ASSUME NEW P \in Nat \ {0}, NEW N \in Nat, NEW n \in Nat, NEW extra \in Nat, N = P * n + extra,
         extra <= P, NEW p \in 0 .. P - 1
  PROVE  /\ p < extra => (n + 1) * p \in Nat /\ (n + 1) * p + n + 1 <= N
         /\ ~(p < extra) => /\ (n + 1) * extra + (p - extra) * n \in Nat
                            /\ (n + 1) * extra + (p - extra) * n + n <= N
  <1>1. ASSUME p < extra
        PROVE  (n + 1) * p \in Nat /\ (n + 1) * p + n + 1 <= N
    <2>1. n * (p + 1) <= n * P /\ n * (p + 1) \in Nat
      BY <1>1, Products
    <2>2. (n + 1) * p = n * p + p /\ n * (p + 1) = n * p + n /\ n * P = P * n /\ n * p \in Nat
      OBVIOUS
    <2> QED BY <1>1, <2>1, <2>2
  <1>2. ASSUME ~(p < extra)
        PROVE  /\ (n + 1) * extra + (p - extra) * n \in Nat
               /\ (n + 1) * extra + (p - extra) * n + n <= N
    <2>1. n * (p + 1) <= n * P
      BY Products
    <2>2. /\ (n + 1) * extra = n * extra + extra /\ (p - extra) * n = n * p - n * extra
          /\ n * (p + 1) = n * p + n /\ n * P = P * n /\ n * p \in Nat /\ n * extra \in Nat
      OBVIOUS
    <2> QED BY <1>2, <2>1, <2>2
  <1> QED BY <1>1, <1>2

LEMMA Shares ==
  ASSUME NEW N \in Nat, NEW p \in Proc
  PROVE  LET n      == N \div NPROC
             extra  == N % NPROC
             offset == IF p < extra THEN (n + 1) * p ELSE (n + 1) * extra + (p - extra) * n
         IN  /\ offset \in Nat /\ n \in Nat
             /\ offset + n + (IF p < extra THEN 1 ELSE 0) <= N
  <1>1. PICK n, extra : n = N \div NPROC /\ extra = N % NPROC
    OBVIOUS
  <1>2. NPROC \in Nat \ {0}
    BY BarnesAssumption
  <1>3. n \in Nat /\ extra \in Nat /\ extra <= NPROC /\ N = NPROC * n + extra
    BY <1>1, <1>2
  <1>4. /\ p < extra => (n + 1) * p \in Nat /\ (n + 1) * p + n + 1 <= N
        /\ ~(p < extra) => /\ (n + 1) * extra + (p - extra) * n \in Nat
                           /\ (n + 1) * extra + (p - extra) * n + n <= N
    <2>1. p \in 0 .. NPROC - 1
      BY DEF Proc
    <2> QED BY <1>2, <1>3, <2>1, SharesFit
  <1>5. CASE p < extra
    BY <1>1, <1>3, <1>4, <1>5
  <1>6. CASE ~(p < extra)
    BY <1>1, <1>3, <1>4, <1>6
  <1> QED BY <1>5, <1>6

LEMMA FirstBodies ==
  ASSUME NEW p \in Proc
  PROVE  InitialBodies(SetToSeq(Bodies), p) \in Seq(Bodies)
  <1>1. SetToSeq(Bodies) \in Seq(Bodies)
    <2>1. IsFiniteSet(Bodies)
      BY BarnesAssumption
    <2>2. Cardinality(Bodies) \in Nat /\ \E f \in [1 .. Cardinality(Bodies) -> Bodies] : IsInjective(f)
      BY <2>1, FS_CardinalityType DEF ExistsBijection, Bijection, Injection
    <2>3. SetToSeq(Bodies) \in [1 .. Cardinality(Bodies) -> Bodies]
      BY <2>2 DEF SetToSeq
    <2> QED BY <2>2, <2>3
  <1>2. PICK s : s = SetToSeq(Bodies)
    OBVIOUS
  <1>3. s \in Seq(Bodies) /\ Len(s) \in Nat /\ DOMAIN s = 1 .. Len(s)
    BY <1>1, <1>2
  <1>4. \A o, m \in Nat : o + m <= Len(s) => SubSeq(s, o + 1, o + m) \in Seq(Bodies)
    BY <1>3
  <1>5. CASE p < Len(s) % NPROC
    <2> DEFINE n == Len(s) \div NPROC
    <2>1. n \in Nat /\ (n + 1) * p \in Nat /\ (n + 1) * p + n + 1 <= Len(s)
      BY <1>3, <1>5, Shares
    <2>2. InitialBodies(s, p) = SubSeq(s, (n + 1) * p + 1, (n + 1) * p + n + 1)
      BY <1>5 DEF InitialBodies
    <2> HIDE DEF n
    <2>3. PICK o : o = (n + 1) * p
      OBVIOUS
    <2>4. o \in Nat /\ n + 1 \in Nat /\ o + (n + 1) <= Len(s) /\ o + n + 1 = o + (n + 1)
      BY <2>1, <2>3
    <2> QED BY <1>2, <1>4, <2>2, <2>3, <2>4
  <1>6. CASE ~(p < Len(s) % NPROC)
    <2> DEFINE n == Len(s) \div NPROC
               extra == Len(s) % NPROC
               o == (n + 1) * extra + (p - extra) * n
    <2>1. n \in Nat /\ o \in Nat /\ o + n + 0 <= Len(s)
      BY <1>3, <1>6, Shares
    <2>2. InitialBodies(s, p) = SubSeq(s, o + 1, o + n + 0)
      BY <1>6 DEF InitialBodies
    <2> HIDE DEF n, o
    <2>3. o + n + 0 = o + n
      BY <2>1
    <2> QED BY <1>2, <1>4, <2>1, <2>2, <2>3
  <1> QED BY <1>5, <1>6

-----------------------------------------------------------------------------
(* The whole program.                                                      *)

\* The phases of a time step.
TreeInv ==
  /\ Types
  /\ \/ \E kid, lev, zone, src : LoadPhase(kid, lev, zone, src)
     \/ \E lev, zone, src : SumPhase(lev, zone, src)
     \/ \E lev, zone : DividePhase(lev, zone)
     \/ EndPhase

LEMMA Begins == Init => TreeInv
  <1> SUFFICES ASSUME Init PROVE Types /\ EndPhase
    BY DEF TreeInv
  <1>1. 0 \in Proc /\ \A p \in Proc : p \in Nat
    BY BarnesAssumption DEF Proc
  <1>2. \A p \in Proc : at[p] = [pc |-> "start", i |-> 1, node |-> G_root, le |-> Null, l |-> 1,
                                 k |-> 1, todo |-> << >>, nstep |-> 0]
    BY DEF Init, Local
  <1>3. \A p \in Proc : IsLocal(at[p]) /\ at[p].pc = "start"
    BY <1>2 DEF IsLocal
  <1>4. mybodytab \in [Proc -> Seq(Bodies)]
    <2>1. mybodytab = [p \in Proc |-> InitialBodies(SetToSeq(Bodies), p)]
      BY DEF Init
    <2>2. \A p \in Proc : InitialBodies(SetToSeq(Bodies), p) \in Seq(Bodies)
      BY FirstBodies
    <2> QED BY <2>1, <2>2
  <1>5. /\ myncell \in [Proc -> Nat] /\ mynleaf \in [Proc -> Nat] /\ myncell[0] >= 1
        /\ \A p \in Proc : myncell[p] = (IF p = 0 THEN 1 ELSE 0) /\ mynleaf[p] = 0
    BY <1>1 DEF Init
  <1>6. CellNames = {G_root}
    <2>1. \A n \in CellNames : n = G_root
      <3> SUFFICES ASSUME NEW n \in CellNames PROVE n = G_root
        OBVIOUS
      <3>1. n \in {"cell"} \X Proc \X Nat /\ n[3] < myncell[n[2]] /\ n[2] \in Proc /\ n[3] \in Nat
        BY DEF CellNames
      <3>2. n[3] < IF n[2] = 0 THEN 1 ELSE 0
        BY <1>5, <3>1
      <3>3. n[2] = 0 /\ n[3] = 0 /\ n[1] = "cell"
        BY <3>1, <3>2
      <3> QED BY <3>1, <3>3 DEF G_root, Cell
    <2>2. G_root \in CellNames
      BY <1>1, <1>5 DEF CellNames, G_root, Cell
    <2> QED BY <2>1, <2>2
  <1>7. LeafNames = {}
    <2>1. \A n \in LeafNames : FALSE
      <3> SUFFICES ASSUME NEW n \in LeafNames PROVE FALSE
        OBVIOUS
      <3>1. n[3] < mynleaf[n[2]] /\ n[2] \in Proc /\ n[3] \in Nat
        BY DEF LeafNames
      <3> QED BY <1>5, <3>1
    <2> QED BY <2>1
  <1>8. subp = [n \in {G_root} |-> subp[n]] /\ subp[G_root] = NewCell /\ bodyp \in [{} -> Seq(Bodies)]
    BY DEF Init
  <1>9. place \in Place
    BY BarnesAssumption DEF Init, Place, Kids
  <1>10. at = [p \in Proc |-> at[p]] /\ lock \in [0 .. MAXLOCK - 1 -> Proc \cup {Free}]
    BY DEF Init
  <1>11. Types
    BY <1>3, <1>4, <1>5, <1>6, <1>7, <1>8, <1>9, <1>10 DEF Types
  <1>12. InCube
    BY <1>4 DEF Init, InCube
  <1>13. done = {}
    BY DEF Init
  <1> QED BY <1>1, <1>3, <1>5, <1>8, <1>11, <1>12, <1>13 DEF EndPhase, StartsAnew

\* Where a process is when it acts.
LEMMA Acts ==
  ASSUME NEW p \in Proc
  PROVE  /\ Load(p) => at[p].pc \in {"load"} \cup Walking
         /\ SumLeaf(p) => at[p].pc = "leaves"
         /\ SumCell(p) => at[p].pc = "cells"
         /\ FindBodies(p) => at[p].pc = "divide"
         /\ VisitCell(p) \/ VisitBody(p) \/ BodiesFound(p) => at[p].pc = "find"
         /\ BeginForce(p) \/ EndForce(p) \/ AdvanceBodies(p) => at[p].pc \in {"force", "walk", "advance"}
         /\ EndStep(p) => at[p].pc = "end"
  <1>1. Load(p) => at[p].pc \in {"load"} \cup Walking
    BY DEF Load, NextBody, LookForNull, LockNull, InsertLeaf, LookForLeaf, LockLeaf, AddBody,
           SubdivideLeaf, HangCell, Descend, Is, Walking, Holding
  <1>2. /\ SumLeaf(p) => at[p].pc = "leaves"
        /\ SumCell(p) => at[p].pc = "cells"
        /\ EndStep(p) => at[p].pc = "end"
    BY DEF SumLeaf, SumCell, EndStep, Is
  <1>3. /\ FindBodies(p) => at[p].pc = "divide"
        /\ VisitCell(p) \/ VisitBody(p) \/ BodiesFound(p) => at[p].pc = "find"
        /\ BeginForce(p) \/ EndForce(p) \/ AdvanceBodies(p) => at[p].pc \in {"force", "walk", "advance"}
    BY DEF FindBodies, VisitCell, VisitBody, BodiesFound, BeginForce, EndForce, AdvanceBodies, Is
  <1> QED BY <1>1, <1>2, <1>3

\* The kinds of steps.
LEMMA Kinds ==
  ASSUME Next
  PROVE  \/ \E p \in Proc : Load(p)
         \/ \E p \in Proc : SumLeaf(p) \/ SumCell(p)
         \/ \E p \in Proc : \/ FindBodies(p) \/ VisitCell(p) \/ VisitBody(p) \/ BodiesFound(p)
                            \/ BeginForce(p) \/ EndForce(p) \/ AdvanceBodies(p)
         \/ \E p \in Proc : EndStep(p)
         \/ Barrier("start", "load") \/ Barrier("loaded", "leaves")
         \/ Barrier("summed", "divide") \/ Barrier("advanced", "end")
  BY DEF Next, Step, Barriers

\* A barrier is where the processes are.
LEMMA AtBarrier ==
  ASSUME NEW from, NEW to, Barrier(from, to)
  PROVE  at[0].pc = from /\ 0 \in Proc
  BY BarnesAssumption DEF Barrier, Is, Proc

LEMMA LoadGoesOn ==
  ASSUME Types, NEW kid, NEW lev, NEW zone, NEW src, LoadPhase(kid, lev, zone, src), Next
  PROVE  TreeInv'
  <1>1. \A p \in Proc : at[p].pc \in {"load", "error", "loaded"} \cup Walking
    BY DEF LoadPhase
  <1>2. CASE \E p \in Proc : Load(p)
    <2>1. Types' /\ \E kid2, lev2, zone2, src2 : LoadPhase(kid2, lev2, zone2, src2)'
      BY <1>2, LoadSteps
    <2> QED BY <2>1 DEF TreeInv
  <1>3. CASE Barrier("loaded", "leaves")
    <2>1. Types' /\ SumPhase(lev, zone, src)'
      BY <1>3, SumsBegin
    <2> QED BY <2>1 DEF TreeInv
  <1>4. ~\E p \in Proc : SumLeaf(p) \/ SumCell(p)
    BY <1>1, Acts DEF Walking, Holding
  <1>5. ~\E p \in Proc : \/ FindBodies(p) \/ VisitCell(p) \/ VisitBody(p) \/ BodiesFound(p)
                         \/ BeginForce(p) \/ EndForce(p) \/ AdvanceBodies(p)
    BY <1>1, Acts DEF Walking, Holding
  <1>6. ~\E p \in Proc : EndStep(p)
    BY <1>1, Acts DEF Walking, Holding
  <1>7. /\ ~Barrier("start", "load") /\ ~Barrier("summed", "divide") /\ ~Barrier("advanced", "end")
    BY <1>1, AtBarrier DEF Walking, Holding
  <1> QED BY <1>2, <1>3, <1>4, <1>5, <1>6, <1>7, Kinds

LEMMA SumGoesOn ==
  ASSUME Types, NEW lev, NEW zone, NEW src, SumPhase(lev, zone, src), Next
  PROVE  TreeInv'
  <1>1. \A p \in Proc : at[p].pc \in {"leaves", "cells", "summed"}
    BY DEF SumPhase
  <1>2. CASE \E p \in Proc : SumLeaf(p) \/ SumCell(p)
    <2>1. PICK p \in Proc : SumLeaf(p) \/ SumCell(p)
      BY <1>2
    <2>2. Types' /\ SumPhase(lev, zone, src)'
      BY <2>1, SummingLeaf, SummingCell
    <2> QED BY <2>2 DEF TreeInv
  <1>3. CASE Barrier("summed", "divide")
    <2>1. Types' /\ DividePhase(lev, zone)'
      BY <1>3, DivisionBegins
    <2> QED BY <2>1 DEF TreeInv
  <1>4. ~\E p \in Proc : Load(p)
    BY <1>1, Acts DEF Walking, Holding
  <1>5. ~\E p \in Proc : \/ FindBodies(p) \/ VisitCell(p) \/ VisitBody(p) \/ BodiesFound(p)
                         \/ BeginForce(p) \/ EndForce(p) \/ AdvanceBodies(p)
    BY <1>1, Acts
  <1>6. ~\E p \in Proc : EndStep(p)
    BY <1>1, Acts
  <1>7. /\ ~Barrier("start", "load") /\ ~Barrier("loaded", "leaves") /\ ~Barrier("advanced", "end")
    BY <1>1, AtBarrier
  <1> QED BY <1>2, <1>3, <1>4, <1>5, <1>6, <1>7, Kinds

LEMMA DivideGoesOn ==
  ASSUME Types, NEW lev, NEW zone, DividePhase(lev, zone), Next
  PROVE  TreeInv'
  <1>1. \A p \in Proc : at[p].pc \in {"divide", "find", "force", "walk", "advance", "advanced"}
    BY DEF DividePhase
  <1>2. CASE \E p \in Proc : \/ FindBodies(p) \/ VisitCell(p) \/ VisitBody(p) \/ BodiesFound(p)
                             \/ BeginForce(p) \/ EndForce(p) \/ AdvanceBodies(p)
    <2>1. PICK p \in Proc : \/ FindBodies(p) \/ VisitCell(p) \/ VisitBody(p) \/ BodiesFound(p)
                            \/ BeginForce(p) \/ EndForce(p) \/ AdvanceBodies(p)
      BY <1>2
    <2>2. CASE FindBodies(p)
      BY <2>2, Finding DEF TreeInv
    <2>3. CASE VisitCell(p)
      BY <2>3, VisitingCell DEF TreeInv
    <2>4. CASE VisitBody(p)
      BY <2>4, VisitingBody DEF TreeInv
    <2>5. CASE BodiesFound(p) \/ BeginForce(p) \/ EndForce(p) \/ AdvanceBodies(p)
      BY <2>5, Forces DEF TreeInv
    <2> QED BY <2>1, <2>2, <2>3, <2>4, <2>5
  <1>3. CASE Barrier("advanced", "end")
    BY <1>3, TheEnd DEF TreeInv
  <1>4. ~\E p \in Proc : Load(p)
    BY <1>1, Acts DEF Walking, Holding
  <1>5. ~\E p \in Proc : SumLeaf(p) \/ SumCell(p)
    BY <1>1, Acts
  <1>6. ~\E p \in Proc : EndStep(p)
    BY <1>1, Acts
  <1>7. /\ ~Barrier("start", "load") /\ ~Barrier("loaded", "leaves") /\ ~Barrier("summed", "divide")
    BY <1>1, AtBarrier
  <1> QED BY <1>2, <1>3, <1>4, <1>5, <1>6, <1>7, Kinds

LEMMA EndGoesOn ==
  ASSUME Types, EndPhase, Next
  PROVE  TreeInv'
  <1>1. \A p \in Proc : at[p].pc \in {"end", "start", "finished"}
    BY DEF EndPhase
  <1>2. CASE \E p \in Proc : EndStep(p)
    BY <1>2, Ending DEF TreeInv
  <1>3. CASE Barrier("start", "load")
    BY <1>3, LoadBegins DEF TreeInv
  <1>4. ~\E p \in Proc : Load(p)
    BY <1>1, Acts DEF Walking, Holding
  <1>5. ~\E p \in Proc : SumLeaf(p) \/ SumCell(p)
    BY <1>1, Acts
  <1>6. ~\E p \in Proc : \/ FindBodies(p) \/ VisitCell(p) \/ VisitBody(p) \/ BodiesFound(p)
                         \/ BeginForce(p) \/ EndForce(p) \/ AdvanceBodies(p)
    BY <1>1, Acts
  <1>7. /\ ~Barrier("loaded", "leaves") /\ ~Barrier("summed", "divide") /\ ~Barrier("advanced", "end")
    BY <1>1, AtBarrier
  <1> QED BY <1>2, <1>3, <1>4, <1>5, <1>6, <1>7, Kinds

\* A step that changes nothing.
LEMMA Stutters ==
  ASSUME TreeInv, UNCHANGED vars
  PROVE  TreeInv'
  <1>1. /\ place' = place /\ subp' = subp /\ bodyp' = bodyp /\ myncell' = myncell /\ mynleaf' = mynleaf
        /\ done' = done /\ mass' = mass /\ lock' = lock /\ mybodytab' = mybodytab /\ at' = at
        /\ minmax' = minmax /\ cube' = cube
    BY DEF vars
  <1>2. Types'
    BY <1>1 DEF TreeInv, Types, Place, CellNames, LeafNames
  <1>3. ASSUME NEW kid, NEW lev, NEW zone, NEW src, LoadPhase(kid, lev, zone, src)
        PROVE  LoadPhase(kid, lev, zone, src)'
    <2>1. /\ Node' = Node /\ Loaded' = Loaded
          /\ \A p \in Proc : /\ Body(p)' = Body(p) /\ Index(p)' = Index(p)
                            /\ Slot(p)' = Slot(p) /\ Mutex(p)' = Mutex(p)
      BY <1>1 DEF Node, Loaded, Past, Body, Index, Slot, Mutex
    <2>2. /\ (\A p \in Proc : at[p].pc \in {"load", "error", "loaded"} \cup Walking)'
          /\ InCube' /\ (done = {})' /\ SoundTree(kid, lev, zone)'
          /\ Held(DOMAIN bodyp, bodyp, mybodytab, Loaded, src)'
      BY <1>1, <1>3, <2>1 DEF LoadPhase, InCube, SoundTree, Filled
    <2>3. Links(kid)'
      BY <1>1, <1>3, <2>1 DEF LoadPhase, Links, Is
    <2>4. \A p \in Proc : Walker(p, kid, lev, zone)'
      <3> SUFFICES ASSUME NEW p \in Proc PROVE Walker(p, kid, lev, zone)'
        OBVIOUS
      <3>1. Walker(p, kid, lev, zone)
        BY <1>3 DEF LoadPhase
      <3> QED BY <1>1, <2>1, <3>1 DEF Walker
    <2> QED BY <2>2, <2>3, <2>4 DEF LoadPhase
  <1>4. ASSUME NEW lev, NEW zone, NEW src, SumPhase(lev, zone, src)
        PROVE  SumPhase(lev, zone, src)'
    <2>1. \A n : (IsSummed(n)' <=> IsSummed(n)) /\ (IsCurrent(n)' <=> IsCurrent(n))
      BY <1>1 DEF IsSummed, IsCurrent
    <2>2. \A n : IsTaken(n)' <=> IsTaken(n)
      BY <1>1, <2>1 DEF IsTaken, HasTaken
    <2>3. /\ \A n : Under(n, zone)' = Under(n, zone)
          /\ \A n, j : Before(n, j, lev, zone)' = Before(n, j, lev, zone)
          /\ Node' = Node /\ Copies' = Copies
      BY <1>1 DEF Under, Before, BodyAt, Copies, Node
    <2>4. /\ (\A p \in Proc : at[p].pc \in {"leaves", "cells", "summed"} /\ at[p].k \in 1 .. NSUB)'
          /\ InCube' /\ SoundTree(subp, lev, zone)'
          /\ Held(DOMAIN bodyp, bodyp, mybodytab, Copies, src)'
      BY <1>1, <1>4, <2>3 DEF SumPhase, InCube, SoundTree, Filled
    <2>5. /\ done' = {n \in Node' : IsSummed(n)' /\ ~IsTaken(n)'}
          /\ \A n \in Node' : IsTaken(n)' => IsSummed(n)'
      BY <1>1, <1>4, <2>1, <2>2, <2>3 DEF SumPhase
    <2>6. (\A n \in Node : IsSummed(n) => n \in DOMAIN mass /\ mass[n] = Under(n, zone))'
      BY <1>1, <1>4, <2>1, <2>3 DEF SumPhase
    <2>7. (\A n \in DOMAIN subp : IsCurrent(n) /\ at[n[2]].k > 1 =>
             n \in DOMAIN mass /\ mass[n] = Before(n, at[n[2]].k - 1, lev, zone))'
      <3> SUFFICES ASSUME NEW n \in DOMAIN subp, IsCurrent(n), at[n[2]].k > 1
                   PROVE  (n \in DOMAIN mass /\ mass[n] = Before(n, at[n[2]].k - 1, lev, zone))'
        BY <1>1, <2>1
      <3>1. n \in DOMAIN mass /\ mass[n] = Before(n, at[n[2]].k - 1, lev, zone)
        BY <1>4 DEF SumPhase
      <3>2. PICK j : j = at[n[2]].k - 1
        OBVIOUS
      <3>3. (Before(n, j, lev, zone))' = Before(n, j, lev, zone)
        BY <2>3
      <3>4. at'[n[2]].k - 1 = j
        BY <1>1, <3>2
      <3> QED BY <1>1, <3>1, <3>2, <3>3, <3>4
    <2>8. (done = {n \in Node : IsSummed(n) /\ ~IsTaken(n)})'
          /\ (\A n \in Node : IsTaken(n) => IsSummed(n))'
      BY <2>5
    <2> QED BY <2>4, <2>6, <2>7, <2>8 DEF SumPhase
  <1>5. ASSUME NEW lev, NEW zone, DividePhase(lev, zone)
        PROVE  DividePhase(lev, zone)'
    BY <1>1, <1>5 DEF DividePhase, Visiting, ToVisit, Counted, Node
  <1>6. EndPhase => EndPhase'
    BY <1>1 DEF EndPhase, Counted, InCube, StartsAnew
  <1> QED BY <1>2, <1>3, <1>4, <1>5, <1>6 DEF TreeInv

LEMMA Continues == TreeInv /\ [Next]_vars => TreeInv'
  <1> SUFFICES ASSUME TreeInv, [Next]_vars PROVE TreeInv'
    OBVIOUS
  <1>1. CASE UNCHANGED vars
    BY <1>1, Stutters
  <1>2. CASE Next
    <2>1. Types
      BY DEF TreeInv
    <2>2. ASSUME NEW kid, NEW lev, NEW zone, NEW src, LoadPhase(kid, lev, zone, src) PROVE TreeInv'
      BY <1>2, <2>1, <2>2, LoadGoesOn
    <2>3. ASSUME NEW lev, NEW zone, NEW src, SumPhase(lev, zone, src) PROVE TreeInv'
      BY <1>2, <2>1, <2>3, SumGoesOn
    <2>4. ASSUME NEW lev, NEW zone, DividePhase(lev, zone) PROVE TreeInv'
      BY <1>2, <2>1, <2>4, DivideGoesOn
    <2>5. CASE EndPhase
      BY <1>2, <2>1, <2>5, EndGoesOn
    <2> QED BY <2>2, <2>3, <2>4, <2>5 DEF TreeInv
  <1> QED BY <1>1, <1>2

LEMMA Complete == TreeInv => TreeIsComplete
  <1> SUFFICES ASSUME TreeInv PROVE TreeIsComplete
    OBVIOUS
  <1>1. Types /\ 0 \in Proc
    BY BarnesAssumption DEF TreeInv, Proc
  <1>2. ASSUME All("loaded")
        PROVE  BodiesAreInPlace /\ \A p \in Proc : ToSet(mybodytab[p]) \subseteq cube
    <2>1. \A p \in Proc : at[p].pc = "loaded"
      BY <1>2 DEF All, Is
    <2>2. at[0].pc = "loaded"
      BY <1>1, <2>1
    <2>3. PICK kid, lev, zone, src : LoadPhase(kid, lev, zone, src)
      BY <1>1, <2>2 DEF TreeInv, SumPhase, DividePhase, EndPhase
    <2>4. /\ SoundTree(subp, lev, zone) /\ Held(DOMAIN bodyp, bodyp, mybodytab, Copies, src)
          /\ InCube
      BY <1>1, <2>1, <2>3, AllLoaded
    <2>5. BodiesAreInPlace
      BY <1>1, <2>4, InPlace
    <2> QED BY <2>4, <2>5 DEF InCube, ToSet
  <1>3. ASSUME All("summed") PROVE SumsAddUp /\ done = {G_root}
    <2>1. \A p \in Proc : at[p].pc = "summed"
      BY <1>3 DEF All, Is
    <2>2. at[0].pc = "summed"
      BY <1>1, <2>1
    <2>3. PICK lev, zone, src : SumPhase(lev, zone, src)
      BY <1>1, <2>2 DEF TreeInv, LoadPhase, DividePhase, EndPhase, Walking, Holding
    <2> QED BY <1>1, <2>1, <2>3, AllSummed
  <1> QED BY <1>2, <1>3 DEF TreeIsComplete

\* In every state a time step is in one of its phases: maketree keeps the tree sound
\* and what each process knows of it true, hackcofm sums the nodes bottom up,
\* find_my_bodies stays in the tree, and the end of the step leaves the root alone.
THEOREM TreeIsSound == Spec => []TreeInv
  <1>1. Init => TreeInv
    BY Begins
  <1>2. TreeInv /\ [Next]_vars => TreeInv'
    BY Continues
  <1> QED BY <1>1, <1>2, PTL DEF Spec

\* After maketree the tree has all bodies, each where a search for it ends, and after
\* hackcofm the mass of every node is that of the bodies below, in every time step and
\* whatever the interleaving of the processes.
THEOREM TreeIsAlwaysComplete == Spec => []TreeIsComplete
  <1>1. Spec => []TreeInv
    BY TreeIsSound
  <1>2. TreeInv => TreeIsComplete
    BY Complete
  <1> QED BY <1>1, <1>2, PTL

=============================================================================

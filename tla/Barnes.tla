------------------------------- MODULE Barnes -------------------------------
(***************************************************************************)
(* A time step of apps/barnes (code.C, load.C): the processes load their   *)
(* bodies into one tree, compute the masses and costs of its nodes, divide *)
(* the bodies by cost among them, compute the forces on theirs and advance *)
(* them.  The tree is built under mutexes of cells, which are shared by    *)
(* cells of the same seqnum % MAXLOCK, but searched without; a cell waits   *)
(* for the masses of its children by spinning on their Done flags; nothing *)
(* orders the processes between the division and the end of the step.      *)
(*                                                                         *)
(* One action is one access of a process to what others change, or a part  *)
(* of a critical section.  A mass is the number of bodies it is made of,   *)
(* and where a body is in the cube is the sequence of the children on its  *)
(* way down.  A quiet cube: bodies stay where they are when they advance.  *)
(***************************************************************************)
EXTENDS Integers, Sequences, SequencesExt, FiniteSetsExt, Functions

CONSTANTS
  NPROC, Bodies,
  NSUB, Levels,                \* children of a cell; bits of a coordinate
  MAX_BODIES_PER_LEAF, MAXLOCK, maxmycell,
  Places,                      \* functions: body -> where it is in the cube
  Child_Sequence,              \* the order in which the children of a level are divided
  Costs,                       \* the numbers of interactions a body may have
  Steps

ASSUME BarnesAssumption ==
  /\ {NPROC, NSUB, MAX_BODIES_PER_LEAF, MAXLOCK, maxmycell, Steps} \subseteq Nat \ {0}
  /\ Levels \in Nat \ {0, 1} /\ Costs \subseteq Nat \ {0}
  /\ IsFiniteSet(Bodies)
  /\ Places \subseteq [Bodies -> [1 .. Levels -> 0 .. NSUB - 1]]
  /\ DOMAIN Child_Sequence = 1 .. Levels
  /\ \A d \in 1 .. Levels : /\ Child_Sequence[d] \in Seq(0 .. NSUB - 1)
                             /\ ToSet(Child_Sequence[d]) = 0 .. NSUB - 1

Proc == 0 .. NPROC - 1
Kids == 0 .. NSUB - 1
Free == -1

\* Nodes are named by their place in mycelltab and myleaftab of a process.
Null       == <<"null", 0, 0>>
Cell(p, i) == <<"cell", p, i>>
Leaf(p, i) == <<"leaf", p, i>>
Type(n)    == n[1]
G_root     == Cell(0, 0)

\* The mutex of a cell.
CL(n) == (n[2] * maxmycell + n[3]) % MAXLOCK

VARIABLES
  place,                   \* where the bodies are
  subp,                    \* cell -> its children
  bodyp,                   \* leaf -> its bodies
  myncell, mynleaf,        \* process -> the number of nodes in its tables
  done, mass, costs,       \* of the nodes
  cost,                    \* of the bodies
  lock,                    \* the mutexes of the cells
  mybodytab,
  at,                      \* process -> where it is, and its local variables
  minmax,                  \* the bodies in Global->min and max
  cube,                    \* the bodies for which Global->rmin and rsize are large enough
  early                    \* history: a cost changed while another process was dividing bodies

vars == <<place, subp, bodyp, myncell, mynleaf, done, mass, costs, cost, lock, mybodytab, at,
          minmax, cube, early>>

Tree == <<subp, bodyp, myncell, mynleaf>>
Sums == <<done, mass, costs>>
Box  == <<place, minmax, cube>>

NewCell == [k \in Kids |-> Null]

\* f with v at x, where it may be new.
With(f, x, v) == [y \in DOMAIN f \cup {x} |-> IF y = x THEN v ELSE f[y]]

\* The j-th number of I, and the elements of s at the positions I.
Position(I, j) == CHOOSE i \in I : Cardinality({h \in I : h < i}) = j - 1
Part(s, I)     == [j \in 1 .. Cardinality(I) |-> s[Position(I, j)]]

-----------------------------------------------------------------------------
\* pc, the number of the body or node in its table, *mynode, le or c, the level,
\* the number of the child or body in it, the nodes to visit, and nstep.
Local == [pc |-> "start", i |-> 1, node |-> G_root, le |-> Null, l |-> 1, k |-> 1,
          todo |-> << >>, nstep |-> 0]

Is(p, pc)    == at[p].pc = pc
At(p, pc)    == [Local EXCEPT !.pc = pc, !.nstep = at[p].nstep]
Enter(p, pc) == at' = [at EXCEPT ![p] = At(p, pc)]
Goto(p, pc)  == at' = [at EXCEPT ![p].pc = pc]
Again(p, pc) == at' = [at EXCEPT ![p] = [At(p, pc) EXCEPT !.i = at[p].i + 1]]

\* find_my_initial_bodies: the first processes get one body more.
InitialBodies(bodytab, p) ==
  LET n      == Len(bodytab) \div NPROC
      extra  == Len(bodytab) % NPROC
      offset == IF p < extra THEN (n + 1) * p ELSE (n + 1) * extra + (p - extra) * n
  IN  SubSeq(bodytab, offset + 1, offset + n + (IF p < extra THEN 1 ELSE 0))

Init ==
  /\ place \in Places
  /\ subp = [n \in {G_root} |-> NewCell]
  /\ bodyp = << >>
  /\ myncell = [p \in Proc |-> IF p = 0 THEN 1 ELSE 0]
  /\ mynleaf = [p \in Proc |-> 0]
  /\ done = {} /\ mass = << >> /\ costs = << >>
  /\ cost = [b \in Bodies |-> 1]
  /\ lock = [m \in 0 .. MAXLOCK - 1 |-> Free]
  /\ mybodytab = [p \in Proc |-> InitialBodies(SetToSeq(Bodies), p)]
  /\ at = [p \in Proc |-> Local]
  /\ minmax = {} /\ cube = Bodies        \* setbound
  /\ early = FALSE

\* BARRIER(Global->Barrier)
Barrier(from, to) ==
  /\ \A p \in Proc : Is(p, from)
  /\ at' = [p \in Proc |-> At(p, to)]
  /\ UNCHANGED <<Box, Tree, Sums, cost, lock, mybodytab, early>>

-----------------------------------------------------------------------------
(* maketree: loadtree for every body.                                       *)

Body(p)  == mybodytab[p][at[p].i]
Index(p) == place[Body(p)][at[p].l]                    \* kidIndex
Slot(p)  == subp[at[p].node][Index(p)]                 \* *qptr
Mutex(p) == CL(at[p].node)

\* ALOCK and AULOCK of the mutex of mynode.
Unlocked(p) == lock[Mutex(p)] = Free
Locked(p)   == lock' = [lock EXCEPT ![Mutex(p)] = p]
Released(p) == lock' = [lock EXCEPT ![Mutex(p)] = Free]
Loading     == UNCHANGED <<Box, Sums, cost, mybodytab, early>>

NextBody(p) ==
  /\ Is(p, "load")
  /\ IF at[p].i > Len(mybodytab[p]) THEN Enter(p, "loaded") ELSE Goto(p, "empty?")
  /\ Loading /\ UNCHANGED <<Tree, lock>>

\* if (*qptr == NULL), without the mutex ...
LookForNull(p) ==
  /\ Is(p, "empty?")
  /\ Goto(p, IF Slot(p) = Null THEN "grow" ELSE "leaf?")
  /\ Loading /\ UNCHANGED <<Tree, lock>>

\* Fault: not tested again with the mutex.
LockNull_Once(p) ==
  /\ Is(p, "grow") /\ Unlocked(p)
  /\ Locked(p) /\ Goto(p, "insert")
  /\ Loading /\ UNCHANGED Tree

\* ... and again with it.
LockNull(p) ==
  /\ Is(p, "grow") /\ Unlocked(p)
  /\ IF Slot(p) = Null THEN Locked(p) /\ Goto(p, "insert")
                       ELSE lock' = lock /\ Goto(p, "leaf?")
  /\ Loading /\ UNCHANGED Tree

\* InitLeaf with this body, and AULOCK.
InsertLeaf(p) ==
  /\ Is(p, "insert")
  /\ LET le == Leaf(p, mynleaf[p]) IN
     /\ bodyp' = With(bodyp, le, <<Body(p)>>)
     /\ subp' = [subp EXCEPT ![at[p].node][Index(p)] = le]
     /\ mynleaf' = [mynleaf EXCEPT ![p] = @ + 1]
  /\ Released(p)
  /\ Again(p, "load")
  /\ Loading /\ UNCHANGED myncell

LookForLeaf(p) ==
  /\ Is(p, "leaf?")
  /\ Goto(p, IF Type(Slot(p)) = "leaf" THEN "open" ELSE "descend")
  /\ Loading /\ UNCHANGED <<Tree, lock>>

\* Still a leaf?
LockLeaf(p) ==
  /\ Is(p, "open") /\ Unlocked(p)
  /\ IF Type(Slot(p)) = "leaf"
     THEN /\ Locked(p)
          /\ at' = [at EXCEPT ![p].le = Slot(p),
                              ![p].pc = IF Len(bodyp[Slot(p)]) = MAX_BODIES_PER_LEAF
                                        THEN "subdivide" ELSE "add"]
     ELSE lock' = lock /\ Goto(p, "descend")
  /\ Loading /\ UNCHANGED Tree

AddBody(p) ==
  /\ Is(p, "add")
  /\ bodyp' = [bodyp EXCEPT ![at[p].le] = Append(@, Body(p))]
  /\ Released(p)
  /\ Again(p, "load")
  /\ Loading /\ UNCHANGED <<subp, myncell, mynleaf>>

\* A new cell, which nobody sees yet: the leaf stays with the first of its bodies
\* and those in the same child, and the others get new leaves.
SubdivideLeaf(p) ==
  /\ Is(p, "subdivide")
  /\ LET le       == at[p].le
         c        == Cell(p, myncell[p])
         index(i) == place[bodyp[le][i]][at[p].l + 1]
         first    == index(1)
         others   == {index(i) : i \in DOMAIN bodyp[le]} \ {first}
         leaf(k)  == IF k = first THEN le
                     ELSE Leaf(p, mynleaf[p] + Cardinality({o \in others : o < k}))
         used     == others \cup {first}
     IN  /\ subp' = With(subp, c, [k \in Kids |-> IF k \in used THEN leaf(k) ELSE Null])
         /\ bodyp' = [n \in DOMAIN bodyp \cup {leaf(k) : k \in used} |->
                        IF n \in {leaf(k) : k \in used}
                        THEN Part(bodyp[le], {i \in DOMAIN bodyp[le] : leaf(index(i)) = n})
                        ELSE bodyp[n]]
         /\ myncell' = [myncell EXCEPT ![p] = @ + 1]
         /\ mynleaf' = [mynleaf EXCEPT ![p] = @ + Cardinality(others)]
         /\ at' = [at EXCEPT ![p].le = c, ![p].pc = "hang"]
  /\ Loading /\ UNCHANGED lock

\* *qptr = the cell, and AULOCK.
HangCell(p) ==
  /\ Is(p, "hang")
  /\ subp' = [subp EXCEPT ![at[p].node][Index(p)] = at[p].le]
  /\ Released(p)
  /\ Goto(p, "descend")
  /\ Loading /\ UNCHANGED <<bodyp, myncell, mynleaf>>

\* "not enough levels in tree" ends the program.
Descend(p) ==
  /\ Is(p, "descend")
  /\ at' = [at EXCEPT ![p].node = Slot(p), ![p].l = @ + 1,
                      ![p].pc = IF at[p].l + 1 = Levels THEN "error" ELSE "empty?"]
  /\ Loading /\ UNCHANGED <<Tree, lock>>

Load(p) ==
  \/ NextBody(p) \/ LookForNull(p) \/ LockNull(p) \/ InsertLeaf(p) \/ LookForLeaf(p)
  \/ LockLeaf(p) \/ AddBody(p) \/ SubdivideLeaf(p) \/ HangCell(p) \/ Descend(p)

-----------------------------------------------------------------------------
(* hackcofm: the nodes of a process, the last made first.                   *)

Summing == UNCHANGED <<Box, Tree, cost, lock, mybodytab, early>>

SumLeaf(p) ==
  /\ Is(p, "leaves")
  /\ IF at[p].i > mynleaf[p]
     THEN Enter(p, "cells") /\ UNCHANGED Sums
     ELSE LET l == Leaf(p, mynleaf[p] - at[p].i) IN
          /\ mass' = With(mass, l, Len(bodyp[l]))
          /\ costs' = With(costs, l, FoldLeft(LAMBDA sum, b : sum + cost[b], 0, bodyp[l]))
          /\ done' = done \cup {l}
          /\ Again(p, "leaves")
  /\ Summing

\* Fault: the cells in the order they were made in.
SumCell_FirstMadeFirst(p) ==
  /\ Is(p, "cells")
  /\ IF at[p].i > myncell[p]
     THEN Enter(p, "summed") /\ UNCHANGED Sums
     ELSE LET q    == Cell(p, at[p].i - 1)
              r    == subp[q][at[p].k - 1]
              sum(f) == (IF at[p].k = 1 THEN 0 ELSE f[q]) + (IF r = Null THEN 0 ELSE f[r])
              last == at[p].k = NSUB
          IN  /\ r # Null => r \in done
              /\ mass' = With(mass, q, sum(mass))
              /\ costs' = With(costs, q, sum(costs))
              /\ done' = (done \ {r}) \cup (IF last THEN {q} ELSE {})
              /\ IF last THEN Again(p, "cells") ELSE at' = [at EXCEPT ![p].k = @ + 1]
  /\ Summing

\* One child of a cell: while (!Done(r)), its mass and cost, Done(r) = FALSE; after
\* the last one the cell is done itself.
SumCell(p) ==
  /\ Is(p, "cells")
  /\ IF at[p].i > myncell[p]
     THEN Enter(p, "summed") /\ UNCHANGED Sums
     ELSE LET q    == Cell(p, myncell[p] - at[p].i)
              r    == subp[q][at[p].k - 1]
              sum(f) == (IF at[p].k = 1 THEN 0 ELSE f[q]) + (IF r = Null THEN 0 ELSE f[r])
              last == at[p].k = NSUB
          IN  /\ r # Null => r \in done
              /\ mass' = With(mass, q, sum(mass))
              /\ costs' = With(costs, q, sum(costs))
              /\ done' = (done \ {r}) \cup (IF last THEN {q} ELSE {})
              /\ IF last THEN Again(p, "cells") ELSE at' = [at EXCEPT ![p].k = @ + 1]
  /\ Summing

-----------------------------------------------------------------------------
(* find_my_bodies.  The limits are whole numbers, so that the tolerance of  *)
(* 0.1 in the comparisons with them does not matter.                        *)

\* Fault: rounded up.
workMin_RoundedUp(p) == (costs[G_root] * p + NPROC - 1) \div NPROC

workMin(p) == (costs[G_root] * p) \div NPROC

workMax(p) == (costs[G_root] * (p + 1)) \div NPROC + (IF p = NPROC - 1 THEN 1 ELSE 0)

Dividing == UNCHANGED <<Box, Tree, Sums, cost, lock, early>>

\* mynbody = 0, and the root is to be visited.
FindBodies(p) ==
  /\ Is(p, "divide")
  /\ at' = [at EXCEPT ![p].pc = "find", ![p].todo = <<[node |-> G_root, work |-> 0, d |-> 1]>>]
  /\ mybodytab' = [mybodytab EXCEPT ![p] = << >>]
  /\ Dividing

\* A cell, with the work before it: its children that have some of my work are
\* next.  What is read of cells does not change until the next time step.
VisitCell(p) ==
  /\ Is(p, "find") /\ at[p].todo # << >> /\ Type(Head(at[p].todo).node) = "cell"
  /\ LET v         == Head(at[p].todo)
         child     == [i \in DOMAIN Child_Sequence[v.d] |-> subp[v.node][Child_Sequence[v.d][i]]]
         before(i) == v.work + MapThenSumSet(LAMBDA h : costs[child[h]],
                                             {h \in 1 .. i - 1 : child[h] # Null})
         mine      == {i \in DOMAIN child :
                         /\ child[i] # Null
                         /\ before(i) < workMax(p) /\ before(i) + costs[child[i]] >= workMin(p)}
         visit     == [i \in DOMAIN child |->
                         [node |-> child[i], work |-> before(i), d |-> v.d + 1]]
     IN  at' = [at EXCEPT ![p].todo = Part(visit, mine) \o Tail(@)]
  /\ Dividing /\ UNCHANGED mybodytab

\* One body of a leaf: it is mine if the work before it is in my interval.  Its
\* cost is what another process may be changing.
VisitBody(p) ==
  /\ Is(p, "find") /\ at[p].todo # << >> /\ Type(Head(at[p].todo).node) = "leaf"
  /\ LET v     == Head(at[p].todo)
         b     == bodyp[v.node][at[p].k]
         after == v.work + cost[b]
     IN  /\ mybodytab' = [mybodytab EXCEPT ![p] =
                            IF v.work >= workMin(p) THEN Append(@, b) ELSE @]
         /\ at' = [at EXCEPT ![p] =
              IF after >= workMax(p) \/ at[p].k = Len(bodyp[v.node])
              THEN [at[p] EXCEPT !.todo = Tail(@), !.k = 1]
              ELSE [at[p] EXCEPT !.todo[1].work = after, !.k = @ + 1]]
  /\ Dividing

BodiesFound(p) ==
  /\ Is(p, "find") /\ at[p].todo = << >>
  /\ Enter(p, "force")
  /\ Dividing /\ UNCHANGED mybodytab

StillDividing(p) == Is(p, "divide") \/ (Is(p, "find") /\ at[p].todo # << >>)

-----------------------------------------------------------------------------
(* ComputeForces and the rest of stepsystem.                                *)

Computing == UNCHANGED <<Box, Tree, Sums, lock, mybodytab>>

\* Cost(p) = 0, and hackgrav begins.
BeginForce(p) ==
  /\ Is(p, "force")
  /\ IF at[p].i > Len(mybodytab[p])
     THEN Enter(p, "advance") /\ UNCHANGED <<cost, early>>
     ELSE /\ cost' = [cost EXCEPT ![Body(p)] = 0]
          /\ early' = (early \/ \E q \in Proc : StillDividing(q))
          /\ Goto(p, "walk")
  /\ Computing

\* hackgrav ends: the cost is the number of interactions.
EndForce(p) ==
  /\ Is(p, "walk")
  /\ \E c \in Costs : cost' = [cost EXCEPT ![Body(p)] = c]
  /\ Again(p, "force")
  /\ Computing /\ UNCHANGED early

\* My bodies are advanced and their coordinates accumulated under CountLock.
AdvanceBodies(p) ==
  /\ Is(p, "advance")
  /\ minmax' = minmax \cup ToSet(mybodytab[p])
  /\ Enter(p, "advanced")
  /\ UNCHANGED <<place, cube, Tree, Sums, cost, lock, mybodytab, early>>

\* What follows the barrier.  Process 0 computes the new cube, in which all bodies
\* may be elsewhere.  In the next step it makes the root and the others start their
\* tables anew; the program ends after some steps.
EndStep(p) ==
  /\ Is(p, "end")
  /\ IF p = 0 THEN cube' = minmax /\ minmax' = {} /\ place' \in Places
              ELSE UNCHANGED Box
  /\ LET mine   == {n \in DOMAIN subp \cup DOMAIN bodyp : n[2] = p}
         cells  == Restrict(subp, DOMAIN subp \ mine)
     IN  /\ subp' = IF p = 0 THEN With(cells, G_root, NewCell) ELSE cells
         /\ bodyp' = Restrict(bodyp, DOMAIN bodyp \ mine)
         /\ myncell' = [myncell EXCEPT ![p] = IF p = 0 THEN 1 ELSE 0]
         /\ mynleaf' = [mynleaf EXCEPT ![p] = 0]
         /\ done' = done \ mine
         /\ mass' = Restrict(mass, DOMAIN mass \ mine)
         /\ costs' = Restrict(costs, DOMAIN costs \ mine)
  /\ at' = [at EXCEPT ![p].pc = IF at[p].nstep + 1 = Steps THEN "finished" ELSE "start",
                      ![p].nstep = @ + 1]
  /\ UNCHANGED <<cost, lock, mybodytab, early>>

Step(p) ==
  \/ Load(p) \/ SumLeaf(p) \/ SumCell(p)
  \/ FindBodies(p) \/ VisitCell(p) \/ VisitBody(p) \/ BodiesFound(p)
  \/ BeginForce(p) \/ EndForce(p) \/ AdvanceBodies(p) \/ EndStep(p)

Barriers ==
  \/ Barrier("start", "load") \/ Barrier("loaded", "leaves")
  \/ Barrier("summed", "divide") \/ Barrier("advanced", "end")

Next == (\E p \in Proc : Step(p)) \/ Barriers

Spec == Init /\ [][Next]_vars /\ WF_vars(Barriers) /\ \A p \in Proc : WF_vars(Step(p))

-----------------------------------------------------------------------------
All(pc) == \A p \in Proc : Is(p, pc)

\* The places of mybodytab, and how often a body is there.
Copies   == UNION {{p} \X DOMAIN mybodytab[p] : p \in Proc}
Times(b) == Cardinality({c \in Copies : mybodytab[c[1]][c[2]] = b})

\* The nodes on a body's way down, to the last of them.
Way(b) ==
  LET way[l \in 0 .. Levels] ==
        IF l = 0 THEN G_root
        ELSE LET n == way[l - 1]
             IN  IF Type(n) = "cell" THEN subp[n][place[b][l]] ELSE n
  IN  way

WayDown(b) == Way(b)[Levels]

\* Every body is as often as it was loaded in the leaf where a search for it ends
\* and in no other leaf, and no leaf has too many.
BodiesAreInPlace ==
  /\ \A b \in Bodies :
       /\ Times(b) > 0 => WayDown(b) \in DOMAIN bodyp
       /\ \A n \in DOMAIN bodyp : Cardinality({i \in DOMAIN bodyp[n] : bodyp[n][i] = b}) =
                                  IF n = WayDown(b) THEN Times(b) ELSE 0
  /\ \A n \in DOMAIN bodyp : Len(bodyp[n]) \in 1 .. MAX_BODIES_PER_LEAF

\* Every node has the sum of the bodies whose way goes through it, the root of all.
SumsAddUp ==
  \A n \in DOMAIN subp \cup DOMAIN bodyp :
    mass[n] = Cardinality({c \in Copies : n \in Range(Way(mybodytab[c[1]][c[2]]))})

\* When all have loaded their bodies, whatever the interleaving, all bodies are in
\* the tree, and none was outside the cube; when all have gone through their nodes,
\* the sums are complete and only the root's Done flag is still set.
TreeIsComplete ==
  /\ All("loaded") => BodiesAreInPlace /\ \A p \in Proc : ToSet(mybodytab[p]) \subseteq cube
  /\ All("summed") => SumsAddUp /\ done = {G_root}

\* If nobody changed a cost while another was dividing the bodies, every body has
\* one process, whatever the costs and the tree.
EachBodyHasOneProcess ==
  All("advanced") /\ ~early => \A b \in Bodies : Times(b) = 1

\* Every process comes to the end of the program: nobody waits for the Done flag
\* of a node that waits for its own, and no mutex is kept.
Finishes == <>All("finished")

=============================================================================

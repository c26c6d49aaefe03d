----------------------------- MODULE WaterBoxes -----------------------------
(***************************************************************************)
(* The lists of molecules of apps/water-spatial from the barrier in INTERF *)
(* to the end of the time step.  In between, every process goes through    *)
(* the boxes it owns four times: to divide the forces by the masses, in    *)
(* CORREC, which moves the molecules, in BNDRY, which puts those that left *)
(* their box into the box where they are now, and in KINETI.  Nothing but  *)
(* the mutexes of the boxes orders the processes, and only BNDRY takes     *)
(* those, to change a list and not to read it.                             *)
(*                                                                         *)
(* One action is one access to a pointer of the lists, or the two of a     *)
(* critical section that changes one pointer.  KINETI goes through the     *)
(* lists once here instead of once for each direction.                     *)
(***************************************************************************)
EXTENDS Naturals, Sequences, FiniteSets, Functions

CONSTANTS
  Proc, Boxes, Molecules, Null,
  Schedules         \* functions: process -> the sequence of its boxes

ASSUME WaterBoxesAssumption ==
  /\ Null \notin Molecules /\ IsFiniteSet(Molecules)
  /\ Schedules \subseteq [Proc -> Seq(Boxes)]
  /\ \A s \in Schedules :       \* every box has one owner, who has it once
       /\ \A b \in Boxes : \E p \in Proc : \E i \in DOMAIN s[p] : s[p][i] = b
       /\ \A p, q \in Proc : \A i \in DOMAIN s[p], j \in DOMAIN s[q] :
            s[p][i] = s[q][j] => p = q /\ i = j

Phases == <<"divide", "correc", "bndry", "kineti">>
BNDRY  == 3

VARIABLES
  my_boxes,     \* the schedule of this run
  list,         \* box -> the first molecule of its list
  next_mol,     \* molecule -> the next one of its list
  place,        \* molecule -> the box its oxygen atom is in
  boxlock,      \* the boxes whose mutex is taken
  at,           \* process -> where it is, and its pointers
  corrected,    \* history: molecule -> how often it was moved
  early         \* history: a molecule was put into a box whose owner was not yet through BNDRY

vars == <<my_boxes, list, next_mol, place, boxlock, at, corrected, early>>

Owner(b) == CHOOSE p \in Proc : \E i \in DOMAIN my_boxes[p] : my_boxes[p][i] = b

Box(p) == my_boxes[p][at[p].box]

\* The molecules that box b's list leads to: those in every set that has its
\* first one and with a molecule the next one.
Chain(b) ==
  LET closed(S) == list[b] \in S /\ \A m \in S \ {Null} : next_mol[m] \in S
  IN  {m \in Molecules : \A S \in SUBSET (Molecules \cup {Null}) : closed(S) => m \in S}

Through(p, ph) == at[p].phase > ph

-----------------------------------------------------------------------------
\* The lists for a choice of boxes; order settles the order within each list.
Arranged(order, where) ==
  LET after(i) == {j \in DOMAIN order : j > i /\ where[order[j]] = where[order[i]]}
      first(S) == CHOOSE j \in S : \A k \in S : j <= k
      of(b)    == {j \in DOMAIN order : where[order[j]] = b}
  IN  /\ list = [b \in Boxes |-> IF of(b) = {} THEN Null ELSE order[first(of(b))]]
      /\ next_mol = [m \in Molecules |->
           LET i == CHOOSE j \in DOMAIN order : order[j] = m
           IN  IF after(i) = {} THEN Null ELSE order[first(after(i))]]

Init ==
  /\ my_boxes \in Schedules
  /\ place \in [Molecules -> Boxes]
  /\ Arranged(CHOOSE order \in Bijection(1 .. Cardinality(Molecules), Molecules) : TRUE, place)
  /\ boxlock = {}
  /\ at = [p \in Proc |-> [ phase |-> IF my_boxes[p] = << >> THEN Len(Phases) + 1 ELSE 1, box |-> 1, pc |-> "enter",
                            curr |-> Null, next |-> Null, last |-> Null, temp |-> Null, to |-> Null ]]
  /\ corrected = [m \in Molecules |-> 0]
  /\ early = FALSE

\* A process in some phase, at a place of its code with a molecule.
Is(p, phases, pc) == ~Through(p, Len(Phases)) /\ Phases[at[p].phase] \in phases /\ at[p].pc = pc
Meets(p, phase)   == Is(p, {phase}, "loop") /\ at[p].curr # Null

\* The pointers that are not used again are reset.
Pointers(p, pc, curr, last) ==
  [at[p] EXCEPT !.pc = pc, !.curr = curr, !.last = last, !.next = Null, !.temp = Null, !.to = Null]

\* curr_ptr = BOX[i][j][k].list
Enter(p) ==
  /\ Is(p, Range(Phases), "enter")
  /\ at' = [at EXCEPT ![p] = Pointers(p, "loop", list[Box(p)], Null)]
  /\ UNCHANGED <<my_boxes, list, next_mol, place, boxlock, corrected, early>>

\* The list has ended: to the next box, or with the first one to the next phase.
Leave(p) ==
  /\ Is(p, Range(Phases), "loop") /\ at[p].curr = Null
  /\ LET left == Pointers(p, "enter", Null, Null) IN
     at' = [at EXCEPT ![p] = IF left.box < Len(my_boxes[p])
                             THEN [left EXCEPT !.box = @ + 1]
                             ELSE [left EXCEPT !.box = 1, !.phase = @ + 1]]
  /\ UNCHANGED <<my_boxes, list, next_mol, place, boxlock, corrected, early>>

\* The loops that change nothing here: curr_ptr = curr_ptr->next_mol.
Follow(p) ==
  /\ Meets(p, "divide") \/ Meets(p, "kineti")
  /\ at' = [at EXCEPT ![p].curr = next_mol[@]]
  /\ UNCHANGED <<my_boxes, list, next_mol, place, boxlock, corrected, early>>

\* CORREC changes the position: the molecule may be in any box then.
Correct(p) ==
  /\ Meets(p, "correc")
  /\ \E b \in Boxes : place' = [place EXCEPT ![at[p].curr] = b]
  /\ corrected' = [corrected EXCEPT ![at[p].curr] = IF @ = 0 THEN 1 ELSE 2]
  /\ at' = [at EXCEPT ![p].curr = next_mol[@]]
  /\ UNCHANGED <<my_boxes, list, next_mol, boxlock, early>>

\* next_ptr = curr_ptr->next_mol, and X_INDEX, Y_INDEX and Z_INDEX: the molecule
\* stays in the list or has to move.
Stay(p) ==
  /\ Meets(p, "bndry") /\ place[at[p].curr] = Box(p)
  /\ at' = [at EXCEPT ![p] = Pointers(p, "loop", next_mol[at[p].curr], at[p].curr)]
  /\ UNCHANGED <<my_boxes, list, next_mol, place, boxlock, corrected, early>>

Move(p) ==
  /\ Meets(p, "bndry") /\ place[at[p].curr] # Box(p)
  /\ at' = [at EXCEPT ![p].next = next_mol[at[p].curr], ![p].to = place[at[p].curr], ![p].pc = "remove"]
  /\ UNCHANGED <<my_boxes, list, next_mol, place, boxlock, corrected, early>>

\* Fault: the molecule before is not linked to the one after.
Remove_HeadOnly(p) ==
  /\ Is(p, {"bndry"}, "remove") /\ Box(p) \notin boxlock
  /\ list' = [list EXCEPT ![Box(p)] = next_mol[at[p].curr]]
  /\ at' = [at EXCEPT ![p].pc = "push"]
  /\ UNCHANGED <<my_boxes, next_mol, place, boxlock, corrected, early>>

\* Fault: the mutex of this box is kept while that of the other is taken.
Remove_NoUnlock(p) ==
  /\ Is(p, {"bndry"}, "remove") /\ Box(p) \notin boxlock
  /\ IF at[p].last # Null
     THEN /\ next_mol' = [next_mol EXCEPT ![at[p].last] = next_mol[at[p].curr]]
          /\ list' = list
     ELSE /\ list' = [list EXCEPT ![Box(p)] = next_mol[at[p].curr]]
          /\ next_mol' = next_mol
  /\ boxlock' = boxlock \cup {Box(p)}
  /\ at' = [at EXCEPT ![p].pc = "push"]
  /\ UNCHANGED <<my_boxes, place, corrected, early>>

\* Takes the molecule out of the list of this box, under the mutex of the box.
Remove(p) ==
  /\ Is(p, {"bndry"}, "remove") /\ Box(p) \notin boxlock
  /\ IF at[p].last # Null
     THEN /\ next_mol' = [next_mol EXCEPT ![at[p].last] = next_mol[at[p].curr]]
          /\ list' = list
     ELSE /\ list' = [list EXCEPT ![Box(p)] = next_mol[at[p].curr]]
          /\ next_mol' = next_mol
  /\ at' = [at EXCEPT ![p].pc = "push"]
  /\ UNCHANGED <<my_boxes, place, boxlock, corrected, early>>

\* Makes it the first of the other box's list: LOCK, temp_ptr and list.
Push(p) ==
  /\ Is(p, {"bndry"}, "push") /\ at[p].to \notin boxlock
  /\ boxlock' = boxlock \cup {at[p].to}
  /\ list' = [list EXCEPT ![at[p].to] = at[p].curr]
  /\ at' = [at EXCEPT ![p].temp = list[at[p].to], ![p].pc = "link"]
  /\ early' = (early \/ (Owner(at[p].to) # p /\ ~Through(Owner(at[p].to), BNDRY)))
  /\ UNCHANGED <<my_boxes, next_mol, place, corrected>>

\* curr_ptr->next_mol = temp_ptr and UNLOCK.
Link(p) ==
  /\ Is(p, {"bndry"}, "link")
  /\ next_mol' = [next_mol EXCEPT ![at[p].curr] = at[p].temp]
  /\ boxlock' = boxlock \ {at[p].to}
  /\ at' = [at EXCEPT ![p] = Pointers(p, "loop", at[p].next, at[p].last)]
  /\ UNCHANGED <<my_boxes, list, place, corrected, early>>

Step(p) ==
  \/ Enter(p) \/ Leave(p) \/ Follow(p) \/ Correct(p)
  \/ Stay(p) \/ Move(p) \/ Remove(p) \/ Push(p) \/ Link(p)

AtBarrier == \A p \in Proc : Through(p, Len(Phases))

Next == \E p \in Proc : Step(p)

Spec == Init /\ [][Next]_vars /\ \A p \in Proc : WF_vars(Step(p))

-----------------------------------------------------------------------------
\* bndry.C:69: "If O atom moves out of current box, put it in correct box".
EveryMoleculeIsInItsBox ==
  AtBarrier => \A m \in Molecules, b \in Boxes : m \in Chain(b) <=> place[m] = b

\* If every box gets molecules of others only when its owner is through BNDRY,
\* then at the end of the step every molecule is in the list of the box it is in,
\* in no other list, and CORREC has moved it once.
LateMovesAreSafe ==
  AtBarrier /\ ~early => /\ EveryMoleculeIsInItsBox
                         /\ \A m \in Molecules : corrected[m] = 1

\* On the same condition every process gets to the barrier.
StepEnds == <>(AtBarrier \/ early)

=============================================================================

---------------------------- MODULE WaterSpatial ----------------------------
(***************************************************************************)
(* apps/water-spatial.  Space is divided into boxes, the boxes among the   *)
(* processes.  A molecule is in the list of its box, and a process         *)
(* computes the forces on the molecules of its boxes from those in the     *)
(* boxes around.  A location stands for a quantity of all the molecules of *)
(* a box; here no molecule leaves its box: WaterBoxes is about those that  *)
(* do.                                                                     *)
(***************************************************************************)
EXTENDS Footprint, FiniteSetsExt

\* main accepts no more processes than there are boxes.
CONSTANTS NumProcs, BOX_PER_SIDE, NORDER, NSTEP, NPRINT

Side == 0 .. BOX_PER_SIDE - 1
Box  == Side \X Side \X Side

DISP   == 0
VEL    == 1
ACC    == 2
FORCES == NORDER + 1

F(I, S) == {<<"F", i, b>> : i \in I, b \in S}
VM(S)   == {<<"VM", 0, b>> : b \in S}
\* The list of a box and the links of its molecules.
BOX(S)  == {<<"BOX", 0, b>> : b \in S}
gl(X)   == {<<"gl", 0, x>> : x \in X}
SUM     == gl({"SUM0", "SUM1", "SUM2"})

my_boxes(p)  == {<<"my_boxes", p, 0>>}
start_end(p) == {<<"start_end", p, 0>>}

Guarded(lock, f) == Locked(<<lock, 0>>, f)

-----------------------------------------------------------------------------
(* The boxes of a process and the boxes around a box.                        *)

xprocs == Max({j \in 1 .. NumProcs : j * j * j <= NumProcs /\ NumProcs % j = 0})
yprocs == Max({k \in 1 .. NumProcs : k * k <= NumProcs \div xprocs /\ NumProcs % (xprocs * k) = 0})
zprocs == NumProcs \div (xprocs * yprocs)

\* The shares of the first processes of a direction are greater by one.
Share(procs, i) ==
  LET inc      == BOX_PER_SIDE \div procs
      first(n) == n * inc + Min({n, BOX_PER_SIDE % procs})
  IN  first(i) .. Min({first(i + 1), BOX_PER_SIDE}) - 1

Mine(p) ==
  Share(xprocs, p \div (yprocs * zprocs)) \X
  Share(yprocs, (p \div zprocs) % yprocs) \X
  Share(zprocs, p % zprocs)

Wrapped(c) ==
  [d \in 1 .. 3 |-> CASE c[d] = -1 -> c[d] + BOX_PER_SIDE
                      [] c[d] >= BOX_PER_SIDE -> c[d] - BOX_PER_SIDE
                      [] OTHER -> c[d]]

\* Where the loops over the nearest boxes do not go on to the next.
Visited(b) ==
  {c \in (b[1] - 1 .. b[1] + 1) \X (b[2] - 1 .. b[2] + 1) \X (b[3] - 1 .. b[3] + 1) :
     /\ BOX_PER_SIDE = 2 => c \in Box
     /\ Wrapped(c) = b => c = b}

Near(p) == UNION {{Wrapped(c) : c \in Visited(b)} : b \in Mine(p)}

-----------------------------------------------------------------------------
(* The phases of a time step.  Each goes through the lists of its boxes.     *)

OverMine(p, f) == Then(Read(my_boxes(p) \cup BOX(Mine(p))), f)

INTRAF(p) ==
  Work(OverMine(p, Then(Foot(F({DISP}, Mine(p)), VM(Mine(p)) \cup F({FORCES}, Mine(p))),
                        Read(F({DISP, FORCES}, Mine(p)))))) \o
  Guarded("IntrafVirLock", Update(gl({"VIR"})))

\* The forces on the molecules of p's boxes, from those in the boxes around.
UPDATE_FORCES(DEST, p) == Update(F({DEST}, Mine(p)))

INTERF(DEST, p) ==
  Work(OverMine(p, Then(Read(BOX(Near(p)) \cup F({DISP}, Near(p)) \cup VM(Near(p))),
                        UPDATE_FORCES(DEST, p)))) \o
  Guarded("InterfVirLock", Update(gl({"VIR"}))) \o
  BARRIER("InterfBar") \o
  Work(OverMine(p, Update(F({DEST}, Mine(p)))))

PREDIC(p) ==
  OverMine(p, Each({Foot(F(func .. NORDER, Mine(p)), F({func}, Mine(p))) : func \in 0 .. NORDER - 1}))

CORREC(p) ==
  OverMine(p, Then(Read(F({FORCES, ACC}, Mine(p))), Update(F(0 .. NORDER, Mine(p)))))

BNDRY(p) == OverMine(p, Update(F({DISP}, Mine(p))))

KINETI(p) ==
  Loop(0, 2, LAMBDA dir :
    Work(OverMine(p, Read(F({VEL}, Mine(p))))) \o
    Guarded("KinetiSumLock", Update(gl({<<"SUM0", "SUM1", "SUM2">>[dir + 1]}))))

POTENG(p) ==
  Work(OverMine(p, Foot(F({DISP}, Mine(p)), VM(Mine(p))))) \o BARRIER("PotengBar") \o
  Work(OverMine(p, Read(BOX(Near(p)) \cup F({DISP}, Near(p)) \cup VM(Near(p))))) \o
  Guarded("PotengSumLock", Update(gl({"POTA", "POTR", "POTRF"})))

-----------------------------------------------------------------------------
\* From the second step on, process 0 measures the time.
Clock(p, i, f) == Work(When(p = 0 /\ i >= 2, f))
Span(sum, from, to) ==
  Then(Write(gl({to})), Then(Read(gl({from, to})), Update(gl({sum}))))

MakeMyBoxes(p) == Then(Read(start_end(p)), Update(my_boxes(p)))

MDMAIN(p) ==
  Work(MakeMyBoxes(p)) \o
  INTRAF(p) \o BARRIER("start") \o INTERF(ACC, p) \o BARRIER("start") \o
  Loop(1, NSTEP, LAMBDA i :
    Work(When(p = 0, Write(SUM \cup gl({"VIR", "POTA", "POTR", "POTRF"})))) \o
    Clock(p, i, Write(gl({"trackstart", "intrastart"}))) \o
    BARRIER("start") \o
    Work(PREDIC(p)) \o INTRAF(p) \o
    BARRIER("start") \o
    Clock(p, i, Then(Span("intratime", "intrastart", "intraend"), Write(gl({"interstart"})))) \o
    INTERF(FORCES, p) \o
    Clock(p, i, Span("intertime", "interstart", "interend")) \o
    Work(CORREC(p)) \o Work(BNDRY(p)) \o KINETI(p) \o
    BARRIER("start") \o
    Clock(p, i, Span("intratime", "interend", "intraend")) \o
    Work(Read(SUM \cup gl({"VIR"}))) \o
    If(i % NPRINT = 0,
       Clock(p, i, Write(gl({"interstart"}))) \o POTENG(p) \o BARRIER("start") \o
       Clock(p, i, Span("intertime", "interstart", "interend")) \o
       Work(Read(SUM \cup gl({"POTA", "POTR", "POTRF"}))) \o
       If(p = 0, Guarded("IOLock", Nothing))) \o
    BARRIER("start") \o
    Clock(p, i, Span("tracktime", "trackstart", "trackend")))

WorkStart(p) ==
  Created \o Guarded("IndexLock", Update(gl({"Index"}))) \o
  MDMAIN(p) \o Work(When(p = 0, Write(gl({"XTT"}))))

Allocate == Write(BOX(Box) \cup UNION {start_end(p) \cup my_boxes(p) : p \in 0 .. NumProcs - 1})

INITIA == Then(Update(BOX(Box)), Write(F({DISP, VEL} \cup (ACC .. NORDER), Box)))

main ==
  Work(InOrder(<<Allocate, INITIA,
                 Write(gl({"tracktime", "intratime", "intertime", "Index", "computestart"}))>>)) \o
  CREATE \o WAIT_FOR_END \o
  Work(Then(Write(gl({"computeend"})),
            Read(gl({"computestart", "computeend", "tracktime", "intratime", "intertime", "XTT"}))))

Code == Program([p \in 0 .. NumProcs - 1 |-> WorkStart(p)], main)

\* VIR before the first time step, where it is set to zero.
EarlyVIR == gl({"VIR"})

-----------------------------------------------------------------------------
\* Every box has one process, and that process goes once through every box that
\* is the same, or next to it, when the sides of space are joined.
AddsAllForces ==
  /\ \A b \in Box : Cardinality({p \in 0 .. NumProcs - 1 : b \in Mine(p)}) = 1
  /\ \A b, n \in Box :
       Cardinality({c \in Visited(b) : Wrapped(c) = n}) =
         IF \A d \in 1 .. 3 : (b[d] - n[d]) % BOX_PER_SIDE \in {0, 1, BOX_PER_SIDE - 1} THEN 1 ELSE 0

=============================================================================

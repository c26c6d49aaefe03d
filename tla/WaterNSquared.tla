--------------------------- MODULE WaterNSquared ---------------------------
(***************************************************************************)
(* apps/water-nsquared.  Molecules are divided among the processes in      *)
(* runs of consecutive numbers.  The forces between two molecules are      *)
(* computed by the process of one of them, collected in an array of its    *)
(* own, and then added to the shared molecules under a mutex of each.      *)
(* A location stands for the three atoms and directions of a quantity.     *)
(***************************************************************************)
EXTENDS Footprint, FiniteSetsExt

CONSTANTS NumProcs, NMOL, NORDER, NSTEP, NPRINT, MAXLCKS

Molecules   == 0 .. NMOL - 1
MolsPerProc == NMOL \div NumProcs

StartMol(ProcID) == IF ProcID = NumProcs THEN NMOL ELSE ProcID * MolsPerProc
Mine(ProcID)     == StartMol(ProcID) .. StartMol(ProcID + 1) - 1

\* F[func] of a molecule: the position, its derivatives of order 1 .. NORDER, and
\* the forces.
DISP   == 0
VEL    == 1
ACC    == 2
FORCES == NORDER + 1

F(I, S)      == {<<"F", i, mol>> : i \in I, mol \in S}
VM(S)        == {<<"VM", 0, mol>> : mol \in S}
PFORCES(p, S) == {<<"PFORCES", p, mol>> : mol \in S}
gl(X)        == {<<"gl", 0, x>> : x \in X}
SUM          == gl({"SUM0", "SUM1", "SUM2"})

Guarded(lock, f) == Locked(<<lock, 0>>, f)

-----------------------------------------------------------------------------
(* Which molecules interact with mol: those of the half circle after it.  If *)
(* NMOL is even, every other molecule leaves out the one opposite to it.     *)

\* Fault: nobody leaves out the molecule opposite to it.
comp_last_WholeHalf(mol) == mol + NMOL \div 2

comp_last(mol) ==
  LET half_mol == NMOL \div 2
      last     == mol + half_mol
      skips    == NMOL % 2 = 0 /\ IF half_mol <= mol THEN mol % 2 = 0 ELSE last % 2 = 1
  IN  IF skips THEN last - 1 ELSE last

Partners(mol) == {icomp % NMOL : icomp \in mol + 1 .. comp_last(mol)}

\* What a process computes forces for, and the molecules it adds them to in the
\* end: as far as the last partner of its last molecule.
Touched(ProcID) == UNION {{mol} \cup Partners(mol) : mol \in {m \in Mine(ProcID) : Partners(m) # {}}}
Added(ProcID) ==
  LET first == StartMol(ProcID)
      last  == comp_last(StartMol(ProcID + 1) - 1)
  IN  [i \in 1 .. Min({last - first + 1, NMOL}) |-> (first + i - 1) % NMOL]

-----------------------------------------------------------------------------
(* The phases of a time step.                                                *)

INTRAF(p) ==
  Work(Then(Foot(F({DISP}, Mine(p)), VM(Mine(p)) \cup F({FORCES}, Mine(p))),
            Read(F({DISP, FORCES}, Mine(p))))) \o
  Guarded("IntrafVirLock", Update(gl({"VIR"})))

\* What is computed for two molecules, collected for both.
UPDATE_FORCES(p) == Update(PFORCES(p, Touched(p)))

INTERF(DEST, p) ==
  Work(InOrder(<<Write(PFORCES(p, Molecules)),
                 Read(F({DISP}, Touched(p)) \cup VM(Touched(p))),
                 UPDATE_FORCES(p)>>)) \o
  Guarded("InterfVirLock", Update(gl({"VIR"}))) \o
  Loop(1, Len(Added(p)), LAMBDA i :
    LET mol == Added(p)[i] IN
    Locked(<<"MolLock", mol % MAXLCKS>>,
           Then(Read(PFORCES(p, {mol})), Update(F({DEST}, {mol}))))) \o
  BARRIER("InterfBar") \o
  Work(Update(F({DEST}, Mine(p))))

PREDIC(p) ==
  Each({Foot(F(func .. NORDER, Mine(p)), F({func}, Mine(p))) : func \in 0 .. NORDER - 1})

CORREC(p) == Then(Read(F({FORCES, ACC}, Mine(p))), Update(F(0 .. NORDER, Mine(p))))
BNDRY(p)  == Update(F({DISP}, Mine(p)))

KINETI(p) ==
  Loop(0, 2, LAMBDA dir :
    Work(Read(F({VEL}, Mine(p)))) \o
    Guarded("KinetiSumLock", Update(gl({<<"SUM0", "SUM1", "SUM2">>[dir + 1]}))))

POTENG(p) ==
  Work(Foot(F({DISP}, Mine(p)), VM(Mine(p)))) \o BARRIER("PotengBar") \o
  Work(Read(F({DISP}, Touched(p)) \cup VM(Touched(p)))) \o
  Guarded("PotengSumLock", Update(gl({"POTA", "POTR", "POTRF"})))

-----------------------------------------------------------------------------
\* From the second step on, process 0 measures the time.
Clock(p, i, f) == Work(When(p = 0 /\ i >= 2, f))
intratime == Then(Read(gl({"intrastart"})), Then(Write(gl({"intraend"})), Update(gl({"intratime"}))))
intertime == Then(Read(gl({"interstart"})), Then(Write(gl({"interend"})), Update(gl({"intertime"}))))
tracktime == Then(Read(gl({"trackstart"})), Then(Write(gl({"trackend"})), Update(gl({"tracktime"}))))

MDMAIN(p) ==
  INTRAF(p) \o BARRIER("start") \o INTERF(ACC, p) \o BARRIER("start") \o
  Loop(1, NSTEP, LAMBDA i :
    Work(When(p = 0, Write(SUM \cup gl({"VIR", "POTA", "POTR", "POTRF"})))) \o
    Clock(p, i, Write(gl({"trackstart", "intrastart"}))) \o
    BARRIER("start") \o
    Work(PREDIC(p)) \o INTRAF(p) \o
    BARRIER("start") \o
    Clock(p, i, Then(intratime, Write(gl({"interstart"})))) \o
    INTERF(FORCES, p) \o
    Clock(p, i, Then(intertime, Write(gl({"intrastart"})))) \o
    Work(CORREC(p)) \o Work(BNDRY(p)) \o KINETI(p) \o
    BARRIER("start") \o
    Clock(p, i, intratime) \o Work(Read(SUM \cup gl({"VIR"}))) \o
    If(i % NPRINT = 0,
       Clock(p, i, Write(gl({"interstart"}))) \o POTENG(p) \o BARRIER("start") \o
       Clock(p, i, intertime) \o Work(Read(SUM \cup gl({"POTA", "POTR", "POTRF"})))) \o
    BARRIER("start") \o
    Clock(p, i, tracktime))

WorkStart(p) ==
  Created \o Guarded("IndexLock", Update(gl({"Index"}))) \o
  MDMAIN(p) \o Work(When(p = 0, Write(gl({"XTT"}))))

INITIA == Write(F({DISP, VEL} \cup (ACC .. NORDER), Molecules))

main ==
  Work(Then(INITIA, Write(gl({"tracktime", "intratime", "intertime", "Index", "computestart"})))) \o
  CREATE \o WAIT_FOR_END \o
  Work(Then(Write(gl({"computeend"})),
            Read(gl({"computestart", "computeend", "tracktime", "intratime", "intertime", "XTT"}))))

Code == Program([p \in 0 .. NumProcs - 1 |-> WorkStart(p)], main)

\* VIR before the first time step, where it is set to zero.
EarlyVIR == gl({"VIR"})

-----------------------------------------------------------------------------
\* Any two molecules interact once, and whatever a process has computed for a
\* molecule is added to it, once.
AddsAllForces ==
  /\ \A m, n \in Molecules :
       m < n => Cardinality({ab \in {<<m, n>>, <<n, m>>} : ab[2] \in Partners(ab[1])}) = 1
  /\ \A p \in 0 .. NumProcs - 1 :
       \A mol \in Touched(p) : Cardinality({i \in DOMAIN Added(p) : Added(p)[i] = mol}) = 1

=============================================================================

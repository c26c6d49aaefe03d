-------------------------- MODULE OceanContiguous --------------------------
(***************************************************************************)
(* apps/ocean/contiguous_partitions with every option on.  Each process    *)
(* keeps its part of every grid in an array of its own, with a row and a   *)
(* column more on each side: the border of the grid, or ghosts, copies of  *)
(* the points of its neighbours that each phase takes anew.  A location is *)
(* <<array, index or level, process, row, column>> with local coordinates. *)
(*                                                                         *)
(* main chooses xprocs <= yprocs, both powers of two, and im - 2 is one.   *)
(*                                                                         *)
(* cycle is the sequence of decisions the loop of multig takes, as in      *)
(* OceanNonContiguous.                                                     *)
(***************************************************************************)
EXTENDS Footprint, FiniteSetsExt

CONSTANTS xprocs, yprocs, im, steps

nprocs == xprocs * yprocs
Procs  == 0 .. nprocs - 1
MASTER == 0

\* A level needs two points per process in each direction.
numlev == Cardinality({n \in 1 .. im : 2^(n - 1) < im - 2 /\ 2^n \div yprocs > 1 /\ 2^n \div xprocs > 1})
top    == numlev - 1
points(k) == (im - 2) \div 2^(top - k)            \* imx[k] - 2, of the whole grid
ypts_per_proc(k) == points(k) \div yprocs
xpts_per_proc(k) == points(k) \div xprocs

-----------------------------------------------------------------------------
(* subblock.C: the part of a process, its neighbours, its ghosts.           *)

rownum(p) == p \div xprocs
colnum(p) == p % xprocs

UP(p)    == IF rownum(p) > 0 THEN p - xprocs ELSE -1
DOWN(p)  == IF rownum(p) < yprocs - 1 THEN p + xprocs ELSE -1
LEFT(p)  == IF colnum(p) > 0 THEN p - 1 ELSE -1
RIGHT(p) == IF colnum(p) < xprocs - 1 THEN p + 1 ELSE -1

rows(k)  == 1 .. ypts_per_proc(k)
cols(k)  == 1 .. xpts_per_proc(k)
Inner(k) == rows(k) \X cols(k)

Array(k) == (0 .. ypts_per_proc(k) + 1) \X (0 .. xpts_per_proc(k) + 1)

\* The points that are the process's: its inner ones and the border of the grid.
Own(p, k) ==
  (rows(k) \cup (IF UP(p) = -1 THEN {0} ELSE {})
           \cup (IF DOWN(p) = -1 THEN {ypts_per_proc(k) + 1} ELSE {})) \X
  (cols(k) \cup (IF LEFT(p) = -1 THEN {0} ELSE {})
           \cup (IF RIGHT(p) = -1 THEN {xpts_per_proc(k) + 1} ELSE {}))

Edges(p)   == {s \in Own(p, top) \ Inner(top) : s[1] \in rows(top) \/ s[2] \in cols(top)}
Corners(p) == Own(p, top) \ (Inner(top) \cup Edges(p))

at(x, p, S) == {<<x[1], x[2], p, s[1], s[2]>> : s \in S}

\* The point of the whole grid that a ghost is, and the location of its owner.
Global(p, k, s) == <<rownum(p) * ypts_per_proc(k) + s[1], colnum(p) * xpts_per_proc(k) + s[2]>>
Original(x, p, k, s) ==
  LET g == Global(p, k, s)
      l(q) == <<g[1] - rownum(q) * ypts_per_proc(k), g[2] - colnum(q) * xpts_per_proc(k)>>
      q == CHOOSE q \in Procs : l(q) \in Own(q, k)
  IN  <<x[1], x[2], q, l(q)[1], l(q)[2]>>

Ghosts(p, k)     == Array(k) \ Own(p, k)
EdgeGhosts(p, k) == {s \in Ghosts(p, k) : s[1] \in rows(k) \/ s[2] \in cols(k)}

Copied(x, p, k, S) == Foot({Original(x, p, k, s) : s \in S}, at(x, p, S))

Shifted(S, D) == {<<s[1] + d[1], s[2] + d[2]>> : s \in S, d \in D}
Cross   == {<<0, 0>>, <<-1, 0>>, <<1, 0>>, <<0, -1>>, <<0, 1>>}
Square  == (-1 .. 1) \X (-1 .. 1)

psi(n)       == <<"psi", n>>
psim(n)      == <<"psim", n>>
work1(n)     == <<"work1", n>>
work4(n)     == <<"work4", n>>
work5(n)     == <<"work5", n>>
work7(n)     == <<"work7", n>>
temparray(n) == <<"temparray", n>>
q_multi(k)   == <<"q_multi", k>>
rhs_multi(k) == <<"rhs_multi", k>>
the(x)       == <<x, 0>>
one(x)       == at(the(x), 0, {<<0, 0>>})
f(I)         == at(the("f"), 0, {0} \X I)
gp(p)        == at(the("gp"), p, {<<0, 0>>})
total(p)     == at(the("total_time"), p, {<<0, 0>>})
multitime(p) == at(the("multi_time"), p, {<<0, 0>>})

\* z := an expression in the arrays of X, point by point, over all that is p's.
ByPoint(z, X, p) == Foot(UNION {at(x, p, Own(p, top)) : x \in X}, at(z, p, Own(p, top)))

-----------------------------------------------------------------------------
laplacalc(x, z, p) ==
  InOrder(<<Copied(x, p, top, EdgeGhosts(p, top)),
            Foot(at(x, p, Shifted(Inner(top), Cross)), at(z, p, Inner(top) \cup Edges(p)))>>)

\* Corners included, which take three steps in the code.
GhostsOfBoth(x, y, p) == Then(Copied(x, p, top, Ghosts(p, top)), Copied(y, p, top, Ghosts(p, top)))

jacobcalc(x, y, z, p) ==
  Then(GhostsOfBoth(x, y, p),
       Foot(at(x, p, Shifted(Inner(top), Square)) \cup
            at(y, p, Shifted(Inner(top), Square \ {<<0, 0>>})),
            at(z, p, Own(p, top))))

\* The same on arrays of two grids, of which the caller names one.
jacobcalc2(x, y, z, p) == jacobcalc(x, y, z, p)

-----------------------------------------------------------------------------
(* multi.C.                                                                 *)

RED_ITER   == 0
BLACK_ITER == 1

Coloured(S, color) == {s \in S : (s[1] + s[2]) % 2 = color}

relax(k, color, p) ==
  LET S == Coloured(Inner(k), color)
  IN  Foot(at(q_multi(k), p, Shifted(S, Cross)) \cup at(rhs_multi(k), p, S), at(q_multi(k), p, S))

copy_red(k, p)     == Copied(q_multi(k), p, k, Coloured(EdgeGhosts(p, k), RED_ITER))
copy_black(k, p)   == Copied(q_multi(k), p, k, Coloured(EdgeGhosts(p, k), BLACK_ITER))
copy_borders(k, p) == Copied(q_multi(k), p, k, Ghosts(p, k))

\* Those that rescal needs: of the row above and the column on the left.
copy_rhs_borders(k, p) ==
  LET even(s) == s[1] % 2 = 0 /\ s[2] % 2 = 0
      above   == {s \in {0} \X cols(k) : UP(p) # -1 /\ even(s)}
      left    == {s \in rows(k) \X {0} : LEFT(p) # -1 /\ even(s)}
      corner  == {s \in {<<0, 0>>} : UP(p) # -1 /\ LEFT(p) # -1}
  IN  Copied(rhs_multi(k), p, k, above \cup left \cup corner)

\* Half-injection.  What lies a row above the ghosts, or a column to the left of
\* them, is read from the neighbour's array.
rescal(kf, p) ==
  LET atBorder(s) == (s[1] = 1 /\ UP(p) = -1) \/ (s[2] = 1 /\ LEFT(p) = -1)
      Fine(s) == IF atBorder(s) THEN {<<2 * s[1], 2 * s[2]>>}
                 ELSE {2 * s[1], 2 * s[1] - 2} \X {2 * s[2], 2 * s[2] - 2}
      S       == UNION {Fine(s) : s \in Inner(kf - 1)}
      Place(s) == CASE s[1] = -1 -> <<UP(p), ypts_per_proc(kf) - 1, s[2]>>
                    [] s[2] = -1 -> <<LEFT(p), s[1], xpts_per_proc(kf) - 1>>
                    [] OTHER     -> <<p, s[1], s[2]>>
  IN  Foot({<<"q_multi", kf>> \o Place(s) : s \in Shifted(S, Cross)} \cup at(rhs_multi(kf), p, S),
           at(rhs_multi(kf - 1), p, Inner(kf - 1)))

tolerance(k) == at(the("lev_tol"), k, {<<0, 0>>})

intadd(kc, p) ==
  LET Fine(s) == {2 * s[1] - 1, 2 * s[1]} \X {2 * s[2] - 1, 2 * s[2]}
  IN  Then(Read(at(q_multi(kc), p, Shifted(Inner(kc), Square))),
           Update(at(q_multi(kc + 1), p, UNION {Fine(s) : s \in Inner(kc)})))

\* From row and column 1 to one past the last.
putz(k, p) == Write(at(q_multi(k), p, (1 .. ypts_per_proc(k) + 1) \X (1 .. xpts_per_proc(k) + 1)))

\* Never written before Phase1 reads it.
Work3 == UNION {at(the("work3"), p, Own(p, top)) : p \in Procs}

\* A coarse grid's border above and on the left, which putz leaves out.
CoarseBorder ==
  UNION {at(q_multi(k), p, {s \in Array(k) : s[1] = 0 \/ s[2] = 0}) : k \in 0 .. top - 1, p \in Procs}

Level(cycle, n) ==
  LET taken(d) == Cardinality({i \in 1 .. n - 1 : cycle[i] = d})
  IN  top - taken("coarser") + taken("finer")

Legal(cycle) ==
  \A n \in 1 .. Len(cycle) :
    LET k == Level(cycle, n) IN
    /\ cycle[n] = "coarser" => k > 0 /\ n > 1 /\ cycle[n - 1] = "again"
    /\ cycle[n] = "finer" => k < top
    /\ (cycle[n] = "done") = (n = Len(cycle))
    /\ cycle[n] = "done" => k = top

Decide(decision, k, p) ==
  CASE decision = "coarser" ->
         Work(Then(copy_borders(k, p), copy_rhs_borders(k, p))) \o BARRIER("barrier") \o
         Work(InOrder(<<rescal(k, p), Agree(tolerance(k - 1)), putz(k - 1, p)>>))
    [] decision = "finer" -> Work(Then(copy_borders(k, p), intadd(k, p)))
    [] OTHER -> Skip

multig(cycle, p) ==
  Loop(1, Len(cycle), LAMBDA n :
    LET k == Level(cycle, n) IN
    Work(When(p = MASTER, Write(one("err_multi")))) \o BARRIER("barrier") \o
    Work(Then(copy_black(k, p), relax(k, RED_ITER, p))) \o BARRIER("barrier") \o
    Work(Then(copy_red(k, p), relax(k, BLACK_ITER, p))) \o
    Locked("error_lock", Update(one("err_multi"))) \o BARRIER("barrier") \o
    Work(Read(one("err_multi"))) \o BARRIER("barrier") \o
    Work(Read(tolerance(k))) \o Decide(cycle[n], k, p)) \o
  Work(When(p = MASTER, Read(one("err_multi"))))

\* Right-hand side and border of the equation for x, and the solution taken back.
Pose(x, p) ==
  LET border == Own(p, top) \ Inner(top) IN
  Then(Foot(at(x, p, Own(p, top)), at(rhs_multi(top), p, Own(p, top))),
       Foot(at(x, p, border), at(q_multi(top), p, border)))

Take(X, p) == Foot(at(q_multi(top), p, Own(p, top)), UNION {at(x, p, Own(p, top)) : x \in X})

-----------------------------------------------------------------------------
(* slave1.C.                                                                *)

Initial(p) ==
  InOrder(<<Write(at(the("oldga"), p, Array(top)) \cup at(the("oldgb"), p, Array(top))),
            When(p = MASTER, Write(f(0 .. points(top) + 1))),
            ByPoint(the("psium"), {}, p), ByPoint(the("psilm"), {}, p),
            ByPoint(the("psib"), {}, p)>>)

GuessPsib(p) ==
  Then(Copied(the("psib"), p, top, EdgeGhosts(p, top)),
       Foot(at(the("psib"), p, Shifted(Inner(top), Cross)), at(q_multi(top), p, Inner(top))))

SumPsib(p)    == Read(at(the("psib"), p, Own(p, top)))
InitialPsi(p) == Each({ByPoint(x, {}, p) : x \in {psim(0), psim(1), psi(0), psi(1)}})
Curl(p)       == ByPoint(the("tauz"), {}, p)

Track(p) == Each({When(p = MASTER, Write(one("trackstart"))), Write(total(p) \cup multitime(p))})

Accumulate(p) ==
  Each({ByPoint(the("psium"), {the("psium"), psim(0)}, p),
        ByPoint(the("psilm"), {the("psilm"), psim(1)}, p)})

-----------------------------------------------------------------------------
(* slave2.C: the phases of a time step.                                     *)

Both(F(_)) == Each({F(0), F(1)})

Zeroed(x, p) == Write(at(x, p, Corners(p)))

\* work3 is multiplied with itself where the non-contiguous version has psi(0).
Phase1(p) ==
  InOrder(<<ByPoint(the("ga"), {}, p), ByPoint(the("gb"), {}, p),
            Both(LAMBDA n : Then(Zeroed(work1(n), p), laplacalc(psi(n), work1(n), p))),
            ByPoint(the("work2"), {psi(0), psi(1)}, p),
            ByPoint(the("work3"), {the("work3"), psi(1)}, p),
            Both(LAMBDA n : ByPoint(temparray(n), {psi(n)}, p))>>)

\* f of the column is added, on the two outer columns f of the row.
AddF(n, p) ==
  LET outer == {s \in Edges(p) : s[1] \in rows(top)} IN
  Then(Read(f({Global(p, top, s)[2] : s \in Own(p, top) \ outer} \cup
              {Global(p, top, s)[1] : s \in outer})),
       ByPoint(work1(n), {work1(n)}, p))

Phase2(p) ==
  InOrder(<<Both(LAMBDA n : ByPoint(psi(n), {psim(n)}, p)),
            Both(LAMBDA n : Then(Zeroed(work7(n), p), laplacalc(psim(n), work7(n), p))),
            Both(LAMBDA n : AddF(n, p))>>)

Phase3(p) ==
  InOrder(<<Both(LAMBDA n : jacobcalc2(work1(n), temparray(n), work5(n), p)),
            Both(LAMBDA n : ByPoint(psim(n), {temparray(n)}, p)),
            Both(LAMBDA n : laplacalc(work7(n), work4(n), p))>>)

Phase4(p) ==
  Then(jacobcalc(the("work2"), the("work3"), the("work6"), p),
       Both(LAMBDA n : laplacalc(work4(n), work7(n), p)))

Phase5(p) ==
  LET X == {work5(0), work5(1), the("work6"), the("tauz"), work7(0), work7(1)}
  IN  Each({ByPoint(the("ga"), X, p),
            ByPoint(the("gb"), X \ {the("work6")}, p)})

Solve(x, old, cycle, p) ==
  Work(Then(Pose(x, p), Foot(at(old, p, Inner(top)), at(q_multi(top), p, Inner(top))))) \o
  multig(cycle, p) \o Work(Update(multitime(p)))

Phase6(cycle, p) ==
  Solve(the("ga"), the("oldga"), cycle, p) \o
  Work(When(p = MASTER, Write(one("psiai")))) \o
  Work(Take({the("ga"), the("oldga")}, p))

Phase7(p) ==
  Work(Read(at(the("ga"), p, Own(p, top)))) \o Locked("psiailock", Update(one("psiai")))

Phase8(p) ==
  Then(Read(one("psiai") \cup one("psibi")),
       ByPoint(the("ga"), {the("ga"), the("psib")}, p))

SolveGb(cycle, p) ==
  Solve(the("gb"), the("oldgb"), cycle, p) \o Work(Take({the("gb"), the("oldgb")}, p))

Phase9(p) ==
  Each({ByPoint(x, {the("ga"), the("gb")}, p) : x \in {the("work2"), the("work3")}})

Phase10(p) ==
  Each({ByPoint(psi(0), {psi(0), the("work3")}, p),
        ByPoint(psi(1), {psi(1), the("work2")}, p)})

slave2(cycle, p) ==
  Work(Phase1(p)) \o BARRIER("barrier") \o
  Work(Phase2(p)) \o BARRIER("barrier") \o
  Work(Phase3(p)) \o BARRIER("barrier") \o
  Work(Phase4(p)) \o BARRIER("barrier") \o
  Work(Phase5(p)) \o BARRIER("barrier") \o
  Phase6(cycle, p) \o BARRIER("barrier") \o
  Phase7(p) \o BARRIER("barrier") \o
  Work(Phase8(p)) \o SolveGb(cycle, p) \o BARRIER("barrier") \o
  Work(Phase9(p)) \o BARRIER("barrier") \o
  Work(Phase10(p)) \o BARRIER("barrier")

-----------------------------------------------------------------------------
slave(cycle, p) ==
  Created \o Locked("idlock", Update(one("id"))) \o BARRIER("barrier") \o
  Work(Then(Read(gp(p)), Initial(p))) \o BARRIER("barrier") \o
  Work(Pose(the("psib"), p)) \o BARRIER("barrier") \o
  Work(GuessPsib(p)) \o multig(cycle, p) \o Work(Take({the("psib")}, p)) \o BARRIER("barrier") \o
  Work(SumPsib(p)) \o Locked("psibilock", Update(one("psibi"))) \o
  Work(InitialPsi(p)) \o Work(Curl(p)) \o BARRIER("barrier") \o
  Loop(0, steps - 1, LAMBDA nstep : If(nstep = 1, Work(Track(p))) \o slave2(cycle, p)) \o
  Work(Accumulate(p)) \o Work(Update(total(p)))

Statistics == Read(UNION {total(p) \cup multitime(p) : p \in Procs})

main ==
  Work(Write(UNION {gp(p) \cup total(p) \cup multitime(p) : p \in Procs} \cup
             one("err_multi") \cup tolerance(top) \cup one("id") \cup one("psibi"))) \o
  CREATE \o WAIT_FOR_END \o
  Work(Statistics) \o Work(Then(Write(one("starttime")), Read(one("starttime") \cup one("trackstart"))))

Code(cycle) == Program([p \in Procs |-> slave(cycle, p)], main)

=============================================================================

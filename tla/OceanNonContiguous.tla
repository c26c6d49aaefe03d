------------------------ MODULE OceanNonContiguous ------------------------
(***************************************************************************)
(* apps/ocean/non_contiguous_partitions with every option on: a time step  *)
(* is ten phases over im by im grids, two of which solve an equation by    *)
(* multigrid.  A location is <<array, index or level, row, column>>.       *)
(*                                                                         *)
(* The data decide how a multigrid solution proceeds and how many steps    *)
(* there are: cycle is the sequence of the decisions the loop of multig    *)
(* takes, the same for all threads because all read the same err_multi.    *)
(***************************************************************************)
EXTENDS Footprint

CONSTANTS xprocs, yprocs, im, steps

nprocs == xprocs * yprocs
MASTER == 0
jm     == im
numlev == CHOOSE n \in 1 .. im : 2^(n - 1) = im - 2
top    == numlev - 1
size(k) == ((im - 2) \div 2^(top - k)) + 2        \* imx[k] and jmx[k]

-----------------------------------------------------------------------------
(* The part of a grid a process has.                                        *)

\* Where the part of the nth of procs processes starts, and how long it is.
rel_start(n, procs, points) ==
  LET portion == points \div procs
      extra   == points % procs
  IN  IF n < extra THEN n * (portion + 1) + 1
      ELSE extra * (portion + 1) + (n - extra) * portion + 1

rel_num(n, procs, points) == points \div procs + (IF n < points % procs THEN 1 ELSE 0)

Part(n, procs, points) ==
  LET first == rel_start(n, procs, points) IN first .. first + rel_num(n, procs, points) - 1

rows(p, k) == Part(p \div xprocs, yprocs, size(k) - 2)
cols(p, k) == Part(p % xprocs, xprocs, size(k) - 2)

Inner(p, k) == rows(p, k) \X cols(p, k)
Interior(p) == Inner(p, top)

\* pist, pien, pjst, pjen: with the border of the grid next to it.
Stretched(I, n) == I \cup (IF 1 \in I THEN {0} ELSE {}) \cup (IF n - 2 \in I THEN {n - 1} ELSE {})
Whole(p, k)     == Stretched(rows(p, k), size(k)) \X Stretched(cols(p, k), size(k))

\* The four corners and edges of the grid, by the tests of slave and slave2.
Corners(p) ==
  {c \in {0, im - 1} \X {0, jm - 1} :
     p = CASE c = <<0, 0>>           -> MASTER
           [] c = <<im - 1, 0>>      -> nprocs - xprocs
           [] c = <<0, jm - 1>>      -> xprocs - 1
           [] c = <<im - 1, jm - 1>> -> nprocs - 1}

Edges(p) ==
  {c \in {0, im - 1} \X cols(p, top) : c[1] \in Stretched(rows(p, top), im)} \cup
  {c \in rows(p, top) \X {0, jm - 1} : c[2] \in Stretched(cols(p, top), jm)}

Own(p) == Corners(p) \cup Edges(p) \cup Interior(p)

Shifted(S, D) == {<<s[1] + d[1], s[2] + d[2]>> : s \in S, d \in D}
Cross   == {<<0, 0>>, <<-1, 0>>, <<1, 0>>, <<0, -1>>, <<0, 1>>}
Square  == (-1 .. 1) \X (-1 .. 1)

at(x, S) == {<<x[1], x[2], s[1], s[2]>> : s \in S}

psi(n)       == <<"psi", n>>
psim(n)      == <<"psim", n>>
work1(n)     == <<"work1", n>>
work4(n)     == <<"work4", n>>
work5(n)     == <<"work5", n>>
work7(n)     == <<"work7", n>>
temparray(n) == <<"temparray", n>>
q_multi(k)   == <<"q_multi", k>>
rhs_multi(k) == <<"rhs_multi", k>>
the(x)       == <<x, 0>>                          \* an array that is alone
f(I)         == at(the("f"), I \X {0})
one(x)       == at(the(x), {<<0, 0>>})            \* a variable
total(p)     == at(the("total_time"), {<<p, 0>>})
multitime(p) == at(the("multi_time"), {<<p, 0>>})

\* z := an expression in the arrays of X, point by point, over all that is p's.
Pointwise(z, X, p) == Foot(UNION {at(x, Own(p)) : x \in X}, at(z, Own(p)))

-----------------------------------------------------------------------------
laplacalc(x, z, p) == Foot(at(x, Shifted(Interior(p), Cross)), at(z, Interior(p) \cup Edges(p)))

jacobcalc(x, y, z, p) ==
  Foot(at(x, Shifted(Interior(p), Square)) \cup at(y, Shifted(Interior(p), Square \ {<<0, 0>>})),
       at(z, Own(p)))

-----------------------------------------------------------------------------
(* multi.C.                                                                 *)

RED_ITER   == 0
BLACK_ITER == 1

\* Points whose row and column have an even sum are red.
relax(k, color, p) ==
  LET S == {s \in Inner(p, k) : (s[1] + s[2]) % 2 = color}
  IN  Foot(at(q_multi(k), Shifted(S, Cross)) \cup at(rhs_multi(k), S), at(q_multi(k), S))

\* Half-injection of the residual at four points of the finer grid.
rescal(kf, p) ==
  LET Residual(S) == at(q_multi(kf), Shifted(S, Cross)) \cup at(rhs_multi(kf), S)
      Fine(s)     == IF s[1] = 1 \/ s[2] = 1 THEN {<<2 * s[1], 2 * s[2]>>}
                     ELSE {2 * s[1], 2 * s[1] - 2} \X {2 * s[2], 2 * s[2] - 2}
  IN  Foot(Residual(UNION {Fine(s) : s \in Inner(p, kf - 1)}), at(rhs_multi(kf - 1), Inner(p, kf - 1)))

\* lev_tol is not in shared memory of its own: all threads store the same bound.
tolerance(k) == at(the("lev_tol"), {<<k, 0>>})

\* Interpolation to the four points of the finer grid.
intadd(kc, p) ==
  LET Fine(s) == {2 * s[1] - 1, 2 * s[1]} \X {2 * s[2] - 1, 2 * s[2]}
  IN  Then(Read(at(q_multi(kc), Shifted(Inner(p, kc), Square))),
           Update(at(q_multi(kc + 1), UNION {Fine(s) : s \in Inner(p, kc)})))

putz(k, p) == Write(at(q_multi(k), Whole(p, k)))

Level(cycle, n) ==
  LET taken(d) == Cardinality({i \in 1 .. n - 1 : cycle[i] = d})
  IN  top - taken("coarser") + taken("finer")

\* The decisions the loop can take: it goes down only after two iterations at a
\* level other than 1, up from below the top, and ends at the top.
Legal(cycle) ==
  \A n \in 1 .. Len(cycle) :
    LET k == Level(cycle, n) IN
    /\ cycle[n] = "coarser" => k > 1 /\ n > 1 /\ cycle[n - 1] = "again"
    /\ cycle[n] = "finer" => k < top
    /\ (cycle[n] = "done") = (n = Len(cycle))
    /\ cycle[n] = "done" => k = top

Cycles(n) == {cycle \in UNION {[1 .. l -> {"again", "coarser", "finer", "done"}] : l \in 1 .. n} :
                Legal(cycle)}

Decide(decision, k, p) ==
  CASE decision = "coarser" -> InOrder(<<rescal(k, p), Agree(tolerance(k - 1)), putz(k - 1, p)>>)
    [] decision = "finer"   -> intadd(k, p)
    [] OTHER                -> Nothing

multig(cycle, p) ==
  Loop(1, Len(cycle), LAMBDA n :
    LET k == Level(cycle, n) IN
    Work(When(p = MASTER, Write(one("err_multi")))) \o BARRIER("barrier") \o
    Work(relax(k, RED_ITER, p)) \o BARRIER("barrier") \o
    Work(relax(k, BLACK_ITER, p)) \o Locked("error_lock", Update(one("err_multi"))) \o
    BARRIER("barrier") \o
    Work(Read(one("err_multi"))) \o BARRIER("barrier") \o
    Work(Then(Read(tolerance(k)), Decide(cycle[n], k, p)))) \o
  Work(When(p = MASTER, Read(one("err_multi"))))

\* Right-hand side, border and first guess of the equation for x.
Pose(x, guess, p) ==
  InOrder(<<Foot(at(x, Whole(p, top)), at(rhs_multi(top), Whole(p, top))),
            Foot(at(x, Whole(p, top) \ Interior(p)), at(q_multi(top), Whole(p, top) \ Interior(p))),
            Foot(guess, at(q_multi(top), Interior(p)))>>)

\* The solution goes back to x, and to where the next step starts from.
Take(X, p) == Foot(at(q_multi(top), Whole(p, top)), UNION {at(x, Whole(p, top)) : x \in X})

-----------------------------------------------------------------------------
(* slave1.C.                                                                *)

Initial(p) ==
  InOrder(<<When(p = MASTER, Write(f(0 .. jm - 1))),
            Pointwise(the("psium"), {}, p), Pointwise(the("psilm"), {}, p),
            Pointwise(the("psib"), {}, p)>>)

PosePsib(p)  == Pose(the("psib"), at(the("psib"), Shifted(Interior(p), Cross)), p)
SumPsib(p)   == Read(at(the("psib"), Own(p)))
InitialPsi(p) == Each({Pointwise(x, {}, p) : x \in {psim(0), psim(1), psi(0), psi(1)}})

\* tauz[im-1][jm-1] is copied from tauz[0][jm-1], which another process writes.
CopiedCorner == at(the("tauz"), {<<0, jm - 1>>})

Curl(p) ==
  LET mine == Pointwise(the("tauz"), {}, p)
  IN  Then(When(p = xprocs - 1, Write(CopiedCorner)),
           Then(When(p = nprocs - 1, Read(CopiedCorner)), mine))

Track(p) == Each({When(p = MASTER, Write(one("trackstart"))), Write(total(p) \cup multitime(p))})

Accumulate(p) ==
  Each({Pointwise(the("psium"), {the("psium"), psim(0)}, p),
        Pointwise(the("psilm"), {the("psilm"), psim(1)}, p)})
-----------------------------------------------------------------------------
(* slave2.C: the phases of a time step.  n stands for both values of psiindex. *)

Both(F(_)) == Each({F(0), F(1)})

Phase1(p) ==
  InOrder(<<Pointwise(the("ga"), {}, p), Pointwise(the("gb"), {}, p),
            Both(LAMBDA n : Then(Write(at(work1(n), Corners(p))), laplacalc(psi(n), work1(n), p))),
            Pointwise(the("work2"), {psi(0), psi(1)}, p),
            Pointwise(the("work3"), {psi(0), psi(1)}, p),
            Both(LAMBDA n : Pointwise(temparray(n), {psi(n)}, p))>>)

\* What is added to a point of work1 is f of its column, on the two outer
\* columns f of its row.
AddF(n, p) ==
  Then(Read(f({c[2] : c \in Own(p) \ (rows(p, top) \X {0, jm - 1})} \cup
              {c[1] : c \in Edges(p) \cap (rows(p, top) \X {0, jm - 1})})),
       Pointwise(work1(n), {work1(n)}, p))

Phase2(p) ==
  InOrder(<<Both(LAMBDA n : Pointwise(psi(n), {psim(n)}, p)),
            Both(LAMBDA n : Then(Write(at(work7(n), Corners(p))), laplacalc(psim(n), work7(n), p))),
            Both(LAMBDA n : AddF(n, p))>>)

Phase3(p) ==
  InOrder(<<Both(LAMBDA n : jacobcalc(work1(n), temparray(n), work5(n), p)),
            Both(LAMBDA n : Pointwise(psim(n), {temparray(n)}, p)),
            Both(LAMBDA n : laplacalc(work7(n), work4(n), p))>>)

Phase4(p) ==
  Then(jacobcalc(the("work2"), the("work3"), the("work6"), p),
       Both(LAMBDA n : laplacalc(work4(n), work7(n), p)))

Phase5(p) ==
  LET X == {work5(0), work5(1), the("work6"), the("tauz"), work7(0), work7(1)}
  IN  Each({Pointwise(the("ga"), X, p),
            Pointwise(the("gb"), X \ {the("work6")}, p)})

\* A solution of the equation for ga or gb, from that of the last time step.
Solve(x, old, cycle, p) ==
  Work(Pose(x, at(old, Interior(p)), p)) \o
  Work(Update(multitime(p))) \o multig(cycle, p)

Phase6(cycle, p) ==
  Solve(the("ga"), the("oldga"), cycle, p) \o
  Work(When(p = MASTER, Write(one("psiai")))) \o
  Work(Take({the("ga"), the("oldga")}, p))

Phase7(p) ==
  Work(Read(at(the("ga"), Own(p)))) \o Locked("psibilock", Update(one("psiai")))

Phase8(p) ==
  Then(Read(one("psiai") \cup one("psibi")),
       Pointwise(the("ga"), {the("ga"), the("psib")}, p))

SolveGb(cycle, p) ==
  Solve(the("gb"), the("oldgb"), cycle, p) \o Work(Take({the("gb"), the("oldgb")}, p))

Phase9(p) ==
  Each({Pointwise(x, {the("ga"), the("gb")}, p) : x \in {the("work2"), the("work3")}})

Phase10(p) ==
  Each({Pointwise(psi(0), {psi(0), the("work3")}, p),
        Pointwise(psi(1), {psi(1), the("work2")}, p)})

slave2(cycle, p) ==
  Work(Phase1(p)) \o BARRIER("barrier") \o
  Work(Phase2(p)) \o BARRIER("barrier") \o
  Work(Phase3(p)) \o BARRIER("barrier") \o
  Work(Phase4(p)) \o BARRIER("barrier") \o
  Work(Phase5(p)) \o BARRIER("barrier") \o
  Phase6(cycle, p) \o BARRIER("barrier") \o
  Phase7(p) \o BARRIER("barrier") \o
  Work(Phase8(p)) \o BARRIER("barrier") \o
  SolveGb(cycle, p) \o BARRIER("barrier") \o
  Work(Phase9(p)) \o BARRIER("barrier") \o
  Work(Phase10(p)) \o BARRIER("barrier")

-----------------------------------------------------------------------------
slave(cycle, p) ==
  Created \o Locked("idlock", Update(one("id"))) \o
  Work(Initial(p)) \o BARRIER("barrier") \o
  Work(PosePsib(p)) \o BARRIER("barrier") \o
  multig(cycle, p) \o Work(Take({the("psib")}, p)) \o BARRIER("barrier") \o
  Work(SumPsib(p)) \o Locked("psibilock", Update(one("psibi"))) \o
  Work(InitialPsi(p)) \o Work(Curl(p)) \o BARRIER("barrier") \o
  Loop(0, steps - 1, LAMBDA nstep : If(nstep = 1, Work(Track(p))) \o slave2(cycle, p)) \o
  Work(Accumulate(p)) \o Work(Update(total(p)))

Statistics == Read(UNION {total(p) \cup multitime(p) : p \in 0 .. nprocs - 1})

main ==
  LET Grid == (0 .. im - 1) \X (0 .. jm - 1) IN
  Work(Write(UNION {total(p) \cup multitime(p) : p \in 0 .. nprocs - 1} \cup
             one("err_multi") \cup tolerance(top) \cup one("id") \cup one("psibi") \cup
             at(the("oldga"), Grid) \cup at(the("oldgb"), Grid))) \o
  CREATE \o WAIT_FOR_END \o
  Work(Statistics) \o Work(Then(Write(one("starttime")), Read(one("starttime") \cup one("trackstart"))))

Code(cycle) == Program([p \in 0 .. nprocs - 1 |-> slave(cycle, p)], main)

=============================================================================

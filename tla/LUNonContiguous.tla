-------------------------- MODULE LUNonContiguous --------------------------
(* kernels/lu/non_contiguous_blocks/lu.C with every option on.              *)
EXTENDS Footprint

CONSTANTS P, nblocks

Blocks == 0 .. nblocks - 1

a(I, J)   == <<"a", I, J>>
Matrix    == {a(I, J) : I \in Blocks, J \in Blocks}
Rhs       == {<<"rhs">>}
Id        == {<<"id">>}
Times     == {<<"rs">>, <<"done">>, <<"rf">>}
Stats(id) == {<<"t_in", id>>, <<"completion", id>>}

-----------------------------------------------------------------------------
(* On blocks, b being the one that changes.                                 *)

daxpy(b, c)   == Foot({b, c}, {b})
lu0(b)        == daxpy(b, b)
bdiv(b, diag) == Then(Read({diag}), daxpy(b, b))
bmodd(c, b)   == Then(Foot({b, c}, {b}), daxpy(b, c))
bmod(c, d, b) == Then(Read({d}), daxpy(b, c))

BlockOwner(I, J) == (I + J) % P

Factor(K, MyNum) == When(BlockOwner(K, K) = MyNum, lu0(a(K, K)))

Perimeter(K, MyNum) ==
  Then(Each({bdiv(a(I, K), a(K, K)) :
               I \in {I \in K + 1 .. nblocks - 1 : BlockOwner(I, K) = MyNum}}),
       Each({bmodd(a(K, K), a(K, J)) :
               J \in {J \in K + 1 .. nblocks - 1 : BlockOwner(K, J) = MyNum}}))

Interior(K, MyNum) ==
  LET Mine == {B \in (K + 1 .. nblocks - 1) \X (K + 1 .. nblocks - 1) :
                 BlockOwner(B[1], B[2]) = MyNum}
  IN  Each({bmod(a(B[1], K), a(K, B[2]), a(B[1], B[2])) : B \in Mine})

lu(MyNum) ==
  Loop(0, nblocks - 1, LAMBDA K :
    Work(Factor(K, MyNum)) \o BARRIER("start") \o
    Work(Perimeter(K, MyNum)) \o BARRIER("start") \o
    Work(Interior(K, MyNum)))

-----------------------------------------------------------------------------
TouchA(MyNum) ==
  Read({a(B[1], B[2]) : B \in {B \in Blocks \X Blocks : BlockOwner(B[1], B[2]) = MyNum}})

Report(MyNum) == Then(Write(Stats(MyNum)), When(MyNum = 0, Write(Times)))

OneSolve(MyNum) ==
  BARRIER("start") \o Touch(TouchA(MyNum)) \o BARRIER("start") \o
  lu(MyNum) \o BARRIER("start") \o Work(Report(MyNum))

SlaveStart(MyNum) == Created \o Locked("idlock", Update(Id)) \o OneSolve(MyNum)

InitA       == Write(Matrix \cup Rhs)
PrintA      == Read(Matrix)
CheckResult == Read(Matrix \cup Rhs)

PrintStatistics == Read(Times \cup UNION {Stats(id) : id \in 0 .. P - 1})

main ==
  Work(Then(Write(Id), InitA)) \o Work(PrintA) \o CREATE \o WAIT_FOR_END \o
  Work(PrintA) \o Work(PrintStatistics) \o Work(CheckResult)

Code == Program([id \in 0 .. P - 1 |-> SlaveStart(id)], main)

=============================================================================

-------------------------------- MODULE FFT --------------------------------
(* kernels/fft/fft.C with every option on.  x, trans and umain2 are rootN by  *)
(* rootN matrices of complex numbers, of which each thread owns some rows.   *)
EXTENDS Footprint

CONSTANTS P, rootN, num_cache_lines

Rows == 0 .. rootN - 1

MyFirst(MyNum) == (rootN * MyNum) \div P
MyLast(MyNum)  == (rootN * (MyNum + 1)) \div P
MyRows(MyNum)  == MyFirst(MyNum) .. MyLast(MyNum) - 1

row(m, j)    == {<<m, j, i>> : i \in Rows}
rows(m, R)   == UNION {row(m, j) : j \in R}
umain        == {<<"umain">>}
Id           == {<<"id">>}
Stats(MyNum) == {<<"transtimes", MyNum>>, <<"totaltimes", MyNum>>}
Times        == {<<"finishtime">>, <<"initdonetime">>}

-----------------------------------------------------------------------------
(* On matrices; j is a row.                                                 *)

TouchArray(MyNum) == Read(rows("x", MyRows(MyNum)) \cup rows("trans", MyRows(MyNum)) \cup rows("umain2", MyRows(MyNum)))

CheckSum   == Read(rows("x", Rows))
PrintArray == Read(rows("x", Rows))
InitX      == Write(rows("x", Rows))
InitU      == Write(umain)
InitU2     == Write(rows("umain2", Rows))

TwiddleOneCol(j, m) == Then(Read(row("umain2", j)), Update(row(m, j)))
Scale(j, m)         == Update(row(m, j))
CopyColumn(src, dest, j) == Foot(row(src, j), row(dest, j))
Reverse(j, m)       == Update(row(m, j))
FFT1DOnce(j, m)     == Then(Reverse(j, m), Update(row(m, j)))

\* Blocks of blksize by blksize so that two of them fit into the cache.
Blocking(MyNum) ==
  LET rowsOf  == MyLast(MyNum) - MyFirst(MyNum)
      numblks == (2 * rowsOf + num_cache_lines - 1) \div num_cache_lines
  IN  [numblks |-> numblks, blksize |-> rowsOf \div numblks]

\* Row h of dest gets column h of src, from the rows of every thread in turn.
Transpose(src, dest, MyNum) ==
  LET b       == Blocking(MyNum)
      covered == 0 .. b.numblks * b.blksize - 1
      V       == {l * (rootN \div P) + c : l \in 0 .. P - 1, c \in covered}
      H       == {MyFirst(MyNum) + c : c \in covered}
  IN  Foot({<<src, v, h>> : v \in V, h \in H}, {<<dest, h, v>> : v \in V, h \in H})

\* What no thread copies into trans, if the blocks are smaller than the rows.
NeverTransposed ==
  rows("trans", Rows) \ UNION {Transpose("x", "trans", p).writes : p \in 0 .. P - 1}

FFT1D(direction, MyNum) ==
  LET Mine(f(_)) == Each({f(j) : j \in MyRows(MyNum)}) IN
  BARRIER("start") \o
  Work(Transpose("x", "trans", MyNum)) \o
  Work(Mine(LAMBDA j : Then(FFT1DOnce(j, "trans"), TwiddleOneCol(j, "trans")))) \o
  BARRIER("start") \o
  Work(Transpose("trans", "x", MyNum)) \o
  Work(Mine(LAMBDA j : Then(FFT1DOnce(j, "x"), When(direction = -1, Scale(j, "x"))))) \o
  BARRIER("start") \o
  Work(Transpose("x", "trans", MyNum)) \o
  BARRIER("start") \o
  Work(Mine(LAMBDA j : CopyColumn("trans", "x", j))) \o
  BARRIER("start")

SlaveStart(MyNum) ==
  Created \o Locked("idlock", Update(Id)) \o BARRIER("start") \o
  Work(Read(umain)) \o Touch(TouchArray(MyNum)) \o BARRIER("start") \o
  FFT1D(1, MyNum) \o FFT1D(-1, MyNum) \o
  Work(Then(Write(Stats(MyNum)), When(MyNum = 0, Write(Times))))

PrintStatistics == Read(Times \cup UNION {Stats(p) : p \in 0 .. P - 1})

main ==
  Work(InOrder(<<Write(Id), InitX, CheckSum, PrintArray, InitU, InitU2>>)) \o
  CREATE \o WAIT_FOR_END \o
  Work(PrintArray) \o Work(PrintStatistics) \o Work(CheckSum)

Code == Program([id \in 0 .. P - 1 |-> SlaveStart(id)], main)

=============================================================================

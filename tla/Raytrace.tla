------------------------------ MODULE Raytrace ------------------------------
(***************************************************************************)
(* apps/raytrace: the screen is cut into bundles of pixels, which the      *)
(* processes put into pools of their own; who runs out takes bundles from  *)
(* the others.  The headers in front of the bundles are the allocator's,   *)
(* memory.C.  A ray is the sequence of reflections and transmissions that  *)
(* led to it, << >> from the eye.                                          *)
(***************************************************************************)
EXTENDS RaytraceGrid

LOCAL INSTANCE SequencesExt
LOCAL INSTANCE FiniteSetsExt

CONSTANTS
  nprocs, xres, yres, blockx, blocky, bundlex, bundley,
  AntiAlias, NumSubRays, maxlevel,
  Rays,     \* the rays whose weight is above minweight ...
  Hits      \* ... and those that meet an object

Pids == 0 .. nprocs - 1

-----------------------------------------------------------------------------
(* workpool.C and trace.C: how the screen is dealt out.                     *)

Rectangle(x, y, xe, ye) == [xpix |-> x, ypix |-> y, xdim |-> xe, ydim |-> ye]

\* Fault: what is left at the right and at the bottom is forgotten.
Pieces_Whole(r, w, h) ==
  LET columns == r.xdim \div w
      rows    == r.ydim \div h
  IN  [k \in 1 .. columns * rows |-> Rectangle(r.xpix + ((k - 1) % columns) * w, r.ypix + ((k - 1) \div columns) * h, w, h)]

\* From left to right and from top to bottom, pieces of w x h as far as there is room.
Pieces(r, w, h) ==
  LET columns == (r.xdim + w - 1) \div w
      rows    == (r.ydim + h - 1) \div h
  IN  [k \in 1 .. columns * rows |->
         LET x == ((k - 1) % columns) * w
             y == ((k - 1) \div columns) * h
         IN  Rectangle(r.xpix + x, r.ypix + y, Min({w, r.xdim - x}), Min({h, r.ydim - y}))]

Blocks == Pieces(Rectangle(0, 0, xres, yres), xres \div blockx, yres \div blocky)

\* What process p puts into its pool: bundles of its blocks, every nprocs-th.
Pool(p) ==
  FlattenSeq([k \in DOMAIN Blocks |->
                IF (k - 1) % nprocs = p THEN Pieces(Blocks[k], bundlex, bundley) ELSE << >>])

Jobs    == UNION {{<<p, j>> : j \in DOMAIN Pool(p)} : p \in Pids}
job(b)  == Pool(b[1])[b[2]]

\* The pixels GetRayJobFromBundle returns, one call after another.
GetRayJobFromBundle(b) ==
  [k \in 1 .. job(b).xdim * job(b).ydim |->
     <<job(b).xpix + ((k - 1) % job(b).xdim), job(b).ypix + ((k - 1) \div job(b).xdim)>>]

\* The bundles cover the screen, and have no more pixels than it.
EveryPixelOnce ==
  /\ UNION {{GetRayJobFromBundle(b)[k] : k \in DOMAIN GetRayJobFromBundle(b)} : b \in Jobs} = (0 .. xres - 1) \X (0 .. yres - 1)
  /\ MapThenSumSet(LAMBDA b : Len(GetRayJobFromBundle(b)), Jobs) = xres * yres

-----------------------------------------------------------------------------
(* Memory of the processes.                                                 *)

wpstat(p)        == Loc("wpstat", p, {0})
workpool(p)      == Loc("workpool", p, {0})
wpjob(b, f)      == Loc("wpjob", b, f)
Node(b)          == Loc("node", b, {0})        \* the header in front of a WPJOB
raystruct(p, f)  == Loc("raystruct", p, f)
framebuffer(px)  == Loc("framebuffer", px[2], {px[1]})
Seed             == Loc("lLastRand", 0, {0})
Arena            == Loc("arena", 0, {"nodesize", "begmem", "endmem"})
NextRay          == Locked(<<"ridlock", 0>>, Update(gm({"rid"})))

-----------------------------------------------------------------------------
(* memory.C.  A node that is taken off the free list is marked as used      *)
(* after the mutex is released.  Who frees one looks at its header before   *)
(* he has the mutex, and then at those of all nodes before and behind it.   *)

GlobalHeapInit == Write(Heap \cup Arena)

GlobalMalloc(b) ==
  Locked(<<"memlock", 0>>, Then(Read(Arena), Then(Update(Heap), Write(Node(b))))) \o
  Work(Write(Node(b)))

GlobalFree(b) ==
  Work(Read(Arena \cup Node(b))) \o
  Locked(<<"memlock", 0>>, Then(Read(Arena \cup UNION {Node(c) : c \in Jobs}), Update(Heap \cup Node(b))))

\* The frame buffer, when main is alone.
GlobalFreeByMain == Then(Read(Arena \cup UNION {Node(c) : c \in Jobs}), Update(Heap))

\* The counters of ObjectMalloc, for the report.
ma_print == Read(Loc("memory", 0, {"GRID", "VOXEL", "HASHTABLE", "EMPTYCELLS", "BINTREE", "PEPARRAY"}))

-----------------------------------------------------------------------------
(* workpool.C                                                               *)

PutJob(b) ==
  GlobalMalloc(b) \o
  Work(Then(Write(wpjob(b, {"xpix", "ypix", "xdim", "ydim"})),
            Foot(workpool(b[1]), workpool(b[1]) \cup wpjob(b, {"next"}))))

InitWorkPool(p) ==
  Work(Then(Write(wpstat(p) \cup workpool(p)),
            Read(Display({"xres", "yres"}) \cup Options({"blockx", "blocky", "bundlex", "bundley"}) \cup gm({"nprocs"})))) \o
  Loop(1, Len(Pool(p)), LAMBDA j : PutJob(<<p, j>>))

\* Off the pool, and then, without the mutex, out of it.
GetJob(b) ==
  Locked(<<"wplock", b[1]>>, Foot(workpool(b[1]) \cup wpjob(b, {"next"}), workpool(b[1]))) \o
  Work(Read(wpjob(b, {"xpix", "ypix", "xdim", "ydim"}))) \o
  GlobalFree(b)

GetJobOfEmpty(p) == Locked(<<"wplock", p>>, Foot(workpool(p), wpstat(p)))

\* The pools in the order process p looks into them.
Victims(p) == [k \in 1 .. nprocs |-> (p + k - 1) % nprocs]
HintsTo(p, k) == Work(Read(gm({"nprocs"}) \cup UNION {wpstat(Victims(p)[i]) : i \in 1 .. k}))

-----------------------------------------------------------------------------
(* raystack.C: a stack of rays for each process.                            *)

CopyRayMsg(dst, src) == Foot(src, dst)

InitRayTreeStack(p) ==
  Then(Read(Display({"maxlevel"}) \cup Options({"NumSubRays"})), Write(raystruct(p, {"StackSize", "Stack", "StackTop"})))

PushRayTreeStack(p) ==
  Work(Then(Update(raystruct(p, {"StackTop"})),
            Then(Read(raystruct(p, {"StackSize", "Stack"})), CopyRayMsg(raystruct(p, {"ray"}), {}))))

PopRayTreeStack(p) ==
  Work(Then(Read(raystruct(p, {"StackTop", "Stack"})),
            Then(CopyRayMsg({}, raystruct(p, {"ray"})), Update(raystruct(p, {"StackTop"})))))

-----------------------------------------------------------------------------
(* fbuf.C                                                                   *)

Pixels == UNION {framebuffer(px) : px \in (0 .. xres - 1) \X (0 .. yres - 1)}

OpenFrameBuffer   == InOrder(<<Read(Display({"numpixels"})), Malloc, Write(Display({"framebuffer"}) \cup Pixels)>>)
AddPixelColor(px) == Work(Then(Read(Display({"xres", "framebuffer"})), Update(framebuffer(px))))

RunLengthEncode(line) == Foot(line, Loc("image", 0, {0}))

CloseFrameBuffer  ==
  InOrder(<<Read(Display({"xres", "yres", "framebuffer"}))>> \o
          [k \in 1 .. yres |->
             LET line == UNION {framebuffer(<<x, k - 1>>) : x \in 0 .. xres - 1} IN
             Then(Update(line), RunLengthEncode(line))] \o
          <<GlobalFreeByMain>>)

-----------------------------------------------------------------------------
(* shade.C.  Vectors of the ray itself are the process's own.               *)

SpecularDirection     == Nothing
TransmissionDirection == Nothing

HitObject == Read(UNION {pelem(e, {"parent"}) \cup object(e[1], {"surf"}) \cup surf(e[1]) : e \in AllElements})

TypeOfTraversal == Read(Options({"TraversalType"}))

Shadow ==
  Then(Read(View({"shad"})), Then(TypeOfTraversal, IF hugrid THEN HuniformShadowIntersect ELSE ShadowIntersect))

Light(i) ==
  Work(Read(lights({i}))) \o NextRay \o Work(Then(Shadow, Then(HitObject, Read(lights({i})))))

Secondary(p, direction) == Work(Then(HitObject, Then(Read(Display({"minweight"})), direction))) \o NextRay \o PushRayTreeStack(p)

Children(ray) == SelectSeq(<<Append(ray, "spec"), Append(ray, "trans")>>, LAMBDA r : r \in Rays)

Shade(p, px, ray) ==
  Work(Then(HitObject, Read(View({"ambient"}) \cup Options({"lights", "nlights"})))) \o
  Loop(1, nlights, Light) \o
  AddPixelColor(px) \o
  Work(Read(Display({"maxlevel"}))) \o
  If(Len(ray) + 1 < maxlevel,
     Work(Then(HitObject, Read(Display({"minweight"})))) \o
     Loop(1, Len(Children(ray)), LAMBDA k :
       Secondary(p, IF Last(Children(ray)[k]) = "spec" THEN SpecularDirection ELSE TransmissionDirection)))

-----------------------------------------------------------------------------
(* trace.C                                                                  *)

frand == Update(Seed)

ConvertPrimRayJobToRayMsg ==
  Work(Then(Read(View({"projection", "eye"}) \cup Display({"scrHalfWidth", "vWscale", "scrHalfHeight", "vHscale", "scrDist"}) \cup
                 Options({"NumSubRays"})),
            TransformViewRay)) \o
  NextRay

\* A ray of the stack, and then those it has left there, the last first.
RECURSIVE TraceRay(_, _, _)
TraceRay(p, px, ray) ==
  PopRayTreeStack(p) \o
  Work(Then(TypeOfTraversal, IF hugrid THEN TraverseHierarchyUniform ELSE Intersect)) \o
  (IF ray \in Hits
   THEN Work(Then(HitObject, Each({normal(e) : e \in AllElements}))) \o
        Shade(p, px, ray) \o
        (IF Len(ray) + 1 < maxlevel
         THEN FlattenSeq([k \in DOMAIN Children(ray) |-> TraceRay(p, px, Reverse(Children(ray))[k])])
         ELSE Skip)
   ELSE Work(Read(View({"bkg"}))) \o AddPixelColor(px))

Primary(p) ==
  Work(Then(Read(Options({"AntiAlias", "NumSubRays"})), When(AntiAlias, frand))) \o
  ConvertPrimRayJobToRayMsg \o PushRayTreeStack(p)

RayTraceBundle(p, b) ==
  FlattenSeq([k \in DOMAIN GetRayJobFromBundle(b) |->
    LET px == GetRayJobFromBundle(b)[k]
        subrays == IF AntiAlias THEN NumSubRays ELSE 1
    IN  Loop(1, subrays, LAMBDA i : Primary(p)) \o
        Loop(1, subrays, LAMBDA i : TraceRay(p, px, << >>))])

\* taken[b] is the process that gets bundle b.  A pool gives what came last first;
\* once it is empty, whoever still sees a hint that it is not finds out.
GetJobs(p, taken) ==
  FlattenSeq([k \in 1 .. nprocs |->
    LET q == Victims(p)[k]
        last == Len(Pool(q)) IN
    Loop(1, last, LAMBDA j :
      LET b == <<q, last + 1 - j>> IN If(taken[b] = p, HintsTo(p, k) \o GetJob(b) \o RayTraceBundle(p, b))) \o
    HintsTo(p, k) \o GetJobOfEmpty(q)])

RayTrace(p, taken) == GetJobs(p, taken)

-----------------------------------------------------------------------------
(* main.C                                                                   *)

StartRayTrace(p, taken) ==
  Created \o Locked(<<"pidlock", 0>>, Update(gm({"pid"}))) \o
  InitWorkPool(p) \o Work(InitRayTreeStack(p)) \o
  BARRIER(<<"start", 0>>) \o
  RayTrace(p, taken) \o
  If(p = 0, Work(Write(gm({"partime", "par_start_time"}))))

PrintStatistics == Then(TypeOfTraversal, When(hugrid, ma_print))

\* Before main starts, static storage is zero.
Static == Write(Options({"prim_obj_cnt", "prim_elem_cnt"}) \cup Counters \cup gridlist \cup Seed \cup
                Loc("memory", 0, {"GRID", "VOXEL", "HASHTABLE", "EMPTYCELLS", "BINTREE", "PEPARRAY"}))

main ==
  Work(InOrder(<<Static, Write(Options({"AntiAlias", "NumSubRays"})), Write(gm({"nprocs", "pid", "rid"})),
                 GlobalHeapInit, Huniform_defaults, ReadEnvFile, ReadGeoFile, OpenFrameBuffer, CreateViewMatrix,
                 MatrixCopy({}, View({"vtrans"})), MatrixInverse({}, {}), MatrixCopy(View({"vtransInv"}), {}),
                 Read(Options({"prim_obj_cnt", "prim_elem_cnt"})), TypeOfTraversal,
                 When(hugrid, BuildHierarchy_Uniform)>>)) \o
  CREATE \o WAIT_FOR_END \o
  Work(InOrder(<<CloseFrameBuffer, PrintStatistics, Read(gm({"par_start_time"}))>>))

Code(taken) == Program([p \in Pids |-> StartRayTrace(p, taken)], main)

\* What is read or written without a mutex though another process may write it:
\* the hints of GetJobs, and the seed of the random numbers.
UnlockedHints == UNION {wpstat(p) : p \in Pids} \cup Seed

=============================================================================

------------------------------ MODULE MCSplash ------------------------------
(* The SPLASH-2 programs, each on a small input, under Parmacs.              *)
EXTENDS Parmacs

LUN == INSTANCE LUNonContiguous WITH P <- 4, nblocks <- 3
LUC == INSTANCE LUContiguous WITH P <- 4, nblocks <- 3
RDX == INSTANCE Radix WITH number_of_processors <- 4, radix <- 2, max_num_digits <- 2
OCN == INSTANCE OceanNonContiguous WITH xprocs <- 2, yprocs <- 2, im <- 6, steps <- 2
OCC == INSTANCE OceanContiguous WITH xprocs <- 2, yprocs <- 2, im <- 10, steps <- 2
FFT(n, lines) == INSTANCE FFT WITH P <- 2, rootN <- n, num_cache_lines <- lines

WNS(n, p) == INSTANCE WaterNSquared WITH NMOL <- n, NumProcs <- p, NORDER <- 3, NSTEP <- 2, NPRINT <- 2, MAXLCKS <- 3

WSP(side, p) == INSTANCE WaterSpatial WITH BOX_PER_SIDE <- side, NumProcs <- p, NORDER <- 3, NSTEP <- 2, NPRINT <- 2

\* A picture of three pixels, seen through a box of 2 x 2 x 2 cells, of which the
\* spheres fill two, the polygon and the triangles all of one corner.
RTKinds == <<"sphere", "poly", "tri">>
RTOverlaps ==
  {<<e, <<0, c>>>> : e \in {<<1, 1>>, <<1, 2>>}, c \in {0, 1}} \cup
  {<<<<o, i>>, <<0, 7>>>> : o \in {2, 3}, i \in {1, 2}} \cup
  {<<<<o, i>>, <<0, 7, c>>>> : o \in {2, 3}, i \in {1, 2}, c \in {0, 2}}

\* With the hierarchy of grids, and along the list of objects.
RTG ==
  INSTANCE Raytrace WITH
    Kinds <- RTKinds, numelements <- 2, nlights <- 1, pnormals <- TRUE, vnormals <- TRUE, hugrid <- TRUE,
    hu_gridsize <- 2, hu_numbuckets <- 3, hu_max_prims_cell <- 2, hu_max_subdiv_level <- 1, Overlaps <- RTOverlaps,
    nprocs <- 2, xres <- 3, yres <- 1, blockx <- 2, blocky <- 1, bundlex <- 1, bundley <- 1,
    AntiAlias <- FALSE, NumSubRays <- 1, maxlevel <- 2,
    Rays <- {<< >>, <<"spec">>}, Hits <- {<< >>}

RTL ==
  INSTANCE Raytrace WITH
    Kinds <- RTKinds, numelements <- 2, nlights <- 1, pnormals <- FALSE, vnormals <- FALSE, hugrid <- FALSE,
    hu_gridsize <- 2, hu_numbuckets <- 3, hu_max_prims_cell <- 2, hu_max_subdiv_level <- 1, Overlaps <- {},
    nprocs <- 2, xres <- 2, yres <- 2, blockx <- 2, blocky <- 2, bundlex <- 1, bundley <- 1,
    AntiAlias <- TRUE, NumSubRays <- 2, maxlevel <- 1,
    Rays <- {<< >>}, Hits <- {<< >>}

\* Other screens, cut into bx x 2 blocks and bundles of w x 2 pixels, and other grids.
RTScreen(p, x, bx, w) ==
  INSTANCE Raytrace WITH
    Kinds <- << >>, numelements <- 0, nlights <- 0, pnormals <- FALSE, vnormals <- FALSE, hugrid <- FALSE,
    hu_gridsize <- 1, hu_numbuckets <- 1, hu_max_prims_cell <- 1, hu_max_subdiv_level <- 0, Overlaps <- {},
    nprocs <- p, xres <- x, yres <- 3, blockx <- bx, blocky <- 2, bundlex <- w, bundley <- 2,
    AntiAlias <- FALSE, NumSubRays <- 1, maxlevel <- 1, Rays <- {<< >>}, Hits <- {}

RTCells(side) ==
  INSTANCE RaytraceGrid WITH
    Kinds <- << >>, numelements <- 0, nlights <- 0, pnormals <- FALSE, vnormals <- FALSE, hugrid <- TRUE,
    hu_gridsize <- side, hu_numbuckets <- 1, hu_max_prims_cell <- 1, hu_max_subdiv_level <- 0, Overlaps <- {}

\* A volume of 3 x 3 x 3 voxels, seen from two sides on a screen of 4 x 4 pixels with
\* four blocks; with the option -a a block is a box, and two of the four are rough.
VolHits == {<<0, 0>>, <<0, 3>>, <<1, 1>>, <<2, 2>>, <<3, 1>>}

VRN ==
  INSTANCE Volrend WITH
    num_nodes <- 2, map_len <- <<5, 5, 5>>, BLOCK_LEN <- 2, highest_sampling_boxlen <- 2, ROTATE_STEPS <- 2,
    LOOKUP_PREC <- 3, adaptive <- FALSE, Hits <- VolHits, Rough <- {}

VRA ==
  INSTANCE Volrend WITH
    num_nodes <- 2, map_len <- <<5, 5, 5>>, BLOCK_LEN <- 2, highest_sampling_boxlen <- 2, ROTATE_STEPS <- 2,
    LOOKUP_PREC <- 3, adaptive <- TRUE, Hits <- VolHits, Rough <- {<<0, 0, 2>>, <<2, 0, 2>>}

\* Other volumes and their screens, and other numbers of processes.
VRScreen(n, x, y, block, a) ==
  INSTANCE Volrend WITH
    num_nodes <- n, map_len <- <<x + 2, y + 2, 3>>, BLOCK_LEN <- block, highest_sampling_boxlen <- 2, ROTATE_STEPS <- 1,
    LOOKUP_PREC <- 3, adaptive <- a, Hits <- {}, Rough <- {}

VRVolume(x, y, z) ==
  INSTANCE Volrend WITH
    num_nodes <- 1, map_len <- <<x + 2, y + 2, z + 2>>, BLOCK_LEN <- 2, highest_sampling_boxlen <- 2, ROTATE_STEPS <- 1,
    LOOKUP_PREC <- 3, adaptive <- FALSE, Hits <- {}, Rough <- {}

RadixKeys == {<<3, 1, 2, 0>>, <<0, 2, 1, 1>>}

\* A solver that goes to a coarser grid and back.
OCCCycles == {<<"again", "coarser", "finer", "done">>}

\* Who takes which bundle: each process its own, or one a bundle of the other.
RTTakers(jobs) == {[b \in jobs |-> b[1]], [b \in jobs |-> IF b[2] = 1 THEN 1 ELSE b[1]]}

\* Who traces which block: its own process, or one block of process 1 both of them,
\* because process 0 took it before process 1 reset its queue.
TwiceTraced == <<1, 0>>
VRTakers == {[b \in VRN!Jobs |-> {b[1]}], [b \in VRN!Jobs |-> IF b = TwiceTraced THEN {0, 1} ELSE {b[1]}]}

MCPrograms ==
  {<<"lu_non_contiguous">>, <<"lu_contiguous">>, <<"fft">>, <<"fft_uneven">>, <<"water_nsquared">>, <<"water_spatial">>} \cup
  {<<"radix", keys>> : keys \in RadixKeys} \cup
  {<<"ocean_non_contiguous", c>> : c \in OCN!Cycles(2) \cup OCCCycles} \cup
  {<<"ocean_contiguous", c>> : c \in OCCCycles} \cup
  {<<"raytrace_grids", [b \in RTG!Jobs |-> IF b[2] = 1 THEN 1 ELSE b[1]]>>} \cup
  {<<"raytrace_list", by>> : by \in RTTakers(RTL!Jobs)} \cup
  {<<"volrend", by>> : by \in VRTakers} \cup
  {<<"volrend_adaptive", by>> : by \in VRTakers}

CodeOf(p) ==
  CASE p[1] = "lu_non_contiguous"    -> LUN!Code
    [] p[1] = "lu_contiguous"        -> LUC!Code
    [] p[1] = "ocean_non_contiguous" -> OCN!Code(p[2])
    [] p[1] = "ocean_contiguous"     -> OCC!Code(p[2])
    [] p[1] = "water_nsquared"       -> WNS(8, 3)!Code
    [] p[1] = "water_spatial"        -> WSP(3, 3)!Code
    [] p[1] = "fft"                  -> FFT(4, 2)!Code
    [] p[1] = "fft_uneven"           -> FFT(8, 3)!Code
    [] p[1] = "radix"                -> RDX!Code(p[2])
    [] p[1] = "raytrace_grids"       -> RTG!Code(p[2])
    [] p[1] = "raytrace_list"        -> RTL!Code(p[2])
    [] p[1] = "volrend"              -> VRN!Code(p[2])
    [] p[1] = "volrend_adaptive"     -> VRA!Code(p[2])

-----------------------------------------------------------------------------
(* What each program is known to do, and no other. *)

Enumerated(S) == {x \in S : TRUE}

OCNRaces    == Enumerated(OCN!CopiedCorner)
RTGRaces    == Enumerated(RTG!UnlockedHints)
RTLRaces    == Enumerated(RTL!UnlockedHints)
VRNRaces    == Enumerated(VRN!UnlockedQueues)
VRNTwice    == Enumerated(VRNRaces \cup VRN!TracedTwice(TwiceTraced))
VRARaces    == Enumerated(VRA!UnlockedQueues \cup VRA!SharedEdges)
VRATwice    == Enumerated(VRARaces \cup VRA!TracedTwice(TwiceTraced))
IsTwice(by) == Cardinality(by[TwiceTraced]) = 2

MCKnownRaces(p) ==
  CASE p[1] = "ocean_non_contiguous" -> OCNRaces
    [] p[1] = "raytrace_grids"       -> RTGRaces
    [] p[1] = "raytrace_list"        -> RTLRaces
    [] p[1] = "volrend"              -> IF IsTwice(p[2]) THEN VRNTwice ELSE VRNRaces
    [] p[1] = "volrend_adaptive"     -> IF IsTwice(p[2]) THEN VRATwice ELSE VRARaces
    [] OTHER                         -> {}

FFTUndefined == Enumerated(FFT(8, 3)!NeverTransposed)
OCCUndefined == Enumerated(OCC!Work3 \cup OCC!CoarseBorder)
WNSUndefined == Enumerated(WNS(8, 3)!EarlyVIR)
WSPUndefined == Enumerated(WSP(3, 3)!EarlyVIR)
RTLUndefined == Enumerated(RTL!NeverSet)
VRNUndefined == Enumerated(VRN!NeverSet)

MCKnownUndefined(p) ==
  CASE p[1] = "fft_uneven"                      -> FFTUndefined
    [] p[1] = "ocean_contiguous"                -> OCCUndefined
    [] p[1] = "water_nsquared"                  -> WNSUndefined
    [] p[1] = "water_spatial"                   -> WSPUndefined
    [] p[1] = "raytrace_list"                   -> RTLUndefined
    [] p[1] \in {"volrend", "volrend_adaptive"} -> VRNUndefined
    [] OTHER                                    -> {}

\* What barriers, CREATE and WAIT_FOR_END put behind a thread ...
Table(f) == f @@ << >>
ByBarriers(threads) ==
  LET main     == Max(DOMAIN threads)
      phase    == Table([t \in DOMAIN threads |->
                    Table([k \in 1 .. Len(threads[t].code) + 1 |-> Phase(threads[t].code, k)])])
      barriers == Table([t \in DOMAIN threads |->
                    SelectSeq([k \in DOMAIN threads[t].code |-> k], LAMBDA k : threads[t].code[k].op = "barrier")])
      After(t, k, kind, n) == IF \E i \in 1 .. k - 1 : threads[t].code[i].op = kind THEN n ELSE 0
      Until(t, k, u) ==
        CASE u = t    -> k - 1
          [] u = main -> After(t, k, "begin", CHOOSE l \in DOMAIN threads[u].code : Starts(threads[u].code, l))
          [] t = main -> After(t, k, "join", Len(threads[u].code))
          [] OTHER    -> IF phase[t][k] = 0 THEN 0 ELSE barriers[u][phase[t][k]]
  IN  Table([t \in DOMAIN threads |-> Table([k \in DOMAIN phase[t] |->
        Table([u \in DOMAIN threads |-> Until(t, k, u)])])])

\* ... and what its events add, given what was known to be behind those who set them.
ByEvents(threads, behind) ==
  LET IsWait(op)  == op.op = "waitpause"
      waits(t)    == {k \in DOMAIN threads[t].code : IsWait(threads[t].code[k])}
      awaited(t)  == Table([k \in waits(t) |->
        {r \in UNION {{s} \X DOMAIN threads[s].code : s \in DOMAIN threads} :
           Follows(threads, behind, t, k, r[1], r[2])}])
      Until(t, k, u, heard) ==
        Max({behind[t][k][u]} \cup
            {IF u = r[1] THEN r[2] ELSE behind[r[1]][r[2]][u] :
               r \in UNION {heard[i] : i \in {i \in DOMAIN heard : i < k}}})
      Row(t, heard) == Table([k \in DOMAIN behind[t] |->
        Table([u \in DOMAIN threads |-> IF u = t THEN k - 1 ELSE Until(t, k, u, heard)])])
  IN  Table([t \in DOMAIN threads |-> IF waits(t) = {} THEN behind[t] ELSE Row(t, awaited(t))])

\* A process of RADIX uses what its neighbours in the tree have set, not what those
\* have heard of, so that it need not be told in turn.
ClockOf(threads) == ByEvents(threads, ByBarriers(threads))

\* A place after everything that is behind an operation, however far events told of it.
RankOf(threads, behind) ==
  LET told == ByEvents(threads, ByEvents(threads, ByEvents(threads, behind)))
  IN  Table([t \in DOMAIN threads |-> Table([k \in DOMAIN threads[t].code |->
        MapThenSumSet(LAMBDA u : told[t][k + 1][u], DOMAIN threads)])])

\* The order of every program is in its text.
TextOrders ==
  \A p \in MCPrograms :
    LET threads == CodeOf(p)
        behind  == ClockOf(threads)
    IN  /\ Clock(threads, behind)
        /\ NoCircularWait(threads, behind, RankOf(threads, behind))
        /\ OrderedBut(threads, behind, KnownRaces(p))
        /\ WrittenBut(threads, behind, KnownRaces(p) \cup KnownUndefined(p))
ASSUME TextOrders

AllKeysAreSorted == \A keys \in [1 .. 4 -> 0 .. 3] : RDX!Sorts(keys)

\* The three properties below are about sizes and keys that are not those of the run:
\* one state of the program is enough to say them, that after its first step.
AtStart == \A t \in Threads : pc[t] = IF t = Main THEN 2 ELSE 1

\* What test_sort of radix.C looks for after the passes: the keys come out in order and
\* none is lost, whatever the keys were.
RadixSorts == prog[1] = "radix" /\ AtStart => AllKeysAreSorted

\* The static schedules of both programs of WATER: every pair of molecules, or of
\* boxes that are close, is dealt with, none twice, and what INTERF has computed
\* for a molecule is added to it, however many molecules, boxes and processes.
WaterAddsAllForces ==
  /\ prog[1] = "water_nsquared" /\ AtStart =>
       \A n \in 1 .. 9 : \A p \in 1 .. n : WNS(n, p)!AddsAllForces
  /\ prog[1] = "water_spatial" /\ AtStart =>
       \A side \in 1 .. 4, p \in 1 .. 8 : p <= side * side * side => WSP(side, p)!AddsAllForces

\* RAYTRACE traces every pixel of the screen, and none twice, whatever the sizes of
\* screen, blocks and bundles and the number of processes; and the halving of a grid,
\* whatever its size, ends in the cell that is looked up.  VOLREND deals out every
\* pixel, or every box, whatever the sizes of screen and blocks and the number of
\* processes, with sections in one column or in two.  It clears every pixel, once and
\* before it is traced, exactly if the partitions of all processes but the last fit
\* into the image: if not (12 processes and 5 x 5 or 8 x 8 pixels), one of them goes on
\* behind its end.  Its octree, whatever the size of the volume, lets no ray jump over
\* an opaque voxel.
PicturesAreComplete ==
  /\ prog[1] = "raytrace_list" /\ AtStart =>
       /\ \A p \in 1 .. 3, x \in 1 .. 4 : \A bx \in 1 .. x, w \in 1 .. 3 : RTScreen(p, x, bx, w)!EveryPixelOnce
       /\ \A side \in 1 .. 4 : RTCells(side)!EveryCellIsFound
  /\ prog[1] = "volrend" /\ AtStart =>
       /\ \A n \in {1, 3, 4, 12}, x \in {4, 7, 11}, block \in {2, 4}, a \in BOOLEAN :
            /\ VRScreen(n, x, 4, block, a)!EveryPixelIsTraced
            /\ VRScreen(n, x, 4, block, a)!EveryPixelIsCleared <=> VRScreen(n, x, 4, block, a)!PartitionsFit
       /\ \A x, z \in {1, 3}, y \in {3, 4} : VRVolume(x, y, z)!NoSampleIsSkipped

=============================================================================

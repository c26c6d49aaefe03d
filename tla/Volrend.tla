------------------------------ MODULE Volrend ------------------------------
(***************************************************************************)
(* apps/volrend: a volume is prepared by main and then looked at from      *)
(* ROTATE_STEPS sides.  The screen is cut into one section for each        *)
(* process, a section into blocks of pixels; who has finished its section  *)
(* takes blocks of the others.  With the option -a only the corners of     *)
(* boxes are traced, smaller ones where the picture is rough, and what     *)
(* lies between is interpolated.  As user_options.H has it the             *)
(* preprocessing is SERIAL_PREPROC, without PREPROCESS and RENDER_ONLY.    *)
(*                                                                         *)
(* A location is <<name, row, column>>; a pixel is <<row, column>>.        *)
(***************************************************************************)
EXTENDS Footprint

LOCAL INSTANCE SequencesExt
LOCAL INSTANCE FiniteSetsExt

CONSTANTS
  num_nodes,
  map_len,                   \* <<x, y, z>>, the size of the volume
  BLOCK_LEN, highest_sampling_boxlen, ROTATE_STEPS,
  LOOKUP_PREC,               \* rows of the shading table
  adaptive,                  \* option -a
  Hits,                      \* the pixels whose ray meets something opaque
  Rough                      \* boxes <<row, column, boxlen>> with corners of different color

Nodes == 0 .. num_nodes - 1
ROOT  == 0

ROUNDUP(a, b) == (a + b - 1) \div b       \* of the quotient

\* NINT(sqrt(s))
NearestRoot(s) == Cardinality({n \in 1 .. s + 1 : n * n - n + 1 <= s})
Root(s)        == Cardinality({n \in 1 .. s : n * n <= s})
CubeRoot(s)    == Cardinality({n \in 1 .. s : n * n * n <= s})

Globals(names) == {<<g, 0, 0>> : g \in names}

-----------------------------------------------------------------------------
(* main.C: who has which part of the screen.                                *)

INSET   == 1
opc_len == [i \in 1 .. 3 |-> map_len[i] - 2 * INSET]

\* As high and as wide as the diagonal of the volume.
frust_len ==
  LET square(i) == (opc_len[i] - 1) * (opc_len[i] - 1)
  IN  NearestRoot(square(1) + square(2) + square(3)) + 1
image_len == frust_len

Pixels == (0 .. image_len - 1) \X (0 .. image_len - 1)

\* The factors below the root, and not up to it.
factors == {1} \cup {i \in 2 .. Root(num_nodes) - 1 : num_nodes % i = 0}

image_section == [x |-> Max(factors), y |-> num_nodes \div Max(factors)]

\* maxcu and newfactor are set for a factor up to the cube root only.
Init_Decomposition ==
  LET found == \E i \in factors \ {1} : i <= CubeRoot(num_nodes) IN
  InOrder(<<Read(Globals({"num_nodes"})), Write(Globals({"image_section"})),
            When(num_nodes # 1, Then(When(found, Write(Globals({"maxcu", "newfactor"}))),
                                     Read(Globals({"maxcu", "newfactor"})))),
            Write(Globals({"voxel_section"}))>>)

NeverSet == Globals({"maxcu", "newfactor"})

\* What a process clears at the start of a picture.
image_partition == ROUNDUP(image_len * image_len, num_nodes)

Partition(my_node) ==
  LET first == image_partition * my_node
      last  == IF my_node = num_nodes - 1 THEN image_len * image_len - 1 ELSE first + image_partition - 1
  IN  {<<i \div image_len, i % image_len>> : i \in first .. last}

\* The blocks of a section, numbered from 0, and the upper left corner of each.
num_queue   == [x |-> ROUNDUP(image_len, image_section.x), y |-> ROUNDUP(image_len, image_section.y)]
lnum_blocks == [x |-> ROUNDUP(num_queue.x, BLOCK_LEN), y |-> ROUNDUP(num_queue.y, BLOCK_LEN)]

Works == 0 .. lnum_blocks.x * lnum_blocks.y - 1
Jobs  == Nodes \X Works

\* In adaptive mode a section starts at the next box.
Start(coordinate) ==
  IF adaptive THEN ROUNDUP(coordinate, highest_sampling_boxlen) * highest_sampling_boxlen ELSE coordinate

\* What a process does with block b = <<node, work>>: one ray after another, or the
\* boxes that begin in the block.
Step == IF adaptive THEN highest_sampling_boxlen ELSE 1

BlockPixels(b) ==
  LET xstart == Start((b[1] % image_section.x) * num_queue.x)
      ystart == Start((b[1] \div image_section.x) * num_queue.y)
      xindex == xstart + (b[2] % lnum_blocks.x) * BLOCK_LEN
      yindex == ystart + (b[2] \div lnum_blocks.x) * BLOCK_LEN
      xstop  == Min({xstart + num_queue.x, image_len, xindex + BLOCK_LEN})
      ystop  == Min({ystart + num_queue.y, image_len, yindex + BLOCK_LEN})
  IN  {<<y, x>> \in (yindex .. ystop - 1) \X (xindex .. xstop - 1) :
         (y - yindex) % Step = 0 /\ (x - xindex) % Step = 0}

\* The blocks have every pixel, or in adaptive mode the corner of every box.
EveryPixelIsTraced ==
  /\ UNION {BlockPixels(b) : b \in Jobs} = {px \in Pixels : px[1] % Step = 0 /\ px[2] % Step = 0}
  /\ ~adaptive => \A b, c \in Jobs : b # c => BlockPixels(b) \cap BlockPixels(c) = {}

\* The partitions are the image, and each pixel is in one.
EveryPixelIsCleared ==
  /\ UNION {Partition(p) : p \in Nodes} = Pixels
  /\ \A p, q \in Nodes : p # q => Partition(p) \cap Partition(q) = {}

\* Only the last process stops at the end of the image: the others must fit before it.
PartitionsFit == (num_nodes - 1) * image_partition <= image_len * image_len

-----------------------------------------------------------------------------
(* octree.C: a bit for every box of 2^level voxels, set if a ray may see     *)
(* something between a voxel of the box and the next.                        *)

Box(len) == {p \in (0 .. len[1] - 1) \X (0 .. len[2] - 1) \X (0 .. len[3] - 1) : TRUE}

RECURSIVE pyr_len(_)
pyr_len(level) ==
  IF level = 0 THEN opc_len
  ELSE LET below == pyr_len(level - 1)
       IN  [i \in 1 .. 3 |-> IF below[i] > 1 THEN (below[i] + 1) \div 2 ELSE below[i]]

pyr_levels == Min({l \in 1 .. Max({opc_len[i] : i \in 1 .. 3}) + 1 : 2 ^ (l - 1) >= Max({opc_len[i] : i \in 1 .. 3})})

\* The eight of p and the next ones, without leaving a map of size len.
Eight(p, len) == {q \in Box(len) : \A i \in 1 .. 3 : q[i] \in {p[i], Min({p[i] + 1, len[i] - 1})}}
Doubled(p)    == [i \in 1 .. 3 |-> 2 * p[i]]

\* The bits that are set, if the voxels opaque have an opacity.  The neighbors are
\* or'ed in place: the scan only looks at bits it has not replaced yet.
RECURSIVE PYR(_, _)
PYR(level, opaque) ==
  IF level = 0 THEN {p \in Box(opc_len) : Eight(p, opc_len) \cap opaque # {}}
  ELSE LET below == PYR(level - 1, opaque)
       IN  {p \in Box(pyr_len(level)) : Eight(Doubled(p), pyr_len(level - 1)) \cap below # {}}

\* Wherever a sample has an opaque voxel among its eight, no level of the octree lets
\* the ray jump over it.
NoSampleIsSkipped ==
  \A v \in Box(opc_len) : \A level \in 0 .. pyr_levels - 1 :
    LET bits == PYR(level, {v})
    IN  \A p \in Box(opc_len) : v \in Eight(p, opc_len) => [i \in 1 .. 3 |-> p[i] \div 2 ^ level] \in bits

pyr(level)  == {<<"pyr", level, 0>>}
AllLevels   == UNION {pyr(l) : l \in 0 .. pyr_levels - 1}

\* main draws from Index as the processes will, but meets nobody at its mutex.
DrawIndex == Update(Globals({"Index"}))

\* Computed, for the one process of the serial preprocessing, and not used.
Sections == Read(Globals({"voxel_section", "num_nodes"}))

Compute_Base         == InOrder(<<DrawIndex, Sections, Read(Globals({"pyr_len", "opc"})), Update(pyr(0))>>)
Or_Neighbors_In_Base == InOrder(<<DrawIndex, Read(Globals({"pyr_len", "num_nodes"})), Update(pyr(0))>>)

Compute_Pyramid_Level(level) == Then(Read(Globals({"pyr_len"}) \cup pyr(level - 1)), Update(pyr(level)))

Allocate_Pyramid_Level(level) == Write(Globals({"pyr_address"}) \cup pyr(level))

Compute_Octree ==
  InOrder(<<Read(Globals({"opc_len"})), Write(Globals({"pyr_levels", "pyr_len", "pyr_voxlen", "pyr_length"})),
            Allocate_Pyramid_Level(0), Write(Globals({"Index"})), Compute_Base,
            Write(Globals({"Index"})), Or_Neighbors_In_Base>> \o
          [level \in 1 .. pyr_levels - 1 |->
             InOrder(<<Update(Globals({"pyr_len", "pyr_voxlen"})), Write(Globals({"pyr_length"})),
                       Allocate_Pyramid_Level(level), Compute_Pyramid_Level(level)>>)])

-----------------------------------------------------------------------------
(* option.C, file.C, map.C, normal.C and opacity.C                          *)

Init_Opacity  == Write(Globals({"density_epsilon", "magnitude_epsilon", "density_opacity", "magnitude_opacity"}))
Init_Lighting ==
  Write(Globals({"light", "ambient_color", "diffuse_color", "specular_color", "specular_exponent",
                 "depth_hither", "depth_yon", "depth_exponent"}))
Init_Parallelization == Then(Write(Globals({"block_len"})), Read(Globals({"adaptive", "angle", "num_nodes"})))

Init_Options ==
  InOrder(<<Write(Globals({"norm_address", "opc_address", "pyr_address", "background"})),
            Init_Opacity, Init_Lighting, Write(Globals({"angle"})), Init_Parallelization,
            Write(Globals({"opacity_epsilon", "opacity_cutoff", "highest_sampling_boxlen", "lowest_volume_boxlen",
                           "volume_color_difference", "pyr_highest_level", "pyr_lowest_level"}))>>)

\* Into the shared ones of the arguments.
Read_Shorts(array) == Write(array)
Read_Longs(array)  == Write(array)
Read_Bytes(array)  == Write(array)

Allocate_Map     == Write(Globals({"map_address", "map"}))
Deallocate_Map   == Write(Globals({"map_address"}))
Allocate_Normal  == Write(Globals({"norm_address", "norm"}))
Allocate_Opacity == Write(Globals({"opc_address", "opc"}))

Load_Map ==
  InOrder(<<Read_Shorts(Globals({"map_version", "orig", "extr", "map_len", "map_warps"})),
            Read_Longs(Globals({"map_length"})), Allocate_Map, Read_Bytes(Globals({"map"}))>>)

Normal_Compute ==
  InOrder(<<DrawIndex, Foot(Globals({"magnitude_epsilon"}), Globals({"nmag_epsilon"})), Sections,
            Read(Globals({"norm_len", "map_len", "map_address", "map", "norm_address"})), Write(Globals({"norm"}))>>)

Compute_Normal ==
  InOrder(<<Foot(Globals({"map_len"}), Globals({"norm_len", "norm_length"})), Allocate_Normal,
            Write(Globals({"Index"})), Normal_Compute>>)

\* A voxel with a small gradient or opacity keeps the zero it was allocated with.
Opacity_Compute ==
  InOrder(<<DrawIndex, Sections,
            Read(Globals({"opc_len", "map_len", "map_address", "map", "density_epsilon", "nmag_epsilon",
                          "density_opacity", "magnitude_opacity", "opacity_epsilon", "opc_address"})),
            Write(Globals({"opc"}))>>)

Compute_Opacity ==
  InOrder(<<Foot(Globals({"map_len"}), Globals({"opc_len", "opc_length"})), Allocate_Opacity,
            Write(Globals({"Index"})), Opacity_Compute>>)

-----------------------------------------------------------------------------
(* view.C and render.C, on the shared ones of their arguments; the others    *)
(* are {}.                                                                   *)

Multiply_Matrices(in1, in2, out) == Foot(in1 \cup in2, out)
Copy_Matrix(in, out)             == Foot(in, out)
Load_Identity_Matrix(m)          == Write(m)
Load_Translation_Matrix(m)       == Then(Load_Identity_Matrix(m), Write(m))
Load_Scaling_Matrix(m)           == Then(Load_Identity_Matrix(m), Write(m))
Load_Rotation_Matrix(m)          == Then(Load_Identity_Matrix(m), Write(m))

Inverse_Concatenate_Transform(composite, transformation) ==
  Then(Multiply_Matrices(transformation, composite, {}), Copy_Matrix({}, composite))

Inverse_Concatenate_Translation(m) == Then(Load_Translation_Matrix({}), Inverse_Concatenate_Transform(m, {}))
Inverse_Concatenate_Scaling(m)     == Then(Load_Scaling_Matrix({}), Inverse_Concatenate_Transform(m, {}))
Inverse_Concatenate_Rotation(m)    == Then(Load_Rotation_Matrix({}), Inverse_Concatenate_Transform(m, {}))

Load_Transformation_Matrix(m) == Copy_Matrix(m, Globals({"transformation_matrix"}))
Transform_Point(new)          == Foot(Globals({"transformation_matrix"}), new)

Compute_Input_Dimensions  == Then(Read(Globals({"frust_len"})), Transform_Point(Globals({"out_invvertex"})))
Compute_Input_Unit_Vector == Transform_Point(Globals({"uout_invvertex"}))

Compute_Pre_View ==
  InOrder(<<Foot(Globals({"opc_len"}), Globals({"out_diag_len", "out_diag_length", "frust_len", "image_zlen"})),
            Foot(Globals({"depth_hither", "depth_yon", "depth_exponent"}), Globals({"depth_cueing"})),
            Write(Globals({"in_max"})),
            Foot(Globals({"opc_len", "norm_len"}), Globals({"opc_xlen", "opc_xylen", "norm_xlen", "norm_xylen"}))>>)

Select_View ==
  LET invmatrix == Globals({"invmatrix"}) IN
  InOrder(<<Load_Identity_Matrix(invmatrix),
            Read(Globals({"out_diag_len"})), Inverse_Concatenate_Translation(invmatrix),
            Inverse_Concatenate_Scaling(invmatrix),
            Read(Globals({"frame"})), Update(Globals({"angle"})), Inverse_Concatenate_Rotation(invmatrix),
            Read(Globals({"out_diag_length"})), Inverse_Concatenate_Translation(invmatrix),
            Load_Transformation_Matrix(invmatrix), Compute_Input_Dimensions, Compute_Input_Unit_Vector>>)

Observer_Transform_Light_Vector ==
  InOrder(<<Read(Globals({"light"})), Transform_Point(Globals({"obslight"})), Update(Globals({"obslight"}))>>)

Compute_Observer_Transformed_Highlight_Vector ==
  Then(Transform_Point({}), Foot(Globals({"obslight"}), Globals({"obshighlight"})))

-----------------------------------------------------------------------------
(* raytrace.C                                                               *)

image(px)        == {<<"image", px[1], px[2]>>}
mask_image(px)   == {<<"mask_image", px[1], px[2]>>}
SHD(row)         == {<<"SHD", row, 0>>}
Ambient          == SHD(LOOKUP_PREC)       \* the entry behind the last row, for no normal at all
ShadingTable     == UNION {SHD(row) : row \in 0 .. LOOKUP_PREC}

\* The ray in the space of the volume, and where it enters and leaves it.
Clip == Read(Globals({"out_invvertex", "invjacobian", "image_zlen", "opc_len"}))

\* Down and up the octree until a box has something in it.
Pyramid(levels) == Read(Globals({"pyr_len", "pyr_address"}) \cup levels)

NextBox ==
  Then(Read(Globals({"invjacobian", "pyr_highest_level", "pyr_lowest_level", "pyr_levels"})),
       Then(Pyramid(AllLevels), Read(Globals({"invinvjacobian", "pyr_voxlen"}))))

\* Eight voxels around each position in the box.
Samples ==
  InOrder(<<Pyramid(pyr(0)), Read(Globals({"in_max", "opc_address", "opc_len", "norm_address", "norm_len"})),
            Read(Globals({"opc", "norm", "opc_xlen", "norm_xlen", "opc_xylen", "norm_xylen"}) \cup ShadingTable),
            Read(Globals({"depth_cueing", "opacity_cutoff", "invjacobian"}))>>)

\* The color is laid over what the pixel has.
Trace_Ray(px) ==
  InOrder(<<Clip, NextBox, Samples, Read(Globals({"opacity_epsilon"})), When(px \in Hits, Update(image(px)))>>)

\* Each process shades some rows of the table, and all of them the entry for no normal.
Shaded(my_node) ==
  LET shd_table_partition == ROUNDUP(LOOKUP_PREC, num_nodes)
      zstart == shd_table_partition * my_node
  IN  zstart .. Min({zstart + shd_table_partition, LOOKUP_PREC}) - 1

Pre_Shade(my_node) ==
  InOrder(<<Read(Globals({"num_nodes", "shd_address"})),
            Read(Globals({"obslight", "obshighlight", "specular_exponent", "ambient_color", "diffuse_color", "specular_color"})),
            Write(UNION {SHD(row) : row \in Shaded(my_node)}), Agree(Ambient)>>)

-----------------------------------------------------------------------------
(* adaptive.C                                                               *)

Queue(q)     == {<<"Queue", q, 0>>}
Remaining    == Queue(num_nodes)
Counter      == Globals({"Counter"})
SlaveBarrier == BARRIER(<<"SlaveBarrier", 0>>)
TimeBarrier  == BARRIER(<<"TimeBarrier", 0>>)
QLock(q)     == <<"QLock", q>>
CountLock    == <<"CountLock", 0>>

\* The pixels of the screen at the corners of a box, and at the corners of its quarters.
Corners(px, boxlen, step) ==
  {c \in Pixels : \A i \in 1 .. 2 : c[i] - px[i] \in {k * step : k \in 0 .. boxlen \div step}}

\* The quarters of a box that begin on the screen.
Quarters(px, boxlen) == {c \in Corners(px, boxlen, boxlen \div 2) : \A i \in 1 .. 2 : c[i] < px[i] + boxlen}

IsSplit(px, boxlen) == boxlen > 1 /\ <<px[1], px[2], boxlen>> \in Rough

\* A ray that another process has begun is waited for: the mask is tested and set
\* without a mutex, so two may begin it.
RECURSIVE Ray_Trace_Adaptive_Box(_, _)
Ray_Trace_Adaptive_Box(px, boxlen) ==
  LET corners == Corners(px, boxlen, boxlen) IN
  InOrder(<<Each({Then(Update(mask_image(c)), Trace_Ray(c)) : c \in corners}),
            Read(UNION {mask_image(c) \cup image(c) : c \in corners}),
            Read(Globals({"lowest_volume_boxlen", "volume_color_difference"})),
            When(IsSplit(px, boxlen),
                 Each({Ray_Trace_Adaptive_Box(c, boxlen \div 2) : c \in Quarters(px, boxlen)}))>>)

\* The pixels that are traced and not interpolated.
RECURSIVE TracedIn(_, _)
TracedIn(px, boxlen) ==
  Corners(px, boxlen, boxlen) \cup
  IF IsSplit(px, boxlen) THEN UNION {TracedIn(c, boxlen \div 2) : c \in Quarters(px, boxlen)} ELSE {}

Traced == UNION {TracedIn(px, highest_sampling_boxlen) : px \in UNION {BlockPixels(b) : b \in Jobs}}

Image_Len == Read(Globals({"image_len", "image_address"}))

TraceBlock(b) ==
  Then(Image_Len,
       Each({IF adaptive THEN Ray_Trace_Adaptive_Box(px, highest_sampling_boxlen) ELSE Trace_Ray(px) : px \in BlockPixels(b)}))

NextWork(q) == Locked(QLock(q), Update(Queue(q)))

\* The blocks of section q that the process gets, and one number too many.
TakeBlocks(my_node, q, taken) ==
  Loop(0, Cardinality(Works) - 1, LAMBDA work :
    If(my_node \in taken[<<q, work>>], NextWork(q) \o Work(TraceBlock(<<q, work>>)))) \o
  NextWork(q)

\* Ray_Trace_Adaptively and Ray_Trace_Non_Adaptively.  Each resets its queue without
\* the mutex: what others have taken of it by then is taken again.
Ray_Trace_Sections(my_node, taken) ==
  Work(Then(Read(Globals({"image_len", "image_section", "block_len", "num_nodes", "highest_sampling_boxlen"})),
            Write(Queue(my_node)))) \o
  Work(Read(Remaining)) \o
  TakeBlocks(my_node, my_node, taken) \o
  Locked(QLock(num_nodes), Update(Remaining)) \o
  Loop(1, num_nodes - 1, LAMBDA k :
    LET q == (my_node + k) % num_nodes IN
    Work(Read(Queue(q) \cup Remaining)) \o
    If(\E work \in Works : my_node \in taken[<<q, work>>], TakeBlocks(my_node, q, taken)))

\* The box with boxlen > 1 and then its quarters; what has been traced stays.
RECURSIVE Interpolate_Recursive_Box(_, _)
Interpolate_Recursive_Box(px, boxlen) ==
  LET half_boxlen == boxlen \div 2
      missing     == Corners(px, boxlen, half_boxlen) \ Traced
  IN  InOrder(<<Read(UNION {image(c) : c \in Corners(px, boxlen, boxlen)}),
                Read(UNION {mask_image(c) : c \in Corners(px, boxlen, half_boxlen)}),
                Foot(UNION {mask_image(c) : c \in missing}, UNION {image(c) \cup mask_image(c) : c \in missing}),
                When(half_boxlen > 1,
                     Each({Interpolate_Recursive_Box(c, half_boxlen) : c \in Quarters(px, boxlen)}))>>)

\* Blocks of the screen, every num_nodes-th from left to right and from top to bottom.
Interpolate_Recursively(my_node) ==
  LET num_xblocks == ROUNDUP(image_len, BLOCK_LEN)
      mine(px)    == ((px[1] \div BLOCK_LEN) * num_xblocks + px[2] \div BLOCK_LEN) % num_nodes = my_node
      boxes       == {px \in Pixels : mine(px) /\ \A i \in 1 .. 2 : (px[i] % BLOCK_LEN) % highest_sampling_boxlen = 0}
  IN  Then(Read(Globals({"num_blocks", "num_xblocks", "block_len", "image_len", "highest_sampling_boxlen"})),
           Each({Interpolate_Recursive_Box(px, highest_sampling_boxlen) : px \in boxes}))

\* Nobody leaves the loop at the end before all have counted down: a barrier.
CountDown == Locked(CountLock, Update(Counter)) \o BARRIER(<<"Counter", 0>>)

Ray_Trace(my_node, taken) ==
  Work(InOrder(<<Read(Globals({"uout_invvertex"})), Agree(Globals({"invjacobian", "invinvjacobian"})),
                 Agree(Globals({"num_rays_traced", "num_traced_rays_hit_volume", "num_samples_trilirped"})),
                 Read(Globals({"adaptive"}))>>)) \o
  TimeBarrier \o
  Work(Pre_Shade(my_node)) \o CountDown \o
  Work(When(adaptive, Agree(Globals({"itest"})))) \o
  Ray_Trace_Sections(my_node, taken) \o
  TimeBarrier \o
  If(adaptive /\ highest_sampling_boxlen > 1,
     TimeBarrier \o Work(Interpolate_Recursively(my_node)) \o TimeBarrier) \o
  Locked(CountLock, Read(Globals({"frame", "num_rays_traced", "num_traced_rays_hit_volume", "num_samples_trilirped"}))) \o
  TimeBarrier

Render(my_node, taken) ==
  Work(When(my_node = ROOT,
            Then(Observer_Transform_Light_Vector, Compute_Observer_Transformed_Highlight_Vector))) \o
  Ray_Trace(my_node, taken)

-----------------------------------------------------------------------------
(* main.C                                                                   *)

Images(pixels) == UNION {image(px) : px \in pixels}
Masks(pixels)  == UNION {mask_image(px) : px \in pixels}

Allocate_Image         == Write(Globals({"image_address"}) \cup Images(Pixels))
Allocate_MImage        == Write(Globals({"mask_image_address"}) \cup Masks(Pixels))
Allocate_Shading_Table == Write(Globals({"shd_address"}) \cup ShadingTable)

WriteGrayscaleTIFF == Read(Images(Pixels))

\* One picture of the rotation.
Picture(my_node, taken) ==
  Work(Agree(Globals({"frame"}))) \o
  SlaveBarrier \o
  Work(InOrder(<<Read(Globals({"image_address", "mask_image_address", "background", "adaptive"})),
                 Write(Images(Partition(my_node))), When(adaptive, Write(Masks(Partition(my_node)))),
                 When(my_node = ROOT, Select_View)>>)) \o
  SlaveBarrier \o
  Work(Then(Agree(Counter \cup Remaining), Write(Queue(my_node)))) \o
  Render(my_node, taken) \o
  If(my_node = ROOT, Work(Then(Read(Globals({"image_len", "image_address"})), WriteGrayscaleTIFF)))

Render_Loop(my_node, taken) ==
  Created \o Locked(<<"IndexLock", 0>>, Update(Globals({"Index"}))) \o
  Work(Read(Globals({"num_nodes", "image_length", "mask_image_length"}))) \o
  Loop(1, ROTATE_STEPS, LAMBDA step : Picture(my_node, taken))

\* Static storage that is used as it is at the start: zero.
Static == Write(Globals({"mask_image_length", "mask_image_address", "invinvjacobian", "num_nodes", "adaptive"}))

Frame ==
  InOrder(<<Init_Options, Init_Decomposition, Load_Map, Compute_Normal, Compute_Opacity, Compute_Pre_View,
            Allocate_Shading_Table, Foot(Globals({"frust_len"}), Globals({"image_len", "image_length"})), Allocate_Image,
            Foot(Globals({"num_nodes", "image_len", "block_len"}), Globals({"num_xblocks", "num_yblocks", "num_blocks"})),
            Compute_Octree, Read(Globals({"adaptive"})),
            When(adaptive, Then(Foot(Globals({"image_len", "image_length"}), Globals({"mask_image_len", "mask_image_length"})),
                                Allocate_MImage)),
            Deallocate_Map, Write(Globals({"Index"}))>>)

main == Work(Then(Static, Frame)) \o CREATE \o WAIT_FOR_END

\* taken[b] are the processes that trace block b, more than one if its queue is reset.
Code(taken) == Program([p \in Nodes |-> Render_Loop(p, taken)], main)

\* What is read and written without a mutex though others may write it: the queues,
\* the pixels on the edges of boxes that two processes have, and those of a block
\* that is traced twice.
Edges == {px \in Pixels : \E i \in 1 .. 2 : px[i] > 0 /\ px[i] % BLOCK_LEN = 0}

UnlockedQueues == Remaining \cup UNION {Queue(q) : q \in Nodes}
SharedEdges    == Images(Edges \cap Hits) \cup Masks(Edges)
TracedTwice(b) ==
  LET traced == UNION {TracedIn(px, highest_sampling_boxlen) : px \in BlockPixels(b)} IN
  IF adaptive THEN Images(traced \cap Hits) \cup Masks(traced) ELSE Images(BlockPixels(b) \cap Hits)

=============================================================================

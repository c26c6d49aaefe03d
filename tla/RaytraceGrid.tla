---------------------------- MODULE RaytraceGrid ----------------------------
(***************************************************************************)
(* apps/raytrace: the hierarchy of uniform grids, built by cr.C and        *)
(* husetup.C and walked through by hutv.C.  The world is one voxel, <<0>>; *)
(* a voxel that is divided becomes a grid of the same name, and its voxels *)
(* add their number in it.  The grid the world lies in is << >>.           *)
(***************************************************************************)
EXTENDS RaytraceScene

LOCAL INSTANCE SequencesExt

CONSTANTS
  hu_gridsize, hu_numbuckets, hu_max_prims_cell, hu_max_subdiv_level,
  Overlaps        \* pairs of an element and a voxel that its bounding box meets

World  == <<0>>
n      == hu_gridsize
Ids    == 0 .. n * n * n - 1
Coords == (0 .. n - 1) \X (0 .. n - 1) \X (0 .. n - 1)

index1D(c) == c[1] + c[2] * n + c[3] * n * n
index3D(id) ==
  LET k == id \div (n * n)
      r == id - k * n * n
      j == r \div n
  IN  <<r - j * n, j, k>>

subdiv_level(g) == Len(g) - 1

voxel(v, f)     == Loc("voxel", v, f)
grid(g, f)      == Loc("grid", g, f)
hashtable(g, S) == Loc("hashtable", g, S)
emptycells(g)   == Loc("emptycells", g, {0})
pepa(v)         == Loc("pepa", v, {0})      \* the elements in a voxel
masks           == Loc("masks", 0, {0})
gridlist        == Loc("gridlist", 0, {0})
Counters        == Loc("counter", 0, {"grids", "total_cells", "voxels", "leafs"})

\* A list of elements, in memory of its own, and what it contains.
List(S) == [made |-> TRUE, of |-> S]
NULL    == [made |-> FALSE, of |-> {}]

-----------------------------------------------------------------------------
(* The bintree that deals out the elements of a grid to its cells: a node   *)
(* is a box of n[1] x n[2] x n[3] cells from cell i on.                     *)

root(g, S) == [grid |-> g, i |-> <<0, 0, 0>>, n |-> <<n, n, n>>, pe |-> List(S)]
IsLeaf(b)  == b.n = <<1, 1, 1>>
Box(b)     == {c \in Coords : \A a \in 1 .. 3 : c[a] \in b.i[a] .. b.i[a] + b.n[a] - 1}

\* The longest side, the first of several.
axis(b) == CHOOSE a \in 1 .. 3 : (\A c \in 1 .. 3 : b.n[c] <= b.n[a]) /\ (\A c \in 1 .. a - 1 : b.n[c] < b.n[a])

\* Those of the list that meet the box; of no elements there is no list.
Inside(b, box) ==
  IF b.pe.of = {} THEN NULL
  ELSE List({e \in b.pe.of : \E c \in Box(box) : <<e, Append(b.grid, index1D(c))>> \in Overlaps})

Halves(b) ==
  LET a    == axis(b)
      n1   == b.n[a] \div 2
      btn1 == [b EXCEPT !.n[a] = n1]
      btn2 == [b EXCEPT !.n[a] = @ - n1, !.i[a] = @ + n1]
  IN  <<[btn1 EXCEPT !.pe = Inside(b, btn1)], [btn2 EXCEPT !.pe = Inside(b, btn2)]>>

\* The nodes on the way from b to cell c, counted from the corner of b.
RECURSIVE Path(_, _)
Path(b, c) ==
  IF IsLeaf(b) THEN <<b>>
  ELSE LET a    == axis(b)
           idiv == b.n[a] \div 2
       IN  <<b>> \o (IF c[a] + 1 > idiv THEN Path(Halves(b)[2], [c EXCEPT ![a] = @ - idiv])
                     ELSE Path(Halves(b)[1], c))

Leaf(r, id) == Last(Path(r, index3D(id)))

\* Every cell of the grid has a leaf, which is that cell.
EveryCellIsFound == \A c \in Coords : Box(Last(Path(root(World, {}), c))) = {c}

\* What is in a voxel, which voxels a grid has, and which of them are grids.
RECURSIVE elements(_)
elements(v)  == IF v = World THEN List(AllElements) ELSE Leaf(root(Front(v), elements(Front(v)).of), Last(v)).pe
Nonempty(g)  == IF g = << >> THEN {World} ELSE {Append(g, id) : id \in {x \in Ids : elements(Append(g, x)).made}}
IsGrid(v)    == v = World \/ (Cardinality(elements(v).of) > hu_max_prims_cell /\ subdiv_level(Front(v)) < hu_max_subdiv_level)

-----------------------------------------------------------------------------
(* cr.C                                                                     *)

init_masks == Write(masks)

init_world_grid ==
  InOrder(<<ObjectMalloc("GRID", {}), Update(Counters), ObjectMalloc("HASHTABLE", hashtable(<< >>, {0})),
            Write(hashtable(<< >>, {0})), ObjectMalloc("EMPTYCELLS", emptycells(<< >>)), Write(emptycells(<< >>)),
            Write(grid(<< >>, {"id", "hashtable", "emptycells", "indx_inc", "num_buckets", "min", "cellsize",
                               "subdiv_level", "num_prims", "pepa", "next"}) \cup gridlist)>>)

init_world_voxel ==
  InOrder(<<ObjectMalloc("VOXEL", {}), Update(Counters),
            Write(voxel(World, {"id", "cell", "numelements", "celltype", "next"}))>>)

mark_empty(g)    == Foot(grid(g, {"emptycells"}) \cup emptycells(g) \cup masks, emptycells(g))
mark_nonempty(g) == Foot(grid(g, {"emptycells"}) \cup emptycells(g) \cup masks, emptycells(g))

bucket(v) == {Last(v) % (IF Front(v) = << >> THEN 1 ELSE hu_numbuckets)}

insert_in_hashtable(v) ==
  Foot(voxel(v, {"id"}) \cup Options({"hu_numbuckets"}) \cup grid(Front(v), {"hashtable"}) \cup hashtable(Front(v), bucket(v)),
       voxel(v, {"next"}) \cup hashtable(Front(v), bucket(v)))

node(b, f) == Loc("btnode", <<b.grid, b.i, b.n>>, f)
\* The memory of the list of a node: that of a voxel is kept.
list(b) ==
  IF b.n = <<n, n, n>> THEN pepa(b.grid)
  ELSE IF IsLeaf(b) THEN pepa(Append(b.grid, index1D(b.i)))
  ELSE node(b, {"list"})

prims_in_box2(from, to) ==
  When(from.pe.of # {},
       InOrder(<<ObjectMalloc("PEPARRAY", {}),
                 Read(list(from) \cup UNION {pelem(e, {"bv"}) : e \in from.pe.of}),
                 Write(list(to))>>))

init_bintree(b) ==
  Then(ObjectMalloc("BINTREE", {}),
       Foot(grid(b.grid, {"min", "indx_inc", "num_prims", "pepa"}), node(b, {"btn", "axis", "p", "n", "i", "nprims", "pe"})))

subdiv_bintree(b) ==
  InOrder(<<Foot(node(b, {"n"}), node(b, {"axis"})), ObjectMalloc("BINTREE", {}), ObjectMalloc("BINTREE", {}),
            Write(node(b, {"btn"}))>> \o
          [h \in 1 .. 2 |->
             LET half == Halves(b)[h] IN
             InOrder(<<Foot(node(b, {"i", "n", "p"}) \cup grid(b.grid, {"cellsize"}), node(half, {"btn", "axis", "i", "n", "p"})),
                       Read(node(b, {"pe", "nprims"})), prims_in_box2(b, half),
                       Write(node(half, {"pe", "nprims"}))>>)])

RECURSIVE create_bintree(_)
create_bintree(b) ==
  Then(Read(node(b, {"n"})),
       When(~IsLeaf(b), InOrder(<<subdiv_bintree(b), Read(node(b, {"btn"})), create_bintree(Halves(b)[1]),
                                  create_bintree(Halves(b)[2]), Read(node(b, {"nprims"}))>>)))

bintree_lookup(b, id) ==
  LET path == Path(b, index3D(id)) IN
  Then(Each({Read(node(path[i], {"n", "axis", "btn"})) : i \in 1 .. Len(path) - 1}),
       Read(node(Last(path), {"n", "nprims", "pe"})))

deleteBinTree(b) == Read(UNION {node(x, {"btn"}) : x \in UNION {Range(Path(b, c)) : c \in Coords}})

RECURSIVE create_grid(_)
create_grid(v) ==
  LET g       == Front(v)
      bintree == root(v, elements(v).of)
      Visit(nv) ==
        Then(bintree_lookup(bintree, Last(nv)),
             IF elements(nv).made
             THEN InOrder(<<Update(Counters), mark_nonempty(v), ObjectMalloc("VOXEL", {}),
                            Write(voxel(nv, {"id", "celltype", "cell", "numelements"})),
                            Read(grid(v, {"subdiv_level"}) \cup Options({"hu_max_prims_cell", "hu_max_subdiv_level"})),
                            IF IsGrid(nv) THEN create_grid(nv) ELSE Update(Counters),
                            insert_in_hashtable(nv)>>)
             ELSE Then(Update(Counters), mark_empty(v)))
  IN  InOrder(<<ObjectMalloc("GRID", {}), Update(Counters),
                ObjectMalloc("HASHTABLE", hashtable(v, 0 .. hu_numbuckets - 1)), ObjectMalloc("EMPTYCELLS", emptycells(v)),
                Foot(voxel(v, {"cell", "id"}) \cup grid(g, {"indx_inc", "min", "cellsize", "subdiv_level"}) \cup gridlist \cup
                       Options({"hu_gridsize", "hu_numbuckets"}),
                     grid(v, {"id", "hashtable", "emptycells", "indx_inc", "num_buckets", "min", "cellsize",
                              "subdiv_level", "num_prims", "pepa", "next"}) \cup gridlist),
                init_bintree(bintree), create_bintree(bintree)>> \o
              [x \in 1 .. n * n * n |-> Visit(Append(v, x - 1))] \o
              <<Write(voxel(v, {"cell", "numelements", "celltype"})), deleteBinTree(bintree)>>)

-----------------------------------------------------------------------------
(* hutv.C.  Which way a ray takes is left open: it may come to any voxel.   *)

RECURSIVE GridsFrom(_)
GridsFrom(v) == {v} \cup UNION {GridsFrom(w) : w \in {x \in Nonempty(v) : IsGrid(x)}}
Grids  == GridsFrom(World)
Voxels == {World} \cup UNION {Nonempty(g) : g \in Grids}
Leaves == {v \in Voxels : ~IsGrid(v)}

\* The last that went into a bucket is the first of its list.
lookup_hashtable(v) ==
  LET g == Front(v)
      ahead == {w \in Nonempty(g) : bucket(w) = bucket(v) /\ Last(w) > Last(v)}
  IN  Read(grid(g, {"num_buckets", "hashtable"}) \cup hashtable(g, bucket(v)) \cup
           voxel(v, {"id"}) \cup UNION {voxel(w, {"id", "next"}) : w \in ahead})

lookup_emptycells(g) == Read(grid(g, {"emptycells"}) \cup emptycells(g))
push_down_grid(v)    == Read(voxel(v, {"cell"}) \cup grid(v, {"indx_inc", "min", "cellsize"}))
step_grid(g)         == Read(grid(g, {"indx_inc"}))

\* Out of a grid, into the next voxel of the one around it, or out of the world.
next_voxel           == Each({Then(step_grid(g), Read(grid(g, {"subdiv_level"}))) : g \in Grids})

next_nonempty_voxel  ==
  Each({next_voxel} \cup {lookup_emptycells(g) : g \in Grids} \cup {lookup_hashtable(v) : v \in Voxels \ {World}})

next_nonempty_leaf   ==
  Each({next_nonempty_voxel, lookup_hashtable(World)} \cup
       {Read(voxel(v, {"celltype"})) : v \in Voxels} \cup {push_down_grid(g) : g \in Grids})

init_ray == InOrder(<<Read(grid(<< >>, {"min", "cellsize"})), next_nonempty_leaf, Read(UNION {grid(g, {"id"}) : g \in Grids})>>)

-----------------------------------------------------------------------------
(* husetup.C                                                                *)

Huniform_defaults ==
  Write(Options({"hu_max_prims_cell", "hu_gridsize", "hu_numbuckets", "hu_max_subdiv_level"}))

BuildHierarchy_Uniform ==
  InOrder(<<init_masks, MakeElementArray, init_world_voxel, init_world_grid,
            Write(gm({"world_level_grid"})), create_grid(World)>>)

\* All elements of a leaf against the ray.
IntersectHuniformPrimlist(v) ==
  Then(Read(voxel(v, {"cell", "numelements"})),
       When(elements(v).of # {}, Then(Read(pepa(v)), Each({pe_intersect(e) : e \in elements(v).of}))))

HuniformShadowIntersect ==
  InOrder(<<Read(gm({"world_level_grid"})), init_ray,
            Each({IntersectHuniformPrimlist(v) : v \in Leaves}),
            Read(UNION {pelem(e, {"parent"}) \cup object(e[1], {"surf"}) \cup surf(e[1]) : e \in AllElements}),
            next_nonempty_leaf>>)

TraverseHierarchyUniform ==
  InOrder(<<Read(gm({"world_level_grid"})), init_ray,
            Each({IntersectHuniformPrimlist(v) : v \in Leaves}), next_nonempty_leaf>>)

=============================================================================

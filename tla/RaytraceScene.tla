--------------------------- MODULE RaytraceScene ---------------------------
(***************************************************************************)
(* apps/raytrace: what the program knows of the picture.  env.C reads the  *)
(* point of view and the options, geo.C the objects with the functions of  *)
(* their kind (sph.C, poly.C, tri.C).  An object is its position in the    *)
(* file, and an element <<object, number>>.  A location is <<what, of      *)
(* which, field>>.                                                         *)
(***************************************************************************)
EXTENDS Footprint

LOCAL INSTANCE SequencesExt

CONSTANTS
  Kinds,          \* the objects of the file: a sequence of "sphere", "poly" and "tri"
  numelements,    \* elements of each object
  nlights,
  pnormals,       \* the file has normals for the faces ...
  vnormals,       \* ... and for the vertices of triangles
  hugrid          \* TraversalType is TT_HUG, a hierarchy of grids, and not TT_LIST

ObjectNumbers == DOMAIN Kinds
Elements(o)   == {<<o, i>> : i \in 1 .. numelements}
AllElements   == UNION {Elements(o) : o \in ObjectNumbers}
kind(e)       == Kinds[e[1]]

Loc(what, which, fields) == {<<what, which, f>> : f \in fields}

View(f)      == Loc("View", 0, f)
Display(f)   == Loc("Display", 0, f)
Options(f)   == Loc("options", 0, f)
gm(f)        == Loc("gm", 0, f)
lights(S)    == Loc("lights", 0, S)
object(o, f) == Loc("object", o, f)
surf(o)      == Loc("surf", o, {0})
pelem(e, f)  == Loc("pelem", e, f)
data(e, f)   == Loc("data", e, f)        \* the SPHERE, POLY or TRI of an element
vlist(o)     == Loc("vlist", o, {0})
nlist(o)     == Loc("nlist", o, {0})

Heap == Loc("heap", 0, {0})              \* the free list, and the headers of what main allocates

\* A GlobalMalloc of main alone, which meets nobody at memlock.
Malloc == Update(Heap)
ObjectMalloc(type, memory) == InOrder(<<Malloc, Write(memory), Update(Loc("memory", 0, {type}))>>)

-----------------------------------------------------------------------------
(* matrix.C and bbox.C, on the shared ones of their arguments.              *)

VecMatMult(Vt, M, V)    == Foot(M \cup V, Vt)
MatrixCopy(A, B)        == Foot(B, A)
MatrixIdentity(M)       == Write(M)
MatrixMult(C, A, B)     == Foot(A \cup B, C)
MatrixInverse(Minv, M)  == Foot(M, Minv)
NormalizeBoundBox(bv)   == Update(bv)

-----------------------------------------------------------------------------
(* What all kinds do: for all elements, and the box around their boxes.     *)

ForElements(o, F(_)) ==
  Then(Read(object(o, {"pelem", "numelements"})),
       Each({Then(Read(pelem(e, {"data"})), F(e)) : e \in Elements(o)}))

Around(o, ElementBoundBox(_)) == Then(ForElements(o, ElementBoundBox), Write(object(o, {"bv"})))

\* A primitive that has been read belongs to the element.
Attached(e) == Write(pelem(e, {"data", "parent"}))

-----------------------------------------------------------------------------
(* sph.C                                                                    *)

SphElementBoundBox(e) == Foot(data(e, {"center", "rad"}), pelem(e, {"bv"}))
SphBoundBox(o)        == Around(o, SphElementBoundBox)
SphNormal(e)          == Read(pelem(e, {"data"}) \cup data(e, {"center", "rad"}))

SphDataNormalize(o) ==
  Then(NormalizeBoundBox(object(o, {"bv"})),
       ForElements(o, LAMBDA e :
         Then(NormalizeBoundBox(pelem(e, {"bv"})),
              Foot(data(e, {"center", "rad"}), data(e, {"center", "rad", "rad2"})))))

SphPeIntersect(e) == Read(pelem(e, {"data"}) \cup data(e, {"center", "rad2"}))
SphIntersect(o)   == ForElements(o, SphPeIntersect)

SphTransform(o) ==
  ForElements(o, LAMBDA e : Foot(data(e, {"center", "rad"}), data(e, {"center", "rad", "rad2"})))

SphRead(o) ==
  Then(Malloc,
       Each({InOrder(<<Write(data(e, {"center", "rad", "rad2"})), Attached(e), SphElementBoundBox(e)>>) :
               e \in Elements(o)}))

-----------------------------------------------------------------------------
(* poly.C                                                                   *)

PolyElementBoundBox(e) == Foot(data(e, {"nverts", "vptr", "vindex"}) \cup vlist(e[1]), pelem(e, {"bv"}))
PolyBoundBox(o)        == Around(o, PolyElementBoundBox)
PolyNormal(e)          == Read(pelem(e, {"data"}) \cup data(e, {"norm"}))

\* The distance of a face from the origin, along its normal.
Distance(e) == Foot(data(e, {"vptr", "vindex", "norm"}) \cup vlist(e[1]), data(e, {"d"}))

PolyDataNormalize(o) ==
  InOrder(<<NormalizeBoundBox(object(o, {"bv"})),
            Update(vlist(o)),
            ForElements(o, LAMBDA e : Then(NormalizeBoundBox(pelem(e, {"bv"})), Distance(e)))>>)

PolyPeIntersect(e) ==
  Read(pelem(e, {"data"}) \cup vlist(e[1]) \cup
       data(e, {"norm", "d", "vptr", "vindex", "nverts", "axis_proj"}))
PolyIntersect(o) == ForElements(o, PolyPeIntersect)

PolyTransform(o) ==
  Then(Update(vlist(o)),
       ForElements(o, LAMBDA e :
         InOrder(<<Update(data(e, {"norm"})), Distance(e), Write(data(e, {"axis_proj"}))>>)))

PolyRead(o) ==
  InOrder(<<Malloc, Write(vlist(o)),
            Each({InOrder(<<Malloc, Write(data(e, {"nverts", "vptr", "vindex", "norm"})),
                            Distance(e), Attached(e), PolyElementBoundBox(e)>>) : e \in Elements(o)})>>)

-----------------------------------------------------------------------------
(* tri.C.  Without normals of the vertices the list of normals stays empty  *)
(* and is freed, and the order of the vertices is not set: TriTransform and *)
(* TriPeIntersect use them all the same.                                    *)

TriElementBoundBox(e) == Foot(data(e, {"vptr", "vindex"}) \cup vlist(e[1]), pelem(e, {"bv"}))
TriBoundBox(o)        == Around(o, TriElementBoundBox)

TriNormal(e) ==
  Read(pelem(e, {"data"}) \cup data(e, {"nptr", "norminterp", "norm"}) \cup
       IF vnormals THEN data(e, {"vorder", "vindex", "indx"}) \cup nlist(e[1]) ELSE {})

TriDataNormalize(o) ==
  InOrder(<<NormalizeBoundBox(object(o, {"bv"})),
            Update(vlist(o)),
            ForElements(o, LAMBDA e : Then(NormalizeBoundBox(pelem(e, {"bv"})), Distance(e)))>>)

TriPeIntersect(e) ==
  Read(pelem(e, {"data"}) \cup vlist(e[1]) \cup
       data(e, {"norm", "d", "vptr", "vindex", "vorder", "indx"}))
TriIntersect(o) == ForElements(o, TriPeIntersect)

TriTransform(o) ==
  InOrder(<<Update(vlist(o)), Update(nlist(o)),
            ForElements(o, LAMBDA e :
              InOrder(<<Foot(data(e, {"vindex", "vptr"}) \cup vlist(o), data(e, {"norm"})),
                        Distance(e),
                        Read(data(e, {"norminterp"})),
                        When(vnormals, Foot(data(e, {"nptr"}) \cup nlist(o), data(e, {"vorder", "norm", "d"}))),
                        Write(data(e, {"indx"}))>>))>>)

TriRead(o) ==
  InOrder(<<Malloc, Write(vlist(o)), When(vnormals, Write(nlist(o))),
            Each({InOrder(<<When(pnormals, Write(data(e, {"norm"}))),
                            Write(data(e, {"vptr", "nptr", "norminterp", "vindex"})),
                            Attached(e), TriElementBoundBox(e)>>) : e \in Elements(o)}),
            When(~vnormals, Malloc)>>)

\* What the program uses though nobody has written it.
NeverSet == UNION {nlist(o) \cup UNION {data(e, {"vorder"}) : e \in Elements(o)} :
                     o \in {n \in ObjectNumbers : Kinds[n] = "tri"}}

-----------------------------------------------------------------------------
(* geo.C: a file of objects, and the functions of their kinds.              *)

read(o) == CASE Kinds[o] = "sphere" -> SphRead(o) [] Kinds[o] = "poly" -> PolyRead(o) [] Kinds[o] = "tri" -> TriRead(o)

transform(o) ==
  CASE Kinds[o] = "sphere" -> SphTransform(o) [] Kinds[o] = "poly" -> PolyTransform(o) [] Kinds[o] = "tri" -> TriTransform(o)

bbox(o) ==
  CASE Kinds[o] = "sphere" -> SphBoundBox(o) [] Kinds[o] = "poly" -> PolyBoundBox(o) [] Kinds[o] = "tri" -> TriBoundBox(o)

normalize(o) ==
  CASE Kinds[o] = "sphere" -> SphDataNormalize(o)
    [] Kinds[o] = "poly"   -> PolyDataNormalize(o)
    [] Kinds[o] = "tri"    -> TriDataNormalize(o)

intersect(o) ==
  Then(Read(object(o, {"procs"})),
       CASE Kinds[o] = "sphere" -> SphIntersect(o) [] Kinds[o] = "poly" -> PolyIntersect(o) [] Kinds[o] = "tri" -> TriIntersect(o))

pe_intersect(e) ==
  Then(Read(pelem(e, {"parent"}) \cup object(e[1], {"procs"})),
       CASE kind(e) = "sphere" -> SphPeIntersect(e) [] kind(e) = "poly" -> PolyPeIntersect(e) [] kind(e) = "tri" -> TriPeIntersect(e))

normal(e) ==
  Then(Read(pelem(e, {"parent"}) \cup object(e[1], {"procs"})),
       CASE kind(e) = "sphere" -> SphNormal(e) [] kind(e) = "poly" -> PolyNormal(e) [] kind(e) = "tri" -> TriNormal(e))

\* Along the list of objects.
ForObjects(F(_)) ==
  Then(Read(gm({"modelroot"})),
       InOrder([o \in ObjectNumbers |-> Then(Read(object(o, {"next"})), F(o))]))

NormalizeGeo ==
  Then(Read(Options({"TraversalType", "ModelNorm"})),
       Then(ForObjects(LAMBDA o : Read(object(o, {"bv"}))),
            ForObjects(LAMBDA o : Then(Read(object(o, {"procs"})), normalize(o)))))

ReadObject(o) ==
  InOrder(<<Malloc, Write(object(o, {"index", "name", "next"})),
            IF o = 1 THEN Write(gm({"modelroot"})) ELSE Write(object(o - 1, {"next"})),
            Malloc, Write(object(o, {"surf", "numelements", "procs", "pelem"}) \cup surf(o)),
            Update(Options({"prim_obj_cnt", "prim_elem_cnt"})),
            Write(UNION {pelem(e, {"index"}) : e \in Elements(o)}),
            read(o), transform(o), bbox(o)>>)

ReadGeoFile ==
  InOrder(<<Write(gm({"modelroot"}) \cup Options({"prim_obj_cnt", "prim_elem_cnt"})),
            Read(View({"model"}))>> \o
          [o \in ObjectNumbers |-> ReadObject(o)] \o
          <<NormalizeGeo>>)

MakeElementArray ==
  InOrder(<<ForObjects(LAMBDA o : Read(object(o, {"numelements", "pelem"}))),
            ObjectMalloc("PEPARRAY", {}), Write(Loc("pepa", <<0>>, {0}))>>)

-----------------------------------------------------------------------------
(* isect.C: the traversal without a grid.                                   *)

Intersect == ForObjects(intersect)

\* lightdist and the element itself are the ray's own.
ShadowIntersect ==
  ForObjects(LAMBDA o :
    Then(intersect(o), Each({Read(pelem(e, {"parent"}) \cup object(o, {"surf"}) \cup surf(o)) : e \in Elements(o)})))

-----------------------------------------------------------------------------
(* env.C                                                                    *)

Screen == Display({"scrHalfWidth", "scrHalfHeight", "vWscale", "vHscale"})

InitEnv ==
  InOrder(<<Write(View({"eye", "coi", "bkg", "vang", "ambient", "shad", "shading", "projection"})),
            Write(Display({"xres", "yres", "numpixels", "maxlevel", "minweight", "scrDist", "scrWidth", "scrHeight"}) \cup Screen),
            MatrixIdentity(View({"vtrans"})), MatrixIdentity(View({"model"})),
            Write(Options({"ModelNorm", "TraversalType"})),
            Malloc, Write(Options({"lights", "bundlex", "bundley", "blockx", "blocky"}))>>)

InitLights == Write(Options({"nlights"}) \cup lights({1}))

InitDisplay ==
  Foot(Display({"xres", "yres", "scrHeight"}) \cup View({"vang"}),
       Display({"scrWidth", "scrDist"}) \cup Screen)

\* The commands of the file that the program makes use of, in any order.
ReadView    == Write(View({"eye", "coi", "bkg", "vang", "ambient", "shad", "projection", "model"}))
ReadDisplay == Write(Display({"maxlevel", "minweight", "xres", "yres"}))
ReadLights  == Each({Then(When(i > 1, Malloc), Write(Options({"nlights", "lights"}) \cup lights({i}))) : i \in 1 .. nlights})
ReadOptions ==
  Write(Options({"TraversalType", "ModelNorm", "bundlex", "bundley", "blockx", "blocky",
                 "hu_max_prims_cell", "hu_gridsize", "hu_numbuckets", "hu_max_subdiv_level"}))

ReadEnvFile ==
  InOrder(<<InitEnv, Write(Options({"nlights"})),
            Each({ReadView, ReadDisplay, ReadLights, ReadOptions}),
            Foot(Display({"xres", "yres", "scrWidth", "scrHeight"}), Display({"numpixels", "vWscale", "vHscale"})),
            When(nlights = 0, InitLights), InitDisplay,
            Update(Options({"TraversalType", "ModelNorm"}))>>)

CreateViewMatrix ==
  InOrder(<<Read(View({"eye"})), MatrixMult(View({"vtrans"}), View({"vtrans"}), {}),
            Read(View({"eye", "coi"})), MatrixMult(View({"vtrans"}), View({"vtrans"}), {})>>)

TransformViewRay == VecMatMult({}, View({"vtransInv"}), {})

=============================================================================

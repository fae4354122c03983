------------------------- MODULE AccelerationBuilds -------------------------
(***************************************************************************)
(* BuildAccelerationStructures: on Vulkan all builds of a call go to the   *)
(* driver at once (RHIVulkan Device.cpp, CreateAccelerationStructureBuild- *)
(* Info), their geometries and primitive counts in two arrays all share,   *)
(* each build with a pointer into them; on Direct3D each is a call of its  *)
(* own with an array of its own (RHIDX12 CommandBuffer.cpp).  What a       *)
(* structure holds in the end is the driver's doing, and here the part of  *)
(* the arrays the driver is pointed to.                                    *)
(*                                                                         *)
(* The caller keeps to ICommandBuffer.hpp: a top level structure is built  *)
(* of bottom level ones of earlier calls, with a barrier in between.       *)
(***************************************************************************)
EXTENDS Integers, Sequences, SequencesExt, FiniteSets, FiniteSetsExt, Folds

CONSTANTS
  Backend,        \* of {"vulkan", "d3d"}
  Bottom, Top,    \* structures
  Shape,          \* sequences of geometries, of triangles or of boxes
  MaxInstances    \* bound: instances of a top level structure

VARIABLES
  backend,
  room,     \* the size each bottom level structure was made with, in primitives
  holds,    \* what each structure holds, or Nothing
  asked,    \* what its last build was to put there: a history variable
  fresh     \* structures built since the last barrier

vars == <<backend, room, holds, asked, fresh>>

Nothing == <<>>
Garbage == <<[kind |-> "garbage", primitives |-> 0]>>

(* A geometry: how many primitives the driver makes of it. *)
Indexed(g) == g.indexType # "None"

(* BlasTriangleGeometryInfo and BlasAabbGeometryInfo, on each backend. *)
PrimitivesOnVulkan(g) ==
  IF g.kind = "boxes" THEN g.count
  ELSE IF g.indexBuffer THEN g.indices \div 3 ELSE g.vertices \div 3
PrimitivesOnD3D(g) ==
  IF g.kind = "boxes" THEN g.count
  ELSE IF Indexed(g) THEN g.indices \div 3 ELSE g.vertices \div 3

Piece(g, primitives) == [kind |-> g.kind, primitives |-> primitives]
Instances(build) == [kind |-> "instances", primitives |-> build.count]

FillBlasInputs(build) ==
  [k \in DOMAIN build.shape |-> Piece(build.shape[k], PrimitivesOnD3D(build.shape[k]))]

Geometries(build) ==
  IF build.dst \in Top THEN <<Instances(build)>>
  ELSE [k \in DOMAIN build.shape |-> Piece(build.shape[k], PrimitivesOnVulkan(build.shape[k]))]

(* vkGeometryInfos and primitiveCounts for a call's builds, the bottom     *)
(* level ones first, and for each build the place of its pointers: where   *)
(* the arrays end when its turn comes.                                     *)
Packed(builds) == FlattenSeq([k \in DOMAIN builds |-> Geometries(builds[k])])
StartByBuild(builds, k) == k - 1
Start(builds, k) == Len(Packed(SubSeq(builds, 1, k - 1)))

(* What the arrays are reserved for.  If they outgrow it they move, and    *)
(* the pointers taken before are to memory that was given back.            *)
Reserved(builds) ==
  Max({Len(builds),
       MapThenSumSet(LAMBDA k : IF builds[k].dst \in Top THEN 1 ELSE Len(builds[k].shape), DOMAIN builds)})
PointersHold(builds) == Len(Packed(builds)) <= Reserved(builds)

CreateAccelerationStructureBuildInfo(builds, k) ==
  IF PointersHold(builds)
  THEN SubSeq(Packed(builds), Start(builds, k) + 1, Start(builds, k) + Len(Geometries(builds[k])))
  ELSE Garbage

(* What the driver is given for the k-th build. *)
Given(builds, k) ==
  IF backend = "vulkan" THEN CreateAccelerationStructureBuildInfo(builds, k)
  ELSE IF builds[k].dst \in Top THEN <<Instances(builds[k])>> ELSE FillBlasInputs(builds[k])

(* BlasSizeRequirements: the same, asked of a single build. *)
Total(pieces) == FoldSeq(LAMBDA p, sum : p.primitives + sum, 0, pieces)
BlasSizeRequirements(build) == Total(Given(<<build>>, 1))

-----------------------------------------------------------------------------
BottomBuild == [dst : Bottom, shape : Shape]
TopBuild == [dst : Top, count : 1 .. MaxInstances, of : SUBSET Bottom]

Init ==
  /\ backend \in Backend
  /\ room = [b \in Bottom |-> 0]
  /\ holds = [s \in Bottom \cup Top |-> Nothing]
  /\ asked = holds
  /\ fresh = {}

(* The caller makes a structure for a build it has in mind. *)
CreateBlas(b, shape) ==
  /\ holds[b] = Nothing /\ room[b] = 0
  /\ room' = [room EXCEPT ![b] = BlasSizeRequirements([dst |-> b, shape |-> shape])]
  /\ UNCHANGED <<backend, holds, asked, fresh>>

Destinations(builds) == {builds[k].dst : k \in DOMAIN builds}

(* Its contract: each structure once in a call, big enough and not read or *)
(* written by a call before without a barrier.                             *)
MayBuild(builds) ==
  /\ builds # <<>>
  /\ IsInjective([k \in DOMAIN builds |-> builds[k].dst])
  /\ Destinations(builds) \cap fresh = {}
  /\ \A k \in DOMAIN builds :
       IF builds[k].dst \in Top
       THEN \A b \in builds[k].of : holds[b] # Nothing /\ b \notin fresh \cup Destinations(builds)
       ELSE BlasSizeRequirements(builds[k]) <= room[builds[k].dst]

WhatIsAsked(build) == IF build.dst \in Top THEN <<Instances(build)>> ELSE FillBlasInputs(build)

BuildAccelerationStructures(bottoms, tops) ==
  LET builds == bottoms \o tops
      turn == [s \in Destinations(builds) |-> CHOOSE k \in DOMAIN builds : builds[k].dst = s]
  IN
  /\ MayBuild(builds)
  /\ holds' = [s \in DOMAIN holds |-> IF s \in DOMAIN turn THEN Given(builds, turn[s]) ELSE holds[s]]
  /\ asked' = [s \in DOMAIN asked |->
                 IF s \in DOMAIN turn THEN WhatIsAsked(builds[turn[s]]) ELSE asked[s]]
  /\ fresh' = fresh \cup Destinations(builds)
  /\ UNCHANGED <<backend, room>>

AccelerationStructureBarrier ==
  /\ fresh # {}
  /\ fresh' = {}
  /\ UNCHANGED <<backend, room, holds, asked>>

Next ==
  \/ \E b \in Bottom, shape \in Shape : CreateBlas(b, shape)
  \/ \E bottoms \in BoundedSeq(BottomBuild, 2), tops \in BoundedSeq(TopBuild, 1) :
       BuildAccelerationStructures(bottoms, tops)
  \/ AccelerationStructureBarrier

Spec == Init /\ [][Next]_vars

-----------------------------------------------------------------------------
TypeOK ==
  /\ backend \in Backend /\ room \in [Bottom -> Nat]
  /\ DOMAIN holds = Bottom \cup Top /\ fresh \subseteq Bottom \cup Top
  /\ \A s \in DOMAIN holds : \A k \in DOMAIN holds[s] :
       holds[s][k].kind \in {"triangles", "boxes", "instances"} /\ holds[s][k].primitives \in Nat

(* Each structure is built of its own geometries, with their own primitive *)
(* counts, whichever builds share the call with it and the arrays with it, *)
(* and of the same on both backends.                                       *)
BuiltAsAsked == \A s \in Bottom \cup Top : holds[s] = asked[s]

(* What BlasSizeRequirements said of a build alone is enough for the same  *)
(* build in a call with others.                                            *)
FitsItsRoom == \A b \in Bottom : Total(holds[b]) <= room[b]
=============================================================================

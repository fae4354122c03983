------------------------------- MODULE Pipelines -------------------------------
(***************************************************************************)
(* What the two backends make of the description of a pipeline             *)
(* (src/RHIVulkan/Api/Pipeline.cpp, src/RHIDX12/Api/Pipeline.cpp), and     *)
(* what a draw with it finds.  Vulkan has specialisation constants; the    *)
(* DX12 backend keeps them in a constant buffer of the pipeline, a row for *)
(* each location, which the list binds when it sets the pipeline and which *)
(* stays bound under a pipeline that has none.                             *)
(*                                                                         *)
(* External: the shaders, each with the locations it reads, and how the    *)
(* two APIs read a description.  A shader of DX12 takes its default where  *)
(* the row is not marked and reads past no end; a root constant buffer has *)
(* no bounds.  One stage; the stages are alike.                            *)
(***************************************************************************)
EXTENDS Integers, Sequences, SequencesExt, FiniteSets, FiniteSetsExt

CONSTANTS
  Backend,     \* of "vulkan", and DX12 with either form of shader: "dxbc", "dxil"
  Name,        \* pipelines
  Shader,      \* records: constants (location and value, in order), reads (locations)
  Look,        \* records: bias, depth, stencil, front, back, targets, attributes, bindings
  Limit        \* MAX_SPECIALIZATION_CONSTANTS

VARIABLES
  backend,
  pipeline,    \* each pipeline, or None
  bound,       \* the pipeline set in the list, or None
  rows         \* the constant buffer bound at the root: its rows, or Unbound

vars == <<backend, pipeline, bound, rows>>

Default == 0         \* the value a shader has for a location of itself
None == [made |-> FALSE]
NoName == "none"
Unbound == <<>>

-----------------------------------------------------------------------------
(* Specialisation constants *)

(* createShaderStage: an entry for each constant, four bytes each. *)
Entries(constants) ==
  [k \in DOMAIN constants |-> [id |-> constants[k].location, offset |-> 4 * (k - 1), value |-> constants[k].value]]

Row == [value : Nat, set : BOOLEAN]
Empty == [value |-> 0, set |-> FALSE]
Resized(data, n) == [k \in 1 .. n |-> IF k <= Len(data) THEN data[k] ELSE Empty]

(* The loop over the constants: it grows to the location, then writes it. *)
Written(constants) ==
  FoldLeft(LAMBDA data, c :
             [Resized(data, Max({Len(data), c.location + 1})) EXCEPT
                ![c.location + 1] = [value |-> c.value, set |-> TRUE]],
           <<>>, constants)

(* A mistake: the shader is not asked what it reads. *)
RowsWritten(constants, reads) == Written(constants)

(* PopulateSpecialisationConstants.  The text of a DXBC shader names the   *)
(* rows it reads; of a DXIL shader all rows are kept.                      *)
Rows(constants, reads) ==
  LET data == Written(constants) IN
  IF backend = "dxil" THEN Resized(data, Limit)
  ELSE Resized(data, Max({Len(data)} \cup {l + 1 : l \in reads}))

-----------------------------------------------------------------------------
(* Fixed state: what a description comes to *)

Blends(targets, independent) ==
  [k \in DOMAIN targets |-> IF independent THEN targets[k] ELSE targets[1]]

(* The test states, read by both in the same way. *)
Tests(look) ==
  [depthTest |-> look.depth # "Ignore", depthWrite |-> look.depth = "ReadWrite",
   stencilTest |-> look.stencil # "Ignore"]

StencilOf(look, front, back) ==
  IF look.stencil = "Ignore" THEN <<>> ELSE <<front, back>>

VulkanRaster(look) ==
  [tests |-> Tests(look),
   stencil |-> StencilOf(look, look.front, look.back),
   bias |-> IF look.bias.on THEN <<look.bias.constant, look.bias.slope>> ELSE <<0, 0>>,
   blends |-> Blends(look.targets, TRUE)]

(* A mistake: all targets blend as the first. *)
D3DBlendsAsOne(look) ==
  [tests |-> Tests(look),
   stencil |-> StencilOf(look, look.front, look.front),
   bias |-> <<IF look.bias.on THEN look.bias.constant ELSE 0, look.bias.slope>>,
   blends |-> Blends(look.targets, FALSE)]

(* The masks of the front serve both faces; the slope is never off. *)
D3DRaster(look) ==
  [tests |-> Tests(look),
   stencil |-> StencilOf(look, look.front, look.front),
   bias |-> <<IF look.bias.on THEN look.bias.constant ELSE 0, look.bias.slope>>,
   blends |-> Blends(look.targets, Len(look.targets) > 1)]

(* Where each attribute is fetched from.  Vulkan has the bindings as they  *)
(* are; DX12 finds the binding of each attribute and keeps its stride by   *)
(* slot, zero where no attribute has one.                                  *)
BindingOf(look, slot) == CHOOSE b \in ToSet(look.bindings) : b.slot = slot
SlotsUsed(look) == {a.slot : a \in ToSet(look.attributes)}

Fetch(a, b) ==
  [location |-> a.location, slot |-> a.slot, offset |-> a.offset, stride |-> b.stride, instance |-> b.instance]
VulkanFetches(look) ==
  {Fetch(p[1], p[2]) : p \in {q \in ToSet(look.attributes) \X ToSet(look.bindings) : q[1].slot = q[2].slot}}

(* A mistake: the strides are kept in the order of the bindings. *)
StridesInOrder(look) == [k \in 1 .. Len(look.bindings) |-> look.bindings[k].stride]

(* mVertexBufferStrides *)
Strides(look) ==
  [k \in 1 .. Max({0} \cup {slot + 1 : slot \in SlotsUsed(look)}) |->
     IF k - 1 \in SlotsUsed(look) THEN BindingOf(look, k - 1).stride ELSE 0]

D3DFetches(look) ==
  LET strides == Strides(look) IN
  {[location |-> a.location, slot |-> a.slot, offset |-> a.offset,
    stride |-> IF a.slot + 1 \in DOMAIN strides THEN strides[a.slot + 1] ELSE 0,
    instance |-> BindingOf(look, a.slot).instance] : a \in ToSet(look.attributes)}

-----------------------------------------------------------------------------
TypeOK ==
  /\ backend \in Backend
  /\ \A n \in Name : pipeline[n] # None =>
       /\ pipeline[n].shader \in Shader /\ pipeline[n].look \in Look
       /\ pipeline[n].rows \in Seq(Row) /\ Len(pipeline[n].rows) <= Limit
  /\ bound \in Name \cup {NoName}
  /\ bound # NoName => pipeline[bound] # None
  /\ rows \in Seq(Row)

Init ==
  /\ backend \in Backend
  /\ pipeline = [n \in Name |-> None]
  /\ bound = NoName /\ rows = Unbound

CreateRasterPipeline(n, shader, look) ==
  /\ pipeline[n] = None
  /\ pipeline' = [pipeline EXCEPT ![n] =
       [made |-> TRUE, shader |-> shader, look |-> look,
        entries |-> IF backend = "vulkan" THEN Entries(shader.constants) ELSE <<>>,
        rows |-> IF backend = "vulkan" THEN <<>> ELSE Rows(shader.constants, shader.reads),
        raster |-> IF backend = "vulkan" THEN VulkanRaster(look) ELSE D3DRaster(look),
        fetches |-> IF backend = "vulkan" THEN VulkanFetches(look) ELSE D3DFetches(look)]]
  /\ UNCHANGED <<backend, bound, rows>>

(* SetRasterPipeline and SetComputePipeline: a pipeline without a buffer   *)
(* leaves the one before.                                                  *)
SetPipeline(n) ==
  /\ pipeline[n] # None
  /\ bound' = n
  /\ rows' = IF pipeline[n].rows # Unbound THEN pipeline[n].rows ELSE rows
  /\ UNCHANGED <<backend, pipeline>>

(* The pipeline goes once no list has it: the deferred destruction. *)
DestroyPipeline(n) ==
  /\ pipeline[n] # None /\ bound # n
  /\ pipeline' = [pipeline EXCEPT ![n] = None]
  /\ UNCHANGED <<backend, bound, rows>>

(* The list ends; the next one starts with nothing set. *)
NextList ==
  /\ bound # NoName
  /\ bound' = NoName /\ rows' = Unbound
  /\ UNCHANGED <<backend, pipeline>>

Next ==
  \/ \E n \in Name :
       \/ \E shader \in Shader, look \in Look : CreateRasterPipeline(n, shader, look)
       \/ SetPipeline(n) \/ DestroyPipeline(n)
  \/ NextList

Spec == Init /\ [][Next]_vars

-----------------------------------------------------------------------------
(* Properties *)

(* What the constant of a location was asked to be. *)
Asked(shader, l) ==
  LET given == {k \in DOMAIN shader.constants : shader.constants[k].location = l}
  IN IF given = {} THEN Default ELSE shader.constants[Max(given)].value

(* What the shader finds there: on Vulkan by the entry and the bytes it    *)
(* names, on DX12 in a row that must be there.                             *)
Finds(l, value) ==
  LET p == pipeline[bound] IN
  IF backend = "vulkan"
  THEN LET mine == {k \in DOMAIN p.entries : p.entries[k].id = l} IN
       IF mine = {} THEN value = Default
       ELSE \A k \in mine : \E j \in DOMAIN p.entries :
              4 * (j - 1) = p.entries[k].offset /\ p.entries[j].value = value
  ELSE /\ l + 1 \in DOMAIN rows
       /\ value = IF rows[l + 1].set THEN rows[l + 1].value ELSE Default

(* Whatever pipelines were set before it, the one that is set finds each   *)
(* specialisation constant its shader reads as its own description has it, *)
(* and reads no row that is not there                                      *)
(* (PopulateSpecialisationConstants, createShaderStage, SetRasterPipeline).*)
ConstantsAsAsked ==
  bound # NoName =>
    \A l \in pipeline[bound].shader.reads : Finds(l, Asked(pipeline[bound].shader, l))

(* A description that gives both faces the same masks, and a slope only    *)
(* with the bias on, comes to the same pipeline on both: the tests, the    *)
(* masks, the bias and the blending of each target it asks for.  On Vulkan *)
(* every description does.                                                 *)
SameOnBoth ==
  \A n \in Name :
    LET p == pipeline[n] IN
    (p # None /\ (backend = "vulkan" \/ (p.look.front = p.look.back /\ (p.look.bias.on \/ p.look.bias.slope = 0)))) =>
      /\ p.raster.tests = [depthTest |-> p.look.depth \in {"Read", "ReadWrite"},
                           depthWrite |-> p.look.depth = "ReadWrite",
                           stencilTest |-> p.look.stencil \in {"Read", "ReadWrite"}]
      /\ p.look.stencil # "Ignore" => p.raster.stencil = <<p.look.front, p.look.back>>
      /\ p.raster.bias = IF p.look.bias.on THEN <<p.look.bias.constant, p.look.bias.slope>> ELSE <<0, 0>>
      /\ p.raster.blends = p.look.targets

(* Each attribute is fetched with the stride and the rate of its own       *)
(* binding, in whatever order the bindings were given.                     *)
FetchesAsDeclared ==
  \A n \in Name : pipeline[n] # None =>
    LET look == pipeline[n].look IN
    /\ \A a \in ToSet(look.attributes) : \E f \in pipeline[n].fetches : f.location = a.location
    /\ \A f \in pipeline[n].fetches :
         /\ \E a \in ToSet(look.attributes) : f.location = a.location /\ f.slot = a.slot /\ f.offset = a.offset
         /\ \E b \in ToSet(look.bindings) : f.slot = b.slot /\ f.stride = b.stride /\ f.instance = b.instance
=============================================================================

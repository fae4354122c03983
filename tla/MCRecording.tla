---------------------------- MODULE MCRecording ----------------------------
(* The modules about what command lists record and what comes of it on the *)
(* GPU, and about the slots of the views they record with, side by side.   *)
(* They share no state: each behaviour runs one of them, for TLC on small  *)
(* instances.  RecordingProofs is about those with constants of their own  *)
(* here, for any value of these.                                           *)
EXTENDS D3DSlots

CONSTANTS
  Flags, Uav, Raster, Compute, Specialised, Null,               \* of D3DBindings
  PassBuffer, Colour, Depth, Layers, Usable, MaxTargets,        \* of D3DPasses
  VertexBuffer, VertexPipeline, VertexStrides, Slots, Queries,  \* of D3DInputs
  BarrierImage, SwapImage, Queue, Layout, MaxPending              \* of VulkanRecording

VARIABLES
  part,  \* what the behaviour is about
  bindingsState, bindingsPass, bindingsPending, last, blit, signature, root,
  heaps, bindingsPipeline, bindingsAsked,
  passesLayout, passesState, passesPass, targets, depth, resolves,
  passesResolved, touched,
  open, inputsPipeline, inputsPending, invalidated, inputsBound, minMax,
  written, inputsResolved,
  queue, barriersPending, barriersPass, completed, refs, barriersAsked,
  barriersLayout, owner, handed, used,
  copiesBackend, shape, staging, copiesImage, returned,
  viewsBackend, viewsImage, view,
  madeBackend, madePipeline, madeBound, rows,
  buildsBackend, room, holds, buildsAsked, fresh,
  clearedBackend, format, texel, planes, clearedAsked,
  samplingBackend, sampler, reads

(* D3DPasses: a multisampled target, an image it is resolved into, a       *)
(* depth-stencil image and a buffer.                                       *)
LayerCounts == [i \in {"b", "m", "c", "d"} |-> IF i \in {"b", "m"} THEN 1 ELSE 2]
UsableLayouts ==
  [i \in {"b", "m", "c", "d"} |->
     CASE i = "b" -> {"Undefined", "UnorderedAccess", "TransferDst"}
       [] i = "m" -> {"Undefined", "RenderTarget"}
       [] i = "c" -> {"Undefined", "RenderTarget", "BlitDst", "PresentSrc"}
       [] i = "d" -> {"Undefined", "RenderTarget", "RenderTargetReadOnly"}]

(* D3DInputs: pipelines with one buffer, two, and the second only. *)
PipelineStrides ==
  [p \in {"p", "q", "r"} |-> CASE p = "p" -> <<1>> [] p = "q" -> <<2, 1>> [] p = "r" -> <<0, 3>>]

(* ImageCopies: rows that fill their pitch and rows that do not, layers,   *)
(* depth, three bytes to a texel, blocks.                                  *)
OfShape(f, w, h, d, l) == [format |-> f, width |-> w, height |-> h, depth |-> d, layers |-> l]
Textures ==
  {OfShape(<<"R8", "Unorm">>, 3, 2, 1, 2), OfShape(<<"RGBA8", "Unorm">>, 3, 2, 1, 1),
   OfShape(<<"RGBA8", "Srgb">>, 2, 2, 1, 2), OfShape(<<"RGBA8", "Unorm">>, 1, 2, 2, 1),
   OfShape(<<"RGB8", "Unorm">>, 2, 2, 1, 1), OfShape(<<"BC1RGB", "Unorm">>, 6, 8, 1, 1),
   OfShape(<<"BC1RGB", "Unorm">>, 4, 8, 1, 2), OfShape(<<"BC7", "Unorm">>, 4, 8, 1, 2),
   OfShape(<<"BC7", "Unorm">>, 8, 4, 1, 1)}

(* ImageViews: formats of every kind. *)
PickedChannels ==
  {"R8", "BGRA8", "RG16", "E5BGR9", "B10GR11", "D16", "D32", "D24S8", "D32S8", "S8", "BC1RGB", "RGBA32"}
Formats == INSTANCE Formats
Picked == {f \in Formats!Format : f[1] \in PickedChannels}

(* Pipelines: constants in and out of order, both faces alike and not.     *)
Constant(l, v) == [location |-> l, value |-> v]
Code(c, r) == [constants |-> c, reads |-> r]
Shaders ==
  {Code(<<>>, {}), Code(<<>>, {2}), Code(<<Constant(1, 5), Constant(0, 6)>>, {0, 1}),
   Code(<<Constant(0, 7)>>, {0, 2})}
Bias(o, s) == [on |-> o, constant |-> 3, slope |-> s]
Attribute(l, s, o) == [location |-> l, slot |-> s, offset |-> o]
Vertices(s, t, i) == [slot |-> s, stride |-> t, instance |-> i]
Looks ==
  {[bias |-> Bias(TRUE, 2), depth |-> "Read", stencil |-> "Ignore", front |-> 1, back |-> 1,
    targets |-> <<1, 2>>, attributes |-> <<Attribute(0, 0, 0), Attribute(1, 2, 4)>>,
    bindings |-> <<Vertices(2, 8, TRUE), Vertices(0, 12, FALSE)>>],
   [bias |-> Bias(FALSE, 2), depth |-> "ReadWrite", stencil |-> "Read", front |-> 1, back |-> 2,
    targets |-> <<1>>, attributes |-> <<Attribute(0, 1, 0)>>, bindings |-> <<Vertices(1, 12, FALSE)>>],
   [bias |-> Bias(FALSE, 0), depth |-> "Ignore", stencil |-> "ReadWrite", front |-> 1, back |-> 1,
    targets |-> <<>>, attributes |-> <<>>, bindings |-> <<Vertices(0, 4, FALSE)>>]}

(* AccelerationBuilds: plain and indexed triangles, boxes. *)
Triangles(v) ==
  [kind |-> "triangles", vertices |-> v, indexType |-> "None", indexBuffer |-> FALSE, indices |-> 0]
IndexedTriangles(v, i) ==
  [kind |-> "triangles", vertices |-> v, indexType |-> "Uint16", indexBuffer |-> TRUE, indices |-> i]
Boxes(n) == [kind |-> "boxes", count |-> n]
Meshes == {<<Triangles(3), IndexedTriangles(4, 6)>>, <<Boxes(2), Boxes(1), Boxes(3)>>, <<Triangles(6)>>}

(* Clears: every component another one, and one no FLOAT has. *)
Colours == {<<0, 0, 0, 0>>, <<1, 2, 3, 4>>, <<5, 0, 6, 7>>}

Bindings == INSTANCE D3DBindings WITH
  state <- bindingsState, pass <- bindingsPass, pending <- bindingsPending,
  pipeline <- bindingsPipeline, asked <- bindingsAsked
ASSUME BindingsAssumption == Bindings!FlagAssumption /\ Bindings!KindAssumption

Passes == INSTANCE D3DPasses WITH
  Buffer <- PassBuffer, layout <- passesLayout, state <- passesState,
  pass <- passesPass, resolved <- passesResolved
ASSUME PassesAssumption == Passes!UsableAssumption
Inputs == INSTANCE D3DInputs WITH
  Buffer <- VertexBuffer, Pipeline <- VertexPipeline, Strides <- VertexStrides,
  pipeline <- inputsPipeline, pending <- inputsPending,
  bound <- inputsBound, resolved <- inputsResolved
ASSUME InputsAssumption == Inputs!SlotsAssumption
Barriers == INSTANCE VulkanRecording WITH
  Image <- BarrierImage, pending <- barriersPending, pass <- barriersPass,
  asked <- barriersAsked, layout <- barriersLayout
ASSUME BarriersAssumption == Barriers!LayoutAssumption
Copies == INSTANCE ImageCopies WITH
  Backend <- {"vulkan", "d3d"}, Texture <- {1, 2}, Shape <- Textures,
  RowAlignment <- 8, OffsetAlignment <- 4, backend <- copiesBackend,
  image <- copiesImage
Views == INSTANCE ImageViews WITH
  Backend <- {"vulkan", "d3d"}, Pick <- Picked, Levels <- 2, Layers <- 2,
  BufferSize <- 12, backend <- viewsBackend, image <- viewsImage
Made == INSTANCE Pipelines WITH
  Backend <- {"vulkan", "dxbc", "dxil"}, Name <- {"p1", "p2"},
  Shader <- Shaders, Look <- Looks, Limit <- 4, backend <- madeBackend,
  pipeline <- madePipeline, bound <- madeBound
Builds == INSTANCE AccelerationBuilds WITH
  Backend <- {"vulkan", "d3d"}, Bottom <- {"b1", "b2"}, Top <- {"t"},
  Shape <- Meshes, MaxInstances <- 2, backend <- buildsBackend,
  asked <- buildsAsked
Cleared == INSTANCE Clears WITH
  Backend <- {"vulkan", "d3d"}, Pick <- Picked, Colour <- Colours,
  Exact <- 4, backend <- clearedBackend, asked <- clearedAsked
Sampling == INSTANCE Samplers WITH
  Backend <- {"vulkan", "d3d"}, MaxLod <- 2, backend <- samplingBackend

bindingsVars == <<bindingsState, bindingsPass, bindingsPending, last, blit,
                  signature, root, heaps, bindingsPipeline, bindingsAsked>>
passesVars == <<passesLayout, passesState, passesPass, targets, depth,
                resolves, passesResolved, touched>>
inputsVars == <<open, inputsPipeline, inputsPending, invalidated,
                inputsBound, minMax, written, inputsResolved>>
barriersVars == <<queue, barriersPending, barriersPass, completed, refs,
                  barriersAsked, barriersLayout, owner, handed, used>>
copiesVars == <<copiesBackend, shape, staging, copiesImage, returned>>
viewsVars == <<viewsBackend, viewsImage, view>>
madeVars == <<madeBackend, madePipeline, madeBound, rows>>
buildsVars == <<buildsBackend, room, holds, buildsAsked, fresh>>
clearedVars == <<clearedBackend, format, texel, planes, clearedAsked>>
samplingVars == <<samplingBackend, sampler, reads>>

Modelled == {"slots", "bindings", "passes", "inputs", "barriers", "copies", "views", "made", "builds", "cleared", "sampling"}
all == <<part, vars, bindingsVars, passesVars, inputsVars, barriersVars,
         copiesVars, viewsVars, madeVars, buildsVars, clearedVars, samplingVars>>

Unused == "unused"
(* One part runs in each behaviour, the others stay as they are.           *)
(* Those with many initial states are started only to run.                 *)
PartInit ==
  /\ part \in Modelled /\ Init
  /\ Bindings!Init
  /\ Passes!Init
  /\ Inputs!Init
  /\ Barriers!Init /\ (part = "barriers" \/ queue = CHOOSE q \in Queue : TRUE)
  /\ IF part = "copies" THEN Copies!Init
     ELSE copiesBackend = Unused /\ shape = Unused /\ staging = Unused
          /\ copiesImage = Unused /\ returned = Unused
  /\ IF part = "views" THEN Views!Init
     ELSE viewsBackend = Unused /\ viewsImage = Unused /\ view = Unused
  /\ IF part = "made" THEN Made!Init
     ELSE madeBackend = Unused /\ madePipeline = Unused
          /\ madeBound = Unused /\ rows = Unused
  /\ IF part = "builds" THEN Builds!Init
     ELSE buildsBackend = Unused /\ room = Unused /\ holds = Unused
          /\ buildsAsked = Unused /\ fresh = Unused
  /\ IF part = "cleared" THEN Cleared!Init
     ELSE clearedBackend = Unused /\ format = Unused /\ texel = Unused
          /\ planes = Unused /\ clearedAsked = Unused
  /\ IF part = "sampling" THEN Sampling!Init
     ELSE samplingBackend = Unused /\ sampler = Unused /\ reads = Unused

PartNext ==
  /\ part' = part
  /\ \/ part = "slots" /\ Next
        /\ UNCHANGED <<bindingsVars, passesVars, inputsVars, barriersVars, copiesVars,
                      viewsVars, madeVars, buildsVars, clearedVars, samplingVars>>
     \/ part = "slots" /\ releases = MaxReleases /\ UNCHANGED all   \* the bound
     \/ part = "bindings" /\ Bindings!Next
        /\ UNCHANGED <<vars, passesVars, inputsVars, barriersVars, copiesVars, viewsVars,
                      madeVars, buildsVars, clearedVars, samplingVars>>
     \/ part = "passes" /\ Passes!Next
        /\ UNCHANGED <<vars, bindingsVars, inputsVars, barriersVars, copiesVars,
                      viewsVars, madeVars, buildsVars, clearedVars, samplingVars>>
     \/ part = "inputs" /\ Inputs!Next
        /\ UNCHANGED <<vars, bindingsVars, passesVars, barriersVars, copiesVars,
                      viewsVars, madeVars, buildsVars, clearedVars, samplingVars>>
     \/ part = "barriers" /\ Barriers!Next
        /\ UNCHANGED <<vars, bindingsVars, passesVars, inputsVars, copiesVars,
                      viewsVars, madeVars, buildsVars, clearedVars, samplingVars>>
     \/ part = "copies" /\ Copies!Next
        /\ UNCHANGED <<vars, bindingsVars, passesVars, inputsVars, barriersVars, viewsVars, madeVars,
                      buildsVars, clearedVars, samplingVars>>
     \/ part = "views" /\ Views!Next
        /\ UNCHANGED <<vars, bindingsVars, passesVars, inputsVars, barriersVars, copiesVars, madeVars,
                      buildsVars, clearedVars, samplingVars>>
     \/ part = "made" /\ Made!Next
        /\ UNCHANGED <<vars, bindingsVars, passesVars, inputsVars, barriersVars, copiesVars, viewsVars,
                      buildsVars, clearedVars, samplingVars>>
     \/ part = "builds" /\ Builds!Next
        /\ UNCHANGED <<vars, bindingsVars, passesVars, inputsVars, barriersVars, copiesVars, viewsVars,
                      madeVars, clearedVars, samplingVars>>
     \/ part = "cleared" /\ Cleared!Next
        /\ UNCHANGED <<vars, bindingsVars, passesVars, inputsVars, barriersVars, copiesVars, viewsVars,
                      madeVars, buildsVars, samplingVars>>
     \/ part = "sampling" /\ Sampling!Next
        /\ UNCHANGED <<vars, bindingsVars, passesVars, inputsVars, barriersVars, copiesVars, viewsVars,
                      madeVars, buildsVars, clearedVars>>

PartSpec == PartInit /\ [][PartNext]_all

-----------------------------------------------------------------------------
(* Every part keeps its types.                                             *)
PartsTypeOK ==
  /\ TypeOK /\ Bindings!TypeOK /\ Passes!TypeOK /\ Inputs!TypeOK /\ Barriers!TypeOK
  /\ part = "copies" => Copies!TypeOK
  /\ part = "views" => Views!TypeOK
  /\ part = "made" => Made!TypeOK
  /\ part = "builds" => Builds!TypeOK
  /\ part = "cleared" => Cleared!TypeOK
  /\ part = "sampling" => Sampling!TypeOK

(* D3DBindings and D3DInputs: but for a table dropped by a blit, a draw    *)
(* finds the pipeline, the constants and the views set last, never those   *)
(* of a blit, and reads from each slot the buffer set last with the stride *)
(* of its own pipeline; a list leaves nothing to the next.                 *)
DrawsFindWhatWasSet ==
  /\ Bindings!BoundUnlessBlitted /\ Bindings!NoDrawWithBlitState
  /\ Inputs!DrawsReadWhatIsSet
  /\ [](part = "inputs" => Inputs!ListsEndClean)

(* D3DPasses: every subresource, both planes of depth-stencil ones, is in  *)
(* a state that allows what its layout promises; what a pass clears or     *)
(* discards is attached to it, and it resolves what it was begun with,     *)
(* each once.                                                              *)
PassesKeepTheStates ==
  /\ [](part = "passes" => Passes!StatesFollowLayouts /\ Passes!TouchesOnlyAttached)
  /\ Passes!ResolvesItsOwn

(* VulkanRecording: a command finds every image that never changed queues  *)
(* in the layout the code names for it, and a list that moves a swap       *)
(* chain's image has the swap chain among its references.                  *)
BarriersAreInTime ==
  /\ [](part = "barriers" => Barriers!CommandsFindTheirLayouts)
  /\ Barriers!SwapMovesAreKnown

(* ImageCopies and Formats: the size GetRequiredStagingSize names keeps    *)
(* what a texture stages apart from the others; an image gets the rows     *)
(* staged for it, and what was read back is where the caller looks for it, *)
(* where offsets and pitches are of the kinds the backends handle.         *)
CopiesLand == part = "copies" =>
  /\ Copies!StagedApart /\ Copies!DownloadsReturn
  /\ Copies!VulkanUploadsLand /\ Copies!D3DUploadsLand

(* ImageViews: a view has every level and layer that was asked for, and    *)
(* nothing besides on Vulkan or where the whole was asked for; nothing     *)
(* writes to two levels at once; its format is one its Direct3D resource   *)
(* can be read in, of the size callers count on.                           *)
ViewsShowWhatWasAsked == part = "views" =>
  /\ Views!AskedIsCovered /\ Views!WholeIsExact /\ Views!WritesOneLevel
  /\ Views!FormatsFit /\ Views!TexelSizesAgree

(* Pipelines: a description comes to the same pipeline on both backends,   *)
(* each constant and each attribute is found where its shader reads it,    *)
(* whatever pipelines were set before.                                     *)
PipelinesAgree == part = "made" =>
  Made!ConstantsAsAsked /\ Made!SameOnBoth /\ Made!FetchesAsDeclared

(* AccelerationBuilds: each structure is built of its own geometries,      *)
(* whichever builds share the call, and in the room its size was asked     *)
(* for.                                                                    *)
BuildsFitTheirRoom == part = "builds" => Builds!BuiltAsAsked /\ Builds!FitsItsRoom

(* Clears and Samplers: a clear leaves in the planes asked for, and no     *)
(* other, what was asked, but for conversions to FLOATs and for depth      *)
(* together with stencil on Vulkan; a sampler reads as smoothly as was     *)
(* asked.                                                                  *)
ClearsAndSamplesAsAsked ==
  /\ part = "cleared" => Cleared!ClearsAsAsked /\ Cleared!PlanesAsAsked
  /\ part = "sampling" => Sampling!ReadsAsAsked

(* ICommandBuffer.hpp, "Source buffer copy offset in bytes.": an upload of *)
(* one layer finds it at its offset.                                       *)
OffsetIsHeeded == part = "copies" => Copies!OffsetIsHeeded
=============================================================================

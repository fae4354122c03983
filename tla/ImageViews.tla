------------------------------ MODULE ImageViews ------------------------------
(***************************************************************************)
(* What the views of an image, or of a buffer, cover, and whether their    *)
(* format fits it: CreateImage, CreateShaderResource, CreateUnorderedAccess*)
(* and the render targets of src/RHIDX12/Api, and CreateImageView and      *)
(* CreateBufferView of src/RHIVulkan/Api/Device.cpp.  The information a    *)
(* view is created from has the same fields in both.                       *)
(***************************************************************************)
EXTENDS Formats, FiniteSets

CONSTANTS
  Backend,          \* of {"vulkan", "d3d"}
  Pick,             \* the formats to create images of, a subset of Format
  Levels, Layers,   \* mipLevelCount and arrayLayerCount of the image
  BufferSize        \* of the buffer, in bytes: a number of words of four bytes

VARIABLES
  backend,
  image,    \* its format, and the DXGI format its resource got
  view      \* the view there is, or None: [kind, asked, covers, format]

vars == <<backend, image, view>>

None == [kind |-> "none"]

Remaining == 1000     \* ~0, for levels, for layers and for the size of a region
Word == 4

(* The ranges a caller may ask for inside of size: a count, or the rest.   *)
Ranges(size) ==
  {r \in (0 .. size - 1) \X (1 .. size) : r[1] + r[2] <= size}
    \cup ((0 .. size - 1) \X {Remaining})

Resolve(range, full) == IF range[2] = Remaining THEN full - range[1] ELSE range[2]

Span(base, count) == base .. base + count - 1
Meant(range, full) == Span(range[1], Resolve(range, full))

-----------------------------------------------------------------------------
ResourceFormatOfMutable(format, sampled, mutable) ==
  IF mutable THEN ToDXGIFormatTypeless(format) ELSE ToDXGIFormat(format)

(* CreateImage: what is to be read as another format, depths that shaders  *)
(* read among it, becomes a typeless resource.                             *)
ResourceFormat(format, sampled, mutable) ==
  IF (sampled /\ FormatIsDepthStencil(format)) \/ mutable
  THEN ToDXGIFormatTypeless(format)
  ELSE ToDXGIFormat(format)

(* CreateShaderResource reads depth as a colour; other formats with depth  *)
(* or stencil fail an assertion.                                           *)
ReadAs(format) ==
  CASE format[1] = "D16" -> <<"R16", "Unorm">>
    [] format[1] = "D32" -> <<"R32", "Sfloat">>
    [] OTHER -> ToDXGIFormat(format)

Readable(format) == FormatIsDepthStencil(format) => format[1] \in {"D16", "D32"}

SampledByCount(levels, layers, array) ==
  Span(0, Levels) \X (IF array THEN Span(layers[1], levels[2]) ELSE {0})

(* A shader resource on Direct3D starts where the slice does, and takes as *)
(* many levels, and layers, as the image has.  A view that is no array has *)
(* the first layer.  An unordered access view has the first level alone.   *)
SampledOnD3D(levels, layers, array) ==
  Span(levels[1], Levels) \X (IF array THEN Span(layers[1], Layers) ELSE {0})

StoredInAllLevels(levels, layers, array) ==
  Span(levels[1], Levels) \X (IF array THEN Span(layers[1], Layers) ELSE {0})

StoredOnD3D(levels, layers, array) ==
  {levels[1]} \X (IF array THEN Span(layers[1], Layers) ELSE {0})

(* Vulkan is given the slice as it is, ~0 for the rest being the same one. *)
CoveredOnVulkan(levels, layers) == Meant(levels, Levels) \X Meant(layers, Layers)

(* A buffer on Direct3D: FirstElement is the offset, as it is, of elements *)
(* of a word; on Vulkan both are bytes.                                    *)
Lesser(a, b) == IF a < b THEN a ELSE b
WordsOfRegion(region) == Span(region[1], region[2] \div Word)

WordsOnD3D(region) == Span(region[1], Lesser(BufferSize, region[2]) \div Word)

WordsOf(region) ==
  Span(region[1] \div Word, Resolve(region, BufferSize) \div Word)

-----------------------------------------------------------------------------
Create(kind, asked, covers, format) ==
  /\ view = None
  /\ view' = [kind |-> kind, asked |-> asked, covers |-> covers, format |-> format]
  /\ UNCHANGED <<backend, image>>

(* Formats that Direct3D has nothing for, GetFirstSupportedFormat does not *)
(* name; and a mutable image is read in those that have its channels.      *)
Supported(format) == backend = "d3d" => ToDXGIFormat(format) # Unknown

Readings ==
  {f \in Pick : Supported(f) /\ (f = image.format \/ (image.mutable /\ f[1] = image.format[1]))}

Init ==
  /\ backend \in Backend
  /\ \E format \in Pick, sampled \in BOOLEAN, mutable \in BOOLEAN :
        /\ Supported(format)
        /\ image = [format |-> format, sampled |-> sampled, mutable |-> mutable,
                    resource |-> ResourceFormat(format, sampled, mutable)]
  /\ view = None

Slice(levels, layers, array) ==
  /\ levels \in Ranges(Levels) /\ layers \in Ranges(Layers)
  /\ array \/ Meant(layers, Layers) = {0}

CreateShaderResource(format, levels, layers, array) ==
  /\ image.sampled /\ Readable(format) /\ Slice(levels, layers, array)
  /\ Create("sampled", Meant(levels, Levels) \X Meant(layers, Layers),
            IF backend = "d3d" THEN SampledOnD3D(levels, layers, array) ELSE CoveredOnVulkan(levels, layers),
            ReadAs(format))

(* "Only *ONE* mip level is allowed to be selected" (GPUResource.hpp). *)
CreateUnorderedAccess(format, levels, layers, array) ==
  /\ ~FormatIsDepthStencil(format) /\ Slice(levels, layers, array) /\ Resolve(levels, Levels) = 1
  /\ Create("stored", Meant(levels, Levels) \X Meant(layers, Layers),
            IF backend = "d3d" THEN StoredOnD3D(levels, layers, array) ELSE CoveredOnVulkan(levels, layers),
            ToDXGIFormat(format))

(* A target is one level of one layer, of the image's own format. *)
CreateRenderTarget(level, layer) ==
  Create("target", {<<level, layer>>}, {<<level, layer>>}, ToDXGIFormat(image.format))

CreateBufferView(region) ==
  /\ region[1] % Word = 0
  /\ Create("buffer", WordsOf(region),
            IF backend = "d3d" THEN WordsOnD3D(region) ELSE WordsOf(region), image.resource)

DestroyView == view # None /\ view' = None /\ UNCHANGED <<backend, image>>

Next ==
  \/ \E format \in Readings, levels \in Ranges(Levels), layers \in Ranges(Layers), array \in BOOLEAN :
        \/ CreateShaderResource(format, levels, layers, array)
        \/ CreateUnorderedAccess(format, levels, layers, array)
  \/ \E level \in 0 .. Levels - 1, layer \in 0 .. Layers - 1 : CreateRenderTarget(level, layer)
  \/ \E region \in Ranges(BufferSize) : CreateBufferView(region)
  \/ DestroyView

Spec == Init /\ [][Next]_vars

-----------------------------------------------------------------------------
Subresources == (0 .. Levels - 1) \X (0 .. Layers - 1)

TypeOK ==
  /\ backend \in Backend /\ image.format \in Pick
  /\ view # None =>
       /\ view.kind \in {"sampled", "stored", "target", "buffer"}
       /\ view.asked \subseteq (IF view.kind = "buffer" THEN Nat ELSE Subresources)
       /\ view.covers \subseteq (IF view.kind = "buffer" THEN Nat ELSE Nat \X Nat)

(* A view of an image has all that was asked for: no shader misses a level *)
(* or a layer.  On Vulkan, and where the whole was asked for, it has       *)
(* nothing besides, not even levels that are not there.                    *)
AskedIsCovered == view # None /\ view.kind # "buffer" => view.asked \subseteq view.covers

WholeIsExact ==
  (\/ view # None /\ backend = "vulkan"
   \/ view.kind = "target"
   \/ view.kind = "sampled" /\ view.asked = Subresources
   \/ view.kind = "stored" /\ \E level \in 0 .. Levels - 1 : view.asked = {level} \X (0 .. Layers - 1)
   \/ view.kind = "buffer" /\ view.asked = 0 .. BufferSize \div Word - 1)
    => view.covers = view.asked

(* A shader never writes, or a pass never draws, to two levels at once.    *)
WritesOneLevel ==
  view # None /\ view.kind \in {"stored", "target"} => \A a, b \in view.covers : a[1] = b[1]

(* A view has a format its Direct3D resource can be read in: with typeless *)
(* depth for the target and for the shader, and for MUTABLE_FORMAT, which  *)
(* "allows different formats when creating UAVs or SRVs" (GPUResource.hpp) *)
(* - of the formats but two, whose typeless counterpart is a typed one.    *)
FormatsFit ==
  (/\ backend = "d3d" /\ view # None /\ view.kind # "buffer"
   /\ image.mutable => image.format \notin {<<"RG16", "Unorm">>, <<"E5BGR9", "Ufloat">>})
    => Castable(image.resource, view.format)

(* The bytes callers count on for a texel, or a block, are those of the    *)
(* resource, but for stencil in planes, where there is no such number.     *)
TexelSizesAgree ==
  backend = "d3d" /\ ~FormatHasStencil(image.format) =>
     GetFormatSize(image.format) = DxgiSize(ToDXGIFormat(image.format)[1])

=============================================================================

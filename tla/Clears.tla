-------------------------------- MODULE Clears --------------------------------
(***************************************************************************)
(* Clears of an image or a buffer, at the start of a pass, inside of one   *)
(* and through an unordered access view: ClearUnorderedAccessView,         *)
(* ClearRenderTarget and the load operations of BeginRenderPass, in        *)
(* src/RHIVulkan/Api/CommandBuffer.cpp and src/RHIDX12/Api/CommandBuffer   *)
(* .cpp.  A colour is a union of four words, which the caller writes as    *)
(* the format is read.  Vulkan gets the union as it is; Direct3D wants     *)
(* words for one kind of clear and FLOATs for the others.                  *)
(*                                                                         *)
(* External: how the two APIs take the words to the format.  What each     *)
(* clear is applied to is the subject of ImageViews and D3DPasses.         *)
(***************************************************************************)
EXTENDS Formats

CONSTANTS
  Backend,     \* of {"vulkan", "d3d"}
  Pick,        \* the formats to clear, a subset of Format
  Colour,      \* what to clear to: numbers, one of each component
  Exact        \* up to here a FLOAT has every integer, up to the double every other (2^24)

VARIABLES
  backend,
  format,      \* of the image, or Buffer
  texel,       \* what is in each component
  planes,      \* what is in depth and in stencil
  asked        \* the clear there was last, or None

vars == <<backend, format, texel, planes, asked>>

Component == 1 .. 4
Plane == {"depth", "stencil"}
PlaneValue == 0 .. 2
Garbage == -1     \* a number nobody asked for
None == [by |-> "none"]
Buffer == <<"Buffer", "Uint">>

PlanesOf(f) ==
  {p \in Plane : (p = "depth" /\ FormatHasDepth(f)) \/ (p = "stencil" /\ FormatHasStencil(f))}

-----------------------------------------------------------------------------
(* External: a number written as a float is another one read as an         *)
(* integer, but for zero; signed and unsigned are the same bits.           *)
ReadAsUint(f, colour) ==
  [i \in Component |-> IF f[2] \in {"Uint", "Sint"} \/ colour[i] = 0 THEN colour[i] ELSE Garbage]

ReadAsFloat(f, colour) ==
  [i \in Component |-> IF f[2] \notin {"Uint", "Sint"} \/ colour[i] = 0 THEN colour[i] ELSE Garbage]

(* External: the FLOAT next to an integer up to twice Exact. *)
Rounded(n) ==
  IF n <= Exact \/ n % 2 = 0 THEN n ELSE IF (n + 1) % 4 = 0 THEN n + 1 ELSE n - 1

Repeated(colour) == [i \in Component |-> colour[1]]

(* A mistake: the words are taken for floats, whatever the format.         *)
ViewClearOfFloats(f, colour) == ReadAsFloat(f, colour)

(* D3DCommandBuffer::ClearUnorderedAccessView *)
D3DViewClear(f, colour) ==
  CASE f = Buffer -> ReadAsUint(f, Repeated(colour))
    [] f # Buffer /\ GetFormatNumericType(f) = "Float" -> ReadAsFloat(f, colour)
    [] OTHER -> ReadAsUint(f, colour)

(* The words go as they are; vkCmdFillBuffer repeats the first.            *)
VulkanViewClear(f, colour) == IF f = Buffer THEN Repeated(colour) ELSE colour

(* Floats are copied for as many bytes as a pointer has, eight in a build  *)
(* for 64 bits, so two FLOATs of four are what the stack had.              *)
D3DConvertClearColor(f, colour) ==
  CASE GetFormatNumericType(f) = "Float" ->
         {[i \in Component |-> IF i \in 1 .. 2 THEN ReadAsFloat(f, colour)[i] ELSE rest[i - 2]] :
            rest \in ({Garbage, 0} \cup {colour[i] : i \in 3 .. 4}) \X {Garbage, 0, colour[4]}}
    [] GetFormatNumericType(f) \in {"SignedInt", "UnsignedInt"} ->
         {[i \in Component |-> Rounded(ReadAsUint(f, colour)[i])]}
    [] OTHER -> {}      \* "Bad image format!"

TargetClear(f, colour) ==
  IF backend = "d3d" THEN D3DConvertClearColor(f, colour) ELSE {[i \in Component |-> colour[i]]}

-----------------------------------------------------------------------------
Init ==
  /\ backend \in Backend
  /\ format \in (Pick \ Compressed) \cup {Buffer}
  /\ backend = "d3d" /\ format # Buffer => ToDXGIFormat(format) # Unknown
  /\ texel = [i \in Component |-> Garbage]
  /\ planes = [p \in Plane |-> 0]
  /\ asked = None

IsColour == format # Buffer /\ ~FormatIsDepthStencil(format)

ClearUnorderedAccessView(colour) ==
  /\ format = Buffer \/ IsColour
  /\ texel' = IF backend = "d3d" THEN D3DViewClear(format, colour) ELSE VulkanViewClear(format, colour)
  /\ asked' = [by |-> "view", colour |-> colour]
  /\ UNCHANGED <<backend, format, planes>>

(* BeginRenderPass with a load operation Clear, or ClearRenderTarget. *)
ClearColourTarget(by, colour) ==
  /\ IsColour
  /\ texel' \in TargetClear(format, colour)
  /\ asked' = [by |-> by, colour |-> colour]
  /\ UNCHANGED <<backend, format, planes>>

(* A mistake: a flag for each plane and one value for both. *)
PlanesClearedAlike(by, flags, value) ==
  [p \in Plane |-> IF flags # {} THEN value[p] ELSE planes[p]]

(* A pass begins with an attachment for each plane, and a load operation   *)
(* for each; ClearRenderTarget has one mask, which Vulkan sets for depth   *)
(* and then sets, not adds to, for stencil.                                *)
PlanesCleared(by, flags, value) ==
  LET mask == IF backend = "vulkan" /\ by = "target" /\ "stencil" \in flags THEN {"stencil"} ELSE flags
  IN [p \in Plane |-> IF p \in mask THEN value[p] ELSE planes[p]]

ClearDepthStencil(by, flags, value) ==
  /\ format # Buffer
  /\ flags # {} /\ flags \subseteq PlanesOf(format)
  /\ planes' = PlanesCleared(by, flags, value)
  /\ asked' = [by |-> by, flags |-> flags, value |-> value, before |-> planes]
  /\ UNCHANGED <<backend, format, texel>>

Next ==
  \/ \E colour \in Colour : ClearUnorderedAccessView(colour)
  \/ \E by \in {"pass", "target"}, colour \in Colour : ClearColourTarget(by, colour)
  \/ \E by \in {"pass", "target"}, flags \in SUBSET Plane, value \in [Plane -> PlaneValue] :
        ClearDepthStencil(by, flags, value)

Spec == Init /\ [][Next]_vars

-----------------------------------------------------------------------------
TypeOK ==
  /\ backend \in Backend /\ format \in Pick \cup {Buffer}
  /\ texel \in [Component -> Int] /\ planes \in [Plane -> PlaneValue]
  /\ asked.by \in {"none", "view", "pass", "target"}

(* Direct3D targets whose FLOATs are not all converted, or not exactly.    *)
Kept(colour, i) ==
  \/ backend = "vulkan" \/ asked.by = "view"
  \/ IF GetFormatNumericType(format) = "Float" THEN i <= 2 ELSE colour[i] <= Exact

(* A clear leaves in every component the format has what was asked, of     *)
(* integers and of floats, on both backends: but for the blue and alpha of *)
(* a Direct3D target of floats and integers that a FLOAT does not have.    *)
ClearsAsAsked ==
  asked.by # "none" /\ (format = Buffer \/ IsColour) =>
    IF format = Buffer THEN texel = Repeated(asked.colour)
    ELSE \A i \in 1 .. GetFormatComponentCount(format) :
           Kept(asked.colour, i) => texel[i] = asked.colour[i]

(* No clear of one plane touches the other, and the other way round a      *)
(* plane that was to be cleared was, be it at the start of a pass or later *)
(* - depth together with stencil on Vulkan, inside of a pass, excepted.    *)
PlanesAsAsked ==
  format # Buffer /\ FormatIsDepthStencil(format) /\ asked.by # "none" =>
    \A p \in Plane :
      \/ planes[p] = (IF p \in asked.flags THEN asked.value[p] ELSE asked.before[p])
      \/ backend = "vulkan" /\ asked.by = "target" /\ p = "depth" /\ asked.flags = Plane
=============================================================================

------------------------------- MODULE Samplers -------------------------------
(***************************************************************************)
(* What the two backends make of the description of a sampler              *)
(* (CreateSampler in src/RHIVulkan/Api/Device.cpp and in src/RHIDX12/Api/  *)
(* Device.cpp).  Vulkan has every field of it; Direct3D has one filter for *)
(* the three cases, border colour and reduction are left as they are when  *)
(* nothing is set.                                                         *)
(*                                                                         *)
(* External: an anisotropic filter is linear in every case; how a shader   *)
(* reads beyond the edge of an image.                                      *)
(***************************************************************************)
EXTENDS Integers, FiniteSets

CONSTANTS
  Backend,     \* of {"vulkan", "d3d"}
  MaxLod       \* the number of levels a Vulkan sampler is clamped to (VK_LOD_CLAMP_NONE)

VARIABLES
  backend,
  sampler,     \* its description, or None
  reads        \* how the GPU reads with it, or None

vars == <<backend, sampler, reads>>

Case == {"min", "mag", "mip"}
AddressMode == {"Repeat", "MirroredRepeat", "ClampToEdge", "ClampToBorder", "MirrorClampToEdge"}
BorderColor == {"TransparentBlack", "OpaqueBlack", "OpaqueWhite"}
ReductionMode == {"WeightedAverage", "Min"}
None == [made |-> FALSE]

SamplerInfo ==
  [made : {TRUE}, linear : SUBSET Case, anisotropy : BOOLEAN, compare : BOOLEAN, address : AddressMode,
   border : BorderColor, reduction : ReductionMode, maxLod : {0, MaxLod, MaxLod + 1}]

-----------------------------------------------------------------------------
(* A mistake: a mix Direct3D is not asked for by name reads single texels. *)
FilterFallsToPoint(info) ==
  IF info.anisotropy THEN Case ELSE IF Cardinality(info.linear) = 2 THEN {} ELSE info.linear

(* All or one of the cases linear has a filter by its name here, two of    *)
(* them fall back to all.                                                  *)
ToD3D12Filter(info) ==
  IF info.anisotropy \/ Cardinality(info.linear) = 2 THEN Case ELSE info.linear

(* What is not filled in of D3D12_SAMPLER_DESC is zero. *)
D3DReads(info) ==
  [info EXCEPT !.linear = ToD3D12Filter(info),
               !.border = "TransparentBlack", !.reduction = "WeightedAverage"]

VulkanReads(info) ==
  [info EXCEPT !.linear = IF info.anisotropy THEN Case ELSE @,
               !.maxLod = IF @ > MaxLod THEN MaxLod ELSE @]

-----------------------------------------------------------------------------
Init == backend \in Backend /\ sampler = None /\ reads = None

CreateSampler(info) ==
  /\ sampler = None
  /\ sampler' = info
  /\ reads' = IF backend = "d3d" THEN D3DReads(info) ELSE VulkanReads(info)
  /\ UNCHANGED backend

DestroySampler ==
  /\ sampler # None
  /\ sampler' = None /\ reads' = None
  /\ UNCHANGED backend

Next == (\E info \in SamplerInfo : CreateSampler(info)) \/ DestroySampler

Spec == Init /\ [][Next]_vars

-----------------------------------------------------------------------------
TypeOK ==
  /\ backend \in Backend
  /\ sampler \in SamplerInfo \cup {None} /\ reads \in SamplerInfo \cup {None}

(* Where the two backends must agree: what was asked to be smooth is, what *)
(* is not a mix of filters is as it was asked for, beyond the edge as well *)
(* unless the border has a colour, and no level an image can have is kept  *)
(* from the shader.                                                        *)
ReadsAsAsked ==
  sampler # None =>
    /\ sampler.linear \subseteq reads.linear
    /\ (~sampler.anisotropy /\ Cardinality(sampler.linear) # 2) => reads.linear = sampler.linear
    /\ reads.compare = sampler.compare /\ reads.address = sampler.address
    /\ (sampler.address = "ClampToBorder" /\ (sampler.border = "TransparentBlack" \/ backend = "vulkan"))
         => reads.border = sampler.border
    /\ \A level \in 0 .. MaxLod : (level <= sampler.maxLod) <=> (level <= reads.maxLod)

=============================================================================

----------------------------- MODULE D3DPasses -----------------------------
(***************************************************************************)
(* Images in the command lists of the DX12 backend (CommandBuffer.cpp):    *)
(* barriers from layout to layout, render passes with their targets and    *)
(* resolves, and clears of targets.  The interface speaks of layouts of    *)
(* slices of an image, Direct3D of states of subresources, of which a      *)
(* depth-stencil image has one for each of its two planes.                 *)
(*                                                                         *)
(* "state" is Direct3D's: a set of bits, none for COMMON and PRESENT.  A   *)
(* barrier whose state before is not the one a subresource is in loses it. *)
(* "layout" is the application's side: it names the layout a slice is in   *)
(* (and Undefined only for images that have had none, as the remark at     *)
(* Types.hpp:596 has it), draws into images that are render targets, and   *)
(* ends a pass before it does anything else to images.                     *)
(***************************************************************************)
EXTENDS Naturals, Sequences, SequencesExt, FiniteSets

CONSTANTS
  Buffer, Colour, Depth, \* buffers, and images of the two kinds
  Layers,                \* how many layers each of them has
  Usable,                \* for each of them the layouts it is made for
  MaxTargets             \* Limits::MAX_BOUND_COLOR_TARGETS

(* No depth-stencil format can be blitted into: it would have to be one    *)
(* for render targets.                                                     *)
BufferLayout == {"Undefined", "UnorderedAccess", "ReadOnly", "TransferSrc", "TransferDst"}
ImageLayout == BufferLayout \cup {"RenderTarget", "RenderTargetReadOnly", "BlitSrc", "BlitDst", "PresentSrc"}
UsableAssumption ==
  /\ Buffer \cap Colour = {} /\ Buffer \cap Depth = {} /\ Colour \cap Depth = {}
  /\ \A i \in Buffer : Usable[i] \subseteq BufferLayout
  /\ \A i \in Colour : Usable[i] \subseteq ImageLayout
  /\ \A i \in Depth : Usable[i] \subseteq ImageLayout \ {"BlitDst"}
  /\ \A i \in Buffer \cup Colour \cup Depth : "Undefined" \in Usable[i]

Image == Colour \cup Depth
None == [of |-> "none", layer |-> 0]

Layer == UNION {[of : {i}, layer : 1..Layers[i]] : i \in Buffer \cup Image}
Planes(i) == IF i \in Depth THEN {0, 1} ELSE {0}
Subresource == UNION {[of : {l.of}, layer : {l.layer}, plane : Planes(l.of)] : l \in Layer}

(* A target is one layer.  A slice is some layers of a resource.           *)
Target == {l \in Layer : l.of \in Colour}
DepthTarget == {l \in Layer : l.of \in Depth}
Slices(i) == {m..n : m, n \in 1..Layers[i]} \ {{}}

VARIABLES
  layout,    \* of each layer, for the application
  state,     \* of each subresource, for Direct3D
  pass,      \* the attachments of the render pass: a sequence of [target, resolve] and a depth target
  targets,   \* mBoundColorTargets
  depth,     \* mBoundDepthStencilTarget
  resolves,  \* mRenderPassResolves
  resolved,  \* what the last pass resolved: a history variable
  touched    \* the targets cleared or discarded in this pass: a history variable

vars == <<layout, state, pass, targets, depth, resolves, resolved, touched>>

Attachment == [target : Target, resolve : Target \cup {None}]
NoPass == [colour |-> <<>>, depth |-> None]

TypeOK ==
  /\ \A l \in Layer : layout[l] \in Usable[l.of]
  /\ DOMAIN layout = Layer /\ DOMAIN state = Subresource
  /\ pass.colour \in Seq(Attachment) /\ pass.depth \in DepthTarget \cup {None}
  /\ targets \in [1..MaxTargets -> Target \cup {None}]
  /\ depth \in DepthTarget \cup {None}
  /\ resolves \in Seq(Target \X Target) /\ resolved \in Seq(Target \X Target)
  /\ touched \subseteq Target \cup DepthTarget \cup {None}

-----------------------------------------------------------------------------
(* Layouts as states (ToD3D12BufferResourceState, ToD3D12ImageResourceState) *)
ToD3D12State(l) ==
  CASE l = "UnorderedAccess" -> {"UNORDERED_ACCESS"}
    [] l = "ReadOnly" -> {"SHADER_RESOURCE", "COPY_SOURCE"}    \* GENERIC_READ
    [] l = "RenderTarget" -> {"RENDER_TARGET", "DEPTH_WRITE"}
    [] l = "RenderTargetReadOnly" -> {"RENDER_TARGET", "DEPTH_READ"}
    [] l = "TransferSrc" -> {"COPY_SOURCE"}
    [] l = "TransferDst" -> {"COPY_DEST"}
    [] l = "BlitSrc" -> {"SHADER_RESOURCE"}
    [] l = "BlitDst" -> {"RENDER_TARGET"}
    [] OTHER -> {}                                  \* Undefined, PresentSrc

(* ... less the bits that are not for images of this kind.                 *)
MaskedUnlessReadOnly(i, l) == ToD3D12State(l)
Masked(i, l) ==
  CASE i \in Buffer -> ToD3D12State(l)
    [] i \in Depth -> ToD3D12State(l) \ {"RENDER_TARGET"}
    [] i \in Colour -> ToD3D12State(l) \ {"DEPTH_WRITE", "DEPTH_READ"}

(* Direct3D's side of ResourceBarrier.                                     *)
Lost == {"lost"}
Transition(now, subresources, before, after) ==
  [s \in DOMAIN now |-> IF s \notin subresources THEN now[s]
                        ELSE IF now[s] = before THEN after ELSE Lost]

(* The subresources a barrier names: all of them, or those of the slice's  *)
(* layers in each plane.                                                   *)
Named(i, slice) == {s \in Subresource : s.of = i /\ s.layer \in slice}

-----------------------------------------------------------------------------
Init ==
  /\ layout = [l \in Layer |-> "Undefined"]
  /\ state = [s \in Subresource |-> {}]
  /\ pass = NoPass
  /\ targets = [i \in 1..MaxTargets |-> None] /\ depth = None
  /\ resolves = <<>> /\ resolved = <<>> /\ touched = {}

Outside == pass = NoPass

(* BufferBarrier and ImageBarrier: nothing where the states are the same   *)
(* (but for a UAV barrier, which moves no state).                          *)
Barrier(i, slice, from, to) ==
  LET before == Masked(i, from)
      after == Masked(i, to)
  IN
  /\ Outside
  /\ to # "Undefined"
  /\ \A n \in slice : layout[[of |-> i, layer |-> n]] = from
  /\ layout' = [l \in Layer |-> IF l.of = i /\ l.layer \in slice THEN to ELSE layout[l]]
  /\ state' = IF before = after THEN state
              ELSE Transition(state, Named(i, slice), before, after)
  /\ UNCHANGED <<pass, targets, depth, resolves, resolved, touched>>

(* The application's attachments: different layers, each in the layout it  *)
(* is attached in; a multisampled target may be resolved into another.     *)
Attachable(c, d) ==
  /\ ~(c = <<>> /\ d = None)
  /\ \A i \in DOMAIN c : \A t \in {c[i].target, c[i].resolve} \ {None} : layout[t] = "RenderTarget"
  /\ d # None => layout[d] \in {"RenderTarget", "RenderTargetReadOnly"}
  /\ \A i, j \in DOMAIN c :
       /\ c[i].target # c[j].resolve
       /\ i # j => c[i].target # c[j].target
       /\ i # j /\ c[i].resolve # None => c[i].resolve # c[j].resolve

(* Each colour attachment is put at its index, its resolve appended.       *)
Resolving(c) == {i \in DOMAIN c : c[i].resolve # None}
Nth(S, k) == CHOOSE i \in S : Cardinality({j \in S : j <= i}) = k
Wanted(c) ==
  [k \in 1..Cardinality(Resolving(c)) |->
     LET a == c[Nth(Resolving(c), k)] IN <<a.target, a.resolve>>]

BeginWritesPast(c, d, load) ==
  /\ Outside
  /\ Attachable(c, d)
  /\ pass' = [colour |-> c, depth |-> d]
  /\ targets' = [i \in 1..(Len(c) + 1) |-> IF i \in DOMAIN c THEN c[i].target ELSE None]
  /\ depth' = IF d = None THEN depth ELSE d
  /\ resolves' = resolves \o Wanted(c)
  /\ resolved' = <<>>
  /\ touched' = IF load THEN {} ELSE {c[i].target : i \in DOMAIN c} \cup ({d} \ {None})
  /\ UNCHANGED <<layout, state>>
BeginAtFirstPlace(c, d, load) ==
  /\ Outside
  /\ Attachable(c, d)
  /\ pass' = [colour |-> c, depth |-> d]
  /\ targets' = [i \in 1..MaxTargets |-> IF i = 1 /\ c # <<>> THEN Last(c).target ELSE targets[i]]
  /\ depth' = IF d = None THEN depth ELSE d
  /\ resolves' = resolves \o Wanted(c)
  /\ resolved' = <<>>
  /\ touched' = IF load THEN {} ELSE {c[i].target : i \in DOMAIN c} \cup ({d} \ {None})
  /\ UNCHANGED <<layout, state>>
BeginRenderPass(c, d, load) ==
  /\ Outside
  /\ Attachable(c, d)
  /\ pass' = [colour |-> c, depth |-> d]
  /\ targets' = [i \in 1..MaxTargets |-> IF i \in DOMAIN c THEN c[i].target ELSE targets[i]]
  /\ depth' = IF d = None THEN depth ELSE d
  /\ resolves' = resolves \o Wanted(c)
  /\ resolved' = <<>>
  /\ touched' = IF load THEN {} ELSE {c[i].target : i \in DOMAIN c} \cup ({d} \ {None})
  /\ UNCHANGED <<layout, state>>

(* Each resolve: both to their resolve states, the copy, and both back.    *)
First(t) == {s \in Subresource : s.of = t.of /\ s.layer = t.layer /\ s.plane = 0}

Resolve(now, r) ==
  LET in == Transition(Transition(now, First(r[2]), {"RENDER_TARGET"}, {"RESOLVE_DEST"}),
                       First(r[1]), {"RENDER_TARGET"}, {"RESOLVE_SOURCE"})
  IN Transition(Transition(in, First(r[2]), {"RESOLVE_DEST"}, {"RENDER_TARGET"}),
                First(r[1]), {"RESOLVE_SOURCE"}, {"RENDER_TARGET"})
settled[n \in 0..Len(resolves)] == IF n = 0 THEN state ELSE Resolve(settled[n - 1], resolves[n])

EndKeepsResolves ==
  /\ ~Outside
  /\ state' = settled[Len(resolves)]
  /\ resolved' = resolves
  /\ targets' = [i \in 1..MaxTargets |-> None] /\ depth' = None
  /\ pass' = NoPass
  /\ UNCHANGED <<layout, resolves, touched>>
EndRenderPass ==
  /\ ~Outside
  /\ state' = settled[Len(resolves)]
  /\ resolved' = resolves
  /\ resolves' = <<>>
  /\ targets' = [i \in 1..MaxTargets |-> None] /\ depth' = None
  /\ pass' = NoPass
  /\ UNCHANGED <<layout, touched>>

(* ClearRenderTarget of one of the pass' attachments.                      *)
ClearColour(i) ==
  /\ i \in DOMAIN pass.colour
  /\ touched' = touched \cup {targets[i]}
  /\ UNCHANGED <<layout, state, pass, targets, depth, resolves, resolved>>

ClearDepth ==
  /\ pass.depth # None
  /\ touched' = touched \cup {depth}
  /\ UNCHANGED <<layout, state, pass, targets, depth, resolves, resolved>>

(* Complete drops what resolves there are.                                 *)
Complete ==
  /\ Outside
  /\ resolves' = <<>>
  /\ UNCHANGED <<layout, state, pass, targets, depth, resolved, touched>>

Attachments ==
  {<<>>} \cup {<<a>> : a \in Attachment} \cup {<<a, b>> : a, b \in Attachment}

Next ==
  \/ \E i \in Buffer \cup Image : \E slice \in Slices(i), from \in Usable[i], to \in Usable[i] :
       Barrier(i, slice, from, to)
  \/ \E c \in Attachments, d \in DepthTarget \cup {None}, load \in BOOLEAN :
       BeginRenderPass(c, d, load)
  \/ EndRenderPass
  \/ \E i \in 1..MaxTargets : ClearColour(i)
  \/ ClearDepth
  \/ Complete

Spec == Init /\ [][Next]_vars

-----------------------------------------------------------------------------
(* What a command may do to an image in a layout, as the bit Direct3D asks *)
(* of the subresource.                                                     *)
Asks(i, l) ==
  CASE l = "UnorderedAccess" -> {"UNORDERED_ACCESS"}
    [] l \in {"ReadOnly", "BlitSrc"} -> {"SHADER_RESOURCE"}
    [] l \in {"RenderTarget", "BlitDst"} -> IF i \in Depth THEN {"DEPTH_WRITE"} ELSE {"RENDER_TARGET"}
    [] l = "RenderTargetReadOnly" -> IF i \in Depth THEN {"DEPTH_READ"} ELSE {"RENDER_TARGET"}
    [] l = "TransferSrc" -> {"COPY_SOURCE"}
    [] l = "TransferDst" -> {"COPY_DEST"}
    [] OTHER -> {}

Writes == {"UNORDERED_ACCESS", "RENDER_TARGET", "DEPTH_WRITE", "COPY_DEST"}
Legal(s) == \A b \in s \cap Writes : s = {b}

(* Every subresource, both planes of depth-stencil ones too, is in a state *)
(* Direct3D knows, the bits of which allow what its layout promises,       *)
(* whatever slices the barriers were for and whatever was resolved.        *)
StatesFollowLayouts ==
  \A s \in Subresource :
    LET l == layout[[of |-> s.of, layer |-> s.layer]] IN
    /\ state[s] # Lost
    /\ Asks(s.of, l) \subseteq state[s] /\ Legal(state[s])
    /\ l = "PresentSrc" => state[s] = {}

(* A pass resolves what it was begun with, each once, and nothing of a     *)
(* pass before it.                                                         *)
ResolvesItsOwn == [][EndRenderPass => resolved' = Wanted(pass.colour)]_vars

(* What is cleared or discarded in a pass is attached to it, and is not    *)
(* what was attached at that place in a pass before.                       *)
TouchesOnlyAttached ==
  ~Outside => touched \subseteq {pass.colour[i].target : i \in DOMAIN pass.colour} \cup {pass.depth}
=============================================================================

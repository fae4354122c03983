---------------------------- MODULE D3DBindings ----------------------------
(***************************************************************************)
(* What a command list of the DX12 backend has bound while it is recorded  *)
(* (CommandBuffer.cpp): root signature and root parameters, descriptor     *)
(* heaps, pipeline.  The interface binds UAVs one by one, Direct3D whole   *)
(* tables in a heap, of which one is set at a time; a blit is a draw with  *)
(* a root signature, heaps and a pipeline of its own.  So the list keeps   *)
(* notes (what is pending, what was bound last, whether it has blitted)    *)
(* and brings Direct3D's state up to date as late as it can.               *)
(*                                                                         *)
(* "root", "heaps", "pipeline" and "signature" are the state of the        *)
(* ID3D12GraphicsCommandList: another root signature makes every root      *)
(* parameter stale, and a table is good only in the heap that is set.      *)
(* A table is named by the UAVs in it; which heap that is, and that it     *)
(* stays, is D3DDescriptorTables' matter.                                  *)
(***************************************************************************)
EXTENDS Naturals

CONSTANTS
  Flags,       \* mInfo.flags of the queue
  Uav,
  Raster,      \* raster pipelines
  Compute,     \* compute pipelines
  Specialised, \* the pipelines with specialisation constants
  Null         \* nothing: no UAV, no table, no pipeline, a stale parameter

Default == "default"                 \* mDefaultUAVDescriptorTable
Table == Uav \cup {Default}
Pipeline == Raster \cup Compute
Blit == "blit"                       \* the heaps and the pipeline of blits
Clear == "clear"                     \* the heap ClearUnorderedAccessView makes

(* The queues of a device (Device.cpp:1746-1761): a graphics queue can     *)
(* compute as well, and on one that only transfers nothing is bound.       *)
FlagAssumption == Flags \subseteq {"graphics", "compute"} /\ "compute" \in Flags
KindAssumption ==
  /\ Raster \cap Compute = {} /\ Specialised \subseteq Pipeline
  /\ Null \notin Table \cup Pipeline /\ Blit \notin Pipeline

VARIABLES
  state,      \* "closed" or "open"
  pass,       \* inside a render pass
  pending,    \* mPendingUAVBinds: the UAV bound, if any
  last,       \* mGraphicsLastBoundUAVDescriptorTable, mComputeLast...
  blit,       \* bBlitImageState
  signature,  \* graphics root signature: "main", or that of blits
  root,       \* root parameters, for graphics and for compute
  heaps,      \* descriptor heaps set
  pipeline,   \* pipeline state set
  asked       \* what the application has set in this list, for graphics: a history variable

vars == <<state, pass, pending, last, blit, signature, root, heaps, pipeline, asked>>

(* Root parameters: 0 push constants, 1-5 specialisation constants, 6-13   *)
(* uniform buffers, 14 and 16 the table, 15 samplers, 17 the draw's index. *)
Stale == [table |-> Null, samplers |-> FALSE, draw |-> FALSE, spec |-> Null,
          constants |-> FALSE, uniforms |-> FALSE]
Parameters == [table : Table \cup {Null}, samplers : BOOLEAN, draw : BOOLEAN,
               spec : Pipeline \cup {Null}, constants : BOOLEAN, uniforms : BOOLEAN]
Nothing == [constants |-> FALSE, uniforms |-> FALSE, blit |-> FALSE]

TypeOK ==
  /\ state \in {"closed", "open"}
  /\ pass \in BOOLEAN /\ blit \in BOOLEAN
  /\ pending \in Uav \cup {Null}
  /\ last \in [{"graphics", "compute"} -> Table \cup {Null}]
  /\ signature \in {"main", Blit}
  /\ root \in [{"graphics", "compute"} -> Parameters]
  /\ heaps \in [views : Table \cup {Blit, Clear}, samplers : {"main", Blit, Null}]
  /\ pipeline \in Pipeline \cup {Blit, Null}
  /\ asked \in [constants : BOOLEAN, uniforms : BOOLEAN, blit : BOOLEAN]

Unbound == [p \in {"graphics", "compute"} |-> Null]
NoParameters == [p \in {"graphics", "compute"} |-> Stale]

Init ==
  /\ state = "closed" /\ pass = FALSE
  /\ pending = Null /\ last = Unbound /\ blit = FALSE
  /\ signature = "main" /\ root = NoParameters
  /\ heaps = [views |-> Default, samplers |-> "main"]
  /\ pipeline = Null
  /\ asked = Nothing

(* The queue resets the list and sets the default table and the samplers   *)
(* for whatever the queue can do.                                          *)
GetCommandBuffer ==
  /\ state = "closed"
  /\ state' = "open"
  /\ signature' = "main"
  /\ root' = [p \in {"graphics", "compute"} |->
       IF p \in Flags
       THEN [Stale EXCEPT !.table = Default, !.samplers = TRUE, !.draw = (p = "graphics")]
       ELSE Stale]
  /\ heaps' = [views |-> Default, samplers |-> "main"]
  /\ pipeline' = Null
  /\ asked' = Nothing
  /\ UNCHANGED <<pass, pending, last, blit>>

-----------------------------------------------------------------------------
(* FlushPendingUnorderedAccessViewBinds, from notes "was" and heaps "set": *)
(* where the table for what is pending is not the one bound last, it is    *)
(* bound, and its heap set.                                                *)
Wanted == IF pending = Null THEN Default ELSE pending

Rebind(was) == {p \in Flags : was[p] # Wanted}

FlushPendingUnorderedAccessViewBinds(was, set) ==
  LET changed == Rebind(was) IN
  /\ last' = [p \in DOMAIN was |-> IF p \in changed THEN Wanted ELSE was[p]]
  /\ heaps' = IF changed = {} THEN set ELSE [views |-> Wanted, samplers |-> "main"]

(* ... and the root parameters afterwards.  What is set under the root     *)
(* signature of blits, which has no such parameter, is lost.               *)
Flushed(was) ==
  [p \in DOMAIN root |->
     IF p \in Rebind(was) /\ (p = "compute" \/ signature = "main")
     THEN [root[p] EXCEPT !.table = Wanted]
     ELSE root[p]]

(* RequireNonBlitState: the state a list starts with is set again, but for *)
(* the parameters, of which those for graphics stay stale ("Restored"), and *)
(* the compute table is noted as bound.                                    *)
Restored == IF blit THEN Stale ELSE root.graphics

RequireNonBlitKeepsHeaps ==
  /\ blit' = FALSE
  /\ signature' = "main"
  /\ last' = IF blit THEN [last EXCEPT !.compute = Default] ELSE last
  /\ UNCHANGED heaps
RequireNonBlitState ==
  /\ blit' = FALSE
  /\ signature' = "main"
  /\ heaps' = IF blit THEN [views |-> Default, samplers |-> "main"] ELSE heaps
  /\ last' = IF blit THEN [last EXCEPT !.compute = Default] ELSE last

Recording == state = "open"

PushConstant ==
  /\ Recording
  /\ RequireNonBlitState
  /\ root' = [root EXCEPT !.graphics = [Restored EXCEPT !.constants = TRUE]]
  /\ asked' = [asked EXCEPT !.constants = TRUE]
  /\ UNCHANGED <<state, pass, pending, pipeline>>

SetUniformBufferView ==
  /\ Recording
  /\ RequireNonBlitState
  /\ root' = [root EXCEPT !.graphics = [Restored EXCEPT !.uniforms = TRUE]]
  /\ asked' = [asked EXCEPT !.uniforms = TRUE]
  /\ UNCHANGED <<state, pass, pending, pipeline>>

SetUnorderedAccessView(u) ==
  /\ Recording
  /\ pending' = u
  /\ UNCHANGED <<state, pass, last, blit, signature, root, heaps, pipeline, asked>>

(* The specialisation constants are set first, the blit's state ends last. *)
SetRasterPipeline(p) ==
  /\ Recording
  /\ pipeline' = p
  /\ RequireNonBlitState
  /\ root' = [root EXCEPT !.graphics =
       IF p \in Specialised /\ ~blit THEN [@ EXCEPT !.spec = p] ELSE Restored]
  /\ UNCHANGED <<state, pass, pending, asked>>

SetComputePipeline(p) ==
  /\ Recording
  /\ pipeline' = p
  /\ root' = IF p \in Specialised THEN [root EXCEPT !.compute.spec = p] ELSE root
  /\ UNCHANGED <<state, pass, pending, last, blit, signature, heaps, asked>>

-----------------------------------------------------------------------------
(* Work.  A draw needs a raster pipeline and a render pass, a dispatch a   *)
(* compute pipeline outside of one: after a blit, and after a pipeline of  *)
(* the other kind, the application sets its own again.                     *)

Draw ==
  /\ Recording /\ pass
  /\ pipeline \in Raster
  /\ FlushPendingUnorderedAccessViewBinds(last, heaps)
  /\ root' = Flushed(last)
  /\ UNCHANGED <<state, pass, pending, blit, signature, pipeline, asked>>

(* Each indirect draw is preceded by its index in root parameter 17, which *)
(* is 0 again afterwards.                                                  *)
DrawIndirect ==
  /\ Recording /\ pass
  /\ pipeline \in Raster
  /\ FlushPendingUnorderedAccessViewBinds(last, heaps)
  /\ root' = [Flushed(last) EXCEPT !.graphics.draw = TRUE]
  /\ UNCHANGED <<state, pass, pending, blit, signature, pipeline, asked>>

Dispatch ==
  /\ Recording /\ ~pass
  /\ pipeline \in Compute
  /\ FlushPendingUnorderedAccessViewBinds(last, heaps)
  /\ root' = Flushed(last)
  /\ UNCHANGED <<state, pass, pending, blit, signature, pipeline, asked>>

(* The temporary heap replaces the others; the notes are forgotten, and    *)
(* the tables bound again.                                                 *)
ClearUnorderedAccessView ==
  /\ Recording /\ ~pass
  /\ FlushPendingUnorderedAccessViewBinds(Unbound, [views |-> Clear, samplers |-> Null])
  /\ root' = Flushed(Unbound)
  /\ UNCHANGED <<state, pass, pending, blit, signature, pipeline, asked>>

BlitImageToImage ==
  /\ Recording /\ ~pass /\ "graphics" \in Flags
  /\ pipeline' = Blit
  /\ signature' = Blit
  /\ root' = [root EXCEPT !.graphics = Stale]
  /\ heaps' = [views |-> Blit, samplers |-> Blit]
  /\ blit' = TRUE
  /\ asked' = [asked EXCEPT !.blit = TRUE]
  /\ UNCHANGED <<state, pass, pending, last>>

BeginRenderPass ==
  /\ Recording /\ ~pass /\ "graphics" \in Flags
  /\ pass' = TRUE
  /\ UNCHANGED <<state, pending, last, blit, signature, root, heaps, pipeline, asked>>

EndRenderPass ==
  /\ Recording /\ pass
  /\ pass' = FALSE
  /\ UNCHANGED <<state, pending, last, blit, signature, root, heaps, pipeline, asked>>

CompleteKeepsNotes ==
  /\ Recording /\ ~pass
  /\ state' = "closed"
  /\ pending' = Null
  /\ blit' = FALSE
  /\ UNCHANGED <<pass, last, signature, root, heaps, pipeline, asked>>
Complete ==
  /\ Recording /\ ~pass
  /\ state' = "closed"
  /\ pending' = Null
  /\ last' = Unbound
  /\ blit' = FALSE
  /\ UNCHANGED <<pass, signature, root, heaps, pipeline, asked>>

Next ==
  \/ GetCommandBuffer
  \/ PushConstant \/ SetUniformBufferView
  \/ \E u \in Uav \cup {Null} : SetUnorderedAccessView(u)
  \/ \E p \in Raster : SetRasterPipeline(p)
  \/ \E p \in Compute : SetComputePipeline(p)
  \/ Draw \/ DrawIndirect \/ Dispatch
  \/ ClearUnorderedAccessView \/ BlitImageToImage
  \/ BeginRenderPass \/ EndRenderPass
  \/ Complete

Spec == Init /\ [][Next]_vars

-----------------------------------------------------------------------------
(* The shaders of a draw or dispatch find what is bound: the table of the  *)
(* pending UAVs is the root parameter and lies in the heap that is set,    *)
(* next to the samplers.                                                   *)
TableIsThere(p) ==
  /\ root'[p].table = Wanted
  /\ heaps' = [views |-> Wanted, samplers |-> "main"]
  /\ root'[p].samplers

SpecIsThere(p) == pipeline \in Specialised => root'[p].spec = pipeline

(* In a list that has not blitted each draw and each dispatch finds what   *)
(* the application has bound, however binds, clears, pipelines and passes  *)
(* are mixed.                                                              *)
BoundUnlessBlitted ==
  [][~asked.blit =>
       /\ Draw \/ DrawIndirect =>
            /\ TableIsThere("graphics") /\ SpecIsThere("graphics")
            /\ signature = "main" /\ root'.graphics.draw
            /\ asked.constants => root'.graphics.constants
            /\ asked.uniforms => root'.graphics.uniforms
       /\ Dispatch => TableIsThere("compute") /\ SpecIsThere("compute")]_vars

(* A blit leaves neither its root signature nor its heaps to a draw: the   *)
(* heap set is that of the pending UAVs.                                   *)
NoDrawWithBlitState ==
  [][Draw \/ DrawIndirect =>
       signature = "main" /\ heaps' = [views |-> Wanted, samplers |-> "main"]]_vars

(* "last minute copy the entire bindless array to a new descriptor heap    *)
(* [...] and then bind it": each draw has the table of its UAVs bound,     *)
(* after a blit too.                                                       *)
DrawsAreBound == [][Draw => root'.graphics.table = Wanted]_vars
=============================================================================

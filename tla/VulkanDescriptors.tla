------------------------- MODULE VulkanDescriptors --------------------------
(***************************************************************************)
(* The bindless descriptors of the Vulkan backend: GPUShaderResourceTable  *)
(* (src/RHIVulkan/Api/GPUResourcePool.cpp), the views, samplers and top    *)
(* level acceleration structures Device.cpp writes into it, and the        *)
(* submitted work that reads it.                                           *)
(*                                                                         *)
(* There is one descriptor set, updated while work that reads it is under  *)
(* way (UPDATE_AFTER_BIND): a descriptor sits at the index of its handle's *)
(* slot, so what keeps the device from reading another resource's          *)
(* descriptor is that a slot is not given out again before the work that   *)
(* knows its index is done.  That is ResourceLifetime's promise, which     *)
(* VulkanDevice implements; Collect takes it for granted here.             *)
(***************************************************************************)
EXTENDS Integers, Sequences, SequencesExt, FiniteSets

CONSTANTS
  Work,          \* submissions
  MaxResources,  \* per pool: MAX_VK_BINDLESS_BUFFERS = MAX_VK_BINDLESS_IMAGES and the like
  MaxObjects     \* bound: objects made

VARIABLES
  nextIndex, freeIndices,  \* of each pool
  descriptors,             \* of each binding, what its elements name
  objects,                 \* Vulkan objects that exist: image views, samplers, structures
  made,                    \* bound and name giver
  live,                    \* handles of the application
  condemned,               \* mResourceZombies, oldest first
  reads                    \* what each submission under way reads

vars == <<nextIndex, freeIndices, descriptors, objects, made, live, condemned, reads>>

(* A view of a buffer, SRV or UAV; of an image whose usage has             *)
(* SHADER_RESOURCE, and of one whose usage has not.                        *)
Kind == {"buffer", "image", "storage image", "sampler", "tlas"}
Pool == {"views", "samplers", "tlas"}
PoolOf(kind) == CASE kind = "sampler" -> "samplers" [] kind = "tlas" -> "tlas" [] OTHER -> "views"

Binding == {"STORAGE_BUFFER", "SAMPLED_IMAGE", "SAMPLER", "ACCELERATION_STRUCTURE"}
Index == 1 .. MaxResources - 1
Unwritten == 0
Handle == [kind : Kind, index : Index, object : 1 .. MaxObjects]

TypeOK ==
  /\ nextIndex \in [Pool -> 1 .. MaxResources]
  /\ \A p \in Pool : freeIndices[p] \in Seq(Index)
  /\ descriptors \in [Binding -> [Index -> 0 .. MaxObjects]]
  /\ objects \subseteq 1 .. MaxObjects
  /\ made \in 0 .. MaxObjects
  /\ live \subseteq Handle
  /\ condemned \in Seq(Handle)
  /\ reads \in [Work -> SUBSET Handle]

Init ==
  /\ nextIndex = [p \in Pool |-> 1]
  /\ freeIndices = [p \in Pool |-> <<>>]
  /\ descriptors = [b \in Binding |-> [i \in Index |-> Unwritten]]
  /\ objects = {}
  /\ made = 0
  /\ live = {}
  /\ condemned = <<>>
  /\ reads = [w \in Work |-> {}]

-----------------------------------------------------------------------------

(* A mistake: a view of a storage image is written where an image view is  *)
(* read, and a buffer's where the last kind of view was.                   *)
BindingsSwapped(kind) ==
  CASE kind = "buffer" -> {"SAMPLED_IMAGE"} [] kind = "image" -> {"STORAGE_BUFFER"}
    [] kind = "sampler" -> {"SAMPLER"} [] kind = "tlas" -> {"ACCELERATION_STRUCTURE"} [] OTHER -> {}

(* WriteDescriptorSet*: the binding that is written.  An image view is     *)
(* written by the usage of its image, for a UAV as for an SRV.             *)
Bindings(kind) ==
  CASE kind = "buffer" -> {"STORAGE_BUFFER"} [] kind = "image" -> {"SAMPLED_IMAGE"}
    [] kind = "sampler" -> {"SAMPLER"} [] kind = "tlas" -> {"ACCELERATION_STRUCTURE"} [] OTHER -> {}

NewSlot(p, i) ==
  IF freeIndices[p] = <<>>
  THEN /\ nextIndex[p] < MaxResources   \* assert "exceeded max resource count"
       /\ i = nextIndex[p]
       /\ nextIndex' = [nextIndex EXCEPT ![p] = @ + 1]
       /\ UNCHANGED freeIndices
  ELSE /\ i = Last(freeIndices[p])
       /\ freeIndices' = [freeIndices EXCEPT ![p] = Front(@)]
       /\ UNCHANGED nextIndex

(* CreateBufferView, CreateImageView, CreateSampler, CreateTlas. *)
Create(kind) ==
  \E i \in Index :
    /\ made < MaxObjects   \* the bound
    /\ NewSlot(PoolOf(kind), i)
    /\ made' = made + 1
    /\ objects' = objects \cup {made'}
    /\ descriptors' = [b \in Binding |->
                         IF b \in Bindings(kind) THEN [descriptors[b] EXCEPT ![i] = made'] ELSE descriptors[b]]
    /\ live' = live \cup {[kind |-> kind, index |-> i, object |-> made']}
    /\ UNCHANGED <<condemned, reads>>

(* Work is recorded and submitted with indices of live handles. *)
Submit(w) ==
  /\ reads[w] = {}
  /\ \E used \in SUBSET live :
       /\ used # {}
       /\ reads' = [reads EXCEPT ![w] = used]
  /\ UNCHANGED <<nextIndex, freeIndices, descriptors, objects, made, live, condemned>>

Complete(w) ==
  /\ reads[w] # {}
  /\ reads' = [reads EXCEPT ![w] = {}]
  /\ UNCHANGED <<nextIndex, freeIndices, descriptors, objects, made, live, condemned>>

DestroyDeferred(h) ==
  /\ h \in live
  /\ live' = live \ {h}
  /\ condemned' = Append(condemned, h)
  /\ UNCHANGED <<nextIndex, freeIndices, descriptors, objects, made, reads>>

(* A mistake: an image view of a UAV is not destroyed. *)
DestroyKeepsStorageViews(h) ==
  /\ objects' = IF h.kind = "storage image" THEN objects ELSE objects \ {h.object}
  /\ freeIndices' = [freeIndices EXCEPT ![PoolOf(h.kind)] = Append(@, h.index)]
  /\ UNCHANGED <<nextIndex, descriptors, made, reads>>

(* Destroy* without bDefer: the object goes, the slot is emptied and       *)
(* returned; the descriptor stays as it is.                                *)
Destroy(h) ==
  /\ objects' = objects \ {h.object}
  /\ freeIndices' = [freeIndices EXCEPT ![PoolOf(h.kind)] = Append(@, h.index)]
  /\ UNCHANGED <<nextIndex, descriptors, made, reads>>

(* The promise of ResourceLifetime. *)
Idle(h) == \A w \in Work : h \notin reads[w]

Collect ==
  /\ condemned # <<>>
  /\ Idle(Head(condemned))
  /\ condemned' = Tail(condemned)
  /\ Destroy(Head(condemned))
  /\ UNCHANGED live

(* The application destroys at once what it knows to be idle. *)
DestroyAtOnce(h) ==
  /\ h \in live
  /\ Idle(h)
  /\ live' = live \ {h}
  /\ Destroy(h)
  /\ UNCHANGED condemned

Next ==
  \/ \E kind \in Kind : Create(kind)
  \/ \E w \in Work : Submit(w) \/ Complete(w)
  \/ \E h \in live : DestroyDeferred(h) \/ DestroyAtOnce(h)
  \/ Collect

Spec == Init /\ [][Next]_vars

-----------------------------------------------------------------------------

Waiting == {condemned[k] : k \in DOMAIN condemned}

(* Where a shader of work under way looks for a view, a sampler or a       *)
(* structure, by the index of its handle, it finds that one and it still   *)
(* exists: neither a creation nor a destruction meanwhile has changed the  *)
(* descriptor or freed what it names.                                      *)
ReadsFindTheirs ==
  \A w \in Work : \A h \in reads[w] :
    /\ h.object \in objects
    /\ h.kind = "buffer" => descriptors["STORAGE_BUFFER"][h.index] = h.object
    /\ h.kind = "image" => descriptors["SAMPLED_IMAGE"][h.index] = h.object
    /\ h.kind = "sampler" => descriptors["SAMPLER"][h.index] = h.object
    /\ h.kind = "tlas" => descriptors["ACCELERATION_STRUCTURE"][h.index] = h.object

(* Objects and slots are there for the handles in somebody's hands and for *)
(* nothing else: an index given out is free once or held once.  Cleanup    *)
(* reports leaks by comparing the free indices with the next one.          *)
NothingLeaks ==
  /\ objects = {h.object : h \in live \cup Waiting}
  /\ \A p \in Pool :
       LET held == {h \in live \cup Waiting : PoolOf(h.kind) = p} IN
       /\ Len(freeIndices[p]) + Cardinality(held) = nextIndex[p] - 1
       /\ Range(freeIndices[p]) \cup {h.index : h \in held} = 1 .. nextIndex[p] - 1
=============================================================================

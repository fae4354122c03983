---------------------------- MODULE MemoryParts ----------------------------
(* VulkanMemory, VulkanDescriptors, D3DMemory, D3DUploadBuffers and        *)
(* Subranges side by side, and what is asked of each: checked by           *)
(* MCResources, proved in MemoryProofs.                                    *)

CONSTANTS
  Caller, Collector, Place, Image, Structure, Block, BlockSize, LastCount,  \* of VulkanMemory
  Work, MaxIndices, MaxObjects,                                             \* of VulkanDescriptors
  Alignment, HeapSize, MaxHandle,                                           \* of D3DMemory
  List, UploadSize, PerList, MaxSubmits, MaxUnused,                         \* of D3DUploadBuffers
  Modulus                                                                   \* of Subranges

VARIABLES
  slot, block, span, native, memoryLive, memoryCondemned, memoryCall,
  bindlessNextIndex, freeIndices, descriptors, objects, made, bindlessLive, bindlessCondemned, reads,
  placedCounter, blocks, things, rooms, placedLive, placedCondemned,
  offset, list, gpu, submits, deferred, available, deleted, uploadsDevice,
  what, left, taken

Memory == INSTANCE VulkanMemory WITH
  Thread <- Caller, live <- memoryLive, condemned <- memoryCondemned, call <- memoryCall
Bindless == INSTANCE VulkanDescriptors WITH
  MaxResources <- MaxIndices, nextIndex <- bindlessNextIndex, live <- bindlessLive,
  condemned <- bindlessCondemned
Placed == INSTANCE D3DMemory WITH
  BlockSize <- HeapSize, counter <- placedCounter, live <- placedLive, condemned <- placedCondemned
Uploads == INSTANCE D3DUploadBuffers WITH
  Size <- UploadSize, device <- uploadsDevice
Slices == INSTANCE Subranges

-----------------------------------------------------------------------------
(* VulkanMemory: what a thread makes, an application holds or the          *)
(* collector has yet to destroy has its slot, its Vulkan object and room   *)
(* of its own, and nothing else has; debugReferences counts the residents  *)
(* of a block, so that its assertion holds.                                *)
MemoryIsAccounted ==
  /\ Memory!SlotsAreHeld /\ Memory!RoomIsItsOwn
  /\ Memory!CountsResidents /\ Memory!BlockAssertHolds

(* VulkanDescriptors: a submission finds behind its handles what they      *)
(* meant when it was recorded, and every index is free, waits to be        *)
(* destroyed or is a live handle's: no Vulkan object outlives its handle.  *)
SubmissionsFindTheirViews == Bindless!ReadsFindTheirs /\ Bindless!NothingLeaks

(* D3DMemory: placed resources of a block lie inside it, apart and         *)
(* counted, and the maps have the data of exactly the handles that are     *)
(* live or condemned.                                                      *)
PlacedAreApartAndCounted ==
  Placed!PlacedApart /\ Placed!CountsResidents /\ Placed!DataFollowsHandles

(* D3DUploadBuffers: what a list uploads is intact until its copy is done; *)
(* every buffer is with one list, waits for one submission, is available   *)
(* or deleted, and a deleted one is in no work.                            *)
UploadsReachTheGpu ==
  Uploads!UploadsIntact /\ Uploads!BuffersConserved /\ Uploads!DeletedAreIdleAndAll

(* Subranges: what Subtract leaves, with what was taken, is the whole; the *)
(* pieces do not overlap; Contains, Intersects and Intersect say the same  *)
(* of two ranges.                                                          *)
SubtractIsExact ==
  Slices!LeftIsTheRest /\ Slices!PiecesApart /\ Slices!PredicatesAgree
=============================================================================

---------------------------- MODULE MCResources ----------------------------
(* Small instances, for TLC, of the modules about handles, memory and      *)
(* buffers. They share no state: each behaviour runs one of them.          *)
EXTENDS GpuResourcePool, MemoryParts

VARIABLE part   \* what the behaviour is about

memoryVars == <<slot, block, span, native, memoryLive, memoryCondemned,
                memoryCall>>
bindlessVars == <<bindlessNextIndex, freeIndices, descriptors, objects,
                  made, bindlessLive, bindlessCondemned, reads>>
placedVars == <<placedCounter, blocks, things, rooms, placedLive,
                placedCondemned>>
uploadsVars == <<offset, list, gpu, submits, deferred, available, deleted,
                 uploadsDevice>>
slicesVars == <<what, left, taken>>

Parts == {"pool", "memory", "bindless", "placed", "uploads", "slices"}
all == <<part, vars, memoryVars, bindlessVars, placedVars, uploadsVars,
         slicesVars>>

(* One part runs in each behaviour, the others stay as they are.           *)
PartInit ==
  /\ part \in Parts /\ Init
  /\ Memory!Init
  /\ Bindless!Init
  /\ Placed!Init
  /\ Uploads!Init
  /\ Slices!Init /\ (part = "slices" \/ what = "buffer")

PartNext ==
  /\ part' = part
  /\ \/ part = "pool" /\ Next
        /\ UNCHANGED <<memoryVars, bindlessVars, placedVars, uploadsVars, slicesVars>>
     \/ part = "memory" /\ Memory!Next
        /\ UNCHANGED <<vars, bindlessVars, placedVars, uploadsVars, slicesVars>>
     \/ part = "bindless" /\ Bindless!Next
        /\ UNCHANGED <<vars, memoryVars, placedVars, uploadsVars, slicesVars>>
     \/ part = "placed" /\ Placed!Next
        /\ UNCHANGED <<vars, memoryVars, bindlessVars, uploadsVars, slicesVars>>
     \/ part = "uploads" /\ Uploads!Next
        /\ UNCHANGED <<vars, memoryVars, bindlessVars, placedVars, slicesVars>>
     \/ part = "slices" /\ Slices!Next
        /\ UNCHANGED <<vars, memoryVars, bindlessVars, placedVars, uploadsVars>>

PartSpec == PartInit /\ [][PartNext]_all

-----------------------------------------------------------------------------
(* Every part keeps its types.                                             *)
PartsTypeOK ==
  /\ TypeOK /\ Memory!TypeOK /\ Bindless!TypeOK /\ Placed!TypeOK /\ Uploads!TypeOK
  /\ Slices!TypeOK
=============================================================================

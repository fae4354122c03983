----------------------------- MODULE D3DMemory ------------------------------
(***************************************************************************)
(* Memory blocks, buffers and images of the Direct3D backend               *)
(* (src/RHIDX12/Api/Device.cpp, GPUResource.cpp): handles counted up and   *)
(* never reused, maps from handle to data, resources placed in a heap at   *)
(* offsets a virtual block gives out.  Calls of one thread, so each is one *)
(* step.                                                                   *)
(*                                                                         *)
(* Sizes are in units; Alignment of them make up                           *)
(* D3D12_DEFAULT_RESOURCE_PLACEMENT_ALIGNMENT, to which Direct3D also      *)
(* rounds the size of what is placed.                                      *)
(***************************************************************************)
EXTENDS Integers, FiniteSets, Sequences

CONSTANTS
  Alignment,    \* 64 KiB, in units
  BlockSize,    \* of a block, in units
  MaxHandle     \* bound: resources and blocks created

(* A block is a whole number of placements.  The code takes any size, and  *)
(* then the last placement of a heap may not fit.                          *)

VARIABLES
  counter,     \* the next handle; buffers, images and blocks count apart, here together
  blocks,      \* mMemoryBlockResources
  things,      \* mBufferResources and mImageResources
  rooms,       \* the virtual blocks: what each allocation covers
  live,        \* handles the application holds
  condemned    \* mDeferredDeletes, oldest first

vars == <<counter, blocks, things, rooms, live, condemned>>

Handle == 1 .. MaxHandle
Own == 0             \* PYRO_NULL_MEMORY_BLOCK
None == -1           \* virtualAlloc.AllocHandle = 0
RoundedUp(n) == ((n + Alignment - 1) \div Alignment) * Alignment
Extent(lo, n) == lo .. lo + n - 1
Put(f, h, v) == [x \in DOMAIN f \cup {h} |-> IF x = h THEN v ELSE f[x]]
Without(f, h) == [x \in DOMAIN f \ {h} |-> f[x]]

TypeOK ==
  /\ counter \in 1 .. MaxHandle + 1
  /\ \A m \in DOMAIN blocks : blocks[m] \in [debugRefs : Nat]
  /\ \A h \in DOMAIN things :
       things[h] \in [kind : {"buffer", "image"}, in : DOMAIN blocks \cup {Own}, size : 1 .. BlockSize,
                      at : 0 .. BlockSize - 1 \cup {None}]
  /\ \A m \in DOMAIN rooms : rooms[m] \subseteq SUBSET (0 .. BlockSize - 1)
  /\ live \subseteq DOMAIN blocks \cup DOMAIN things
  /\ condemned \in Seq(Handle)

Init ==
  /\ counter = 1
  /\ blocks = <<>> /\ things = <<>> /\ rooms = <<>>
  /\ live = {}
  /\ condemned = <<>>

-----------------------------------------------------------------------------

CreateMemoryBlock ==
  /\ counter <= MaxHandle
  /\ counter' = counter + 1
  /\ blocks' = Put(blocks, counter, [debugRefs |-> 0])
  /\ rooms' = Put(rooms, counter, {})
  /\ live' = live \cup {counter}
  /\ UNCHANGED <<things, condemned>>

(* allocDesc.Size and Alignment: a buffer asks for its own size, an image  *)
(* for the size Direct3D reports.                                          *)
Asked(kind, n) == IF kind = "buffer" THEN n ELSE RoundedUp(n)

(* A mistake: the room asked for may begin anywhere. *)
StartsUnaligned == 0 .. BlockSize - 1
Starts == {lo \in 0 .. BlockSize - 1 : lo % Alignment = 0}

New(kind, m, n, lo) ==
  /\ things' = Put(things, counter, [kind |-> kind, in |-> m, size |-> n, at |-> lo])
  /\ live' = live \cup {counter}

Create(kind, m, n) ==
  /\ counter <= MaxHandle
  /\ counter' = counter + 1
  /\ \/ /\ m = Own
        /\ New(kind, m, n, None)
        /\ UNCHANGED <<blocks, rooms>>
     \/ /\ m \in live \cap DOMAIN blocks
        /\ \E lo \in Starts :
             LET room == Extent(lo, Asked(kind, n)) IN
             /\ room \subseteq 0 .. BlockSize - 1
             /\ \A r \in rooms[m] : r \cap room = {}
             /\ rooms' = [rooms EXCEPT ![m] = @ \cup {room}]
             /\ New(kind, m, n, lo)
        /\ blocks' = [blocks EXCEPT ![m].debugRefs = @ + 1]
  /\ UNCHANGED condemned

(* E_OUTOFMEMORY: the data goes, the number of the handle is spent. *)
CreateWithoutRoom(m) ==
  /\ counter <= MaxHandle
  /\ m \in live \cap DOMAIN blocks
  /\ counter' = counter + 1
  /\ UNCHANGED <<blocks, things, rooms, live, condemned>>

(* The application gives up a block after what it placed there. *)
MayGiveUp(h) ==
  /\ h \in live
  /\ \A x \in live \cap DOMAIN things : things[x].in # h

(* A mistake: the count of the block is forgotten. *)
DestroyUncounted(h) ==
  LET d == things[h] IN
  /\ rooms' = IF d.at = None THEN rooms
              ELSE [rooms EXCEPT ![d.in] = @ \ {Extent(d.at, Asked(d.kind, d.size))}]
  /\ things' = Without(things, h)
  /\ UNCHANGED blocks

(* DestroyBuffer and DestroyImage: free the room, --debugRefs, and with the *)
(* data the resource goes.                                                 *)
DestroyThing(h) ==
  LET d == things[h] IN
  /\ IF d.at = None THEN UNCHANGED <<rooms, blocks>>
     ELSE /\ rooms' = [rooms EXCEPT ![d.in] = @ \ {Extent(d.at, Asked(d.kind, d.size))}]
          /\ blocks' = [blocks EXCEPT ![d.in].debugRefs = @ - 1]
  /\ things' = Without(things, h)

Destroy(h) ==
  IF h \in DOMAIN things THEN DestroyThing(h)
  ELSE /\ blocks' = Without(blocks, h)
       /\ rooms' = Without(rooms, h)
       /\ UNCHANGED <<things>>

DestroyAtOnce(h) ==
  /\ MayGiveUp(h)
  /\ \A x \in DOMAIN things : things[x].in # h
  /\ Destroy(h)
  /\ live' = live \ {h}
  /\ UNCHANGED <<counter, condemned>>

DestroyDeferred(h) ==
  /\ MayGiveUp(h)
  /\ live' = live \ {h}
  /\ condemned' = Append(condemned, h)
  /\ UNCHANGED <<counter, blocks, things, rooms>>

Collect ==
  /\ condemned # <<>>
  /\ condemned' = Tail(condemned)
  /\ Destroy(Head(condemned))
  /\ UNCHANGED <<counter, live>>

Next ==
  \/ CreateMemoryBlock
  \/ \E kind \in {"buffer", "image"}, m \in DOMAIN blocks \cup {Own}, n \in {1, Alignment + 1} : Create(kind, m, n)
  \/ \E m \in DOMAIN blocks : CreateWithoutRoom(m)
  \/ \E h \in live : DestroyAtOnce(h) \/ DestroyDeferred(h)
  \/ Collect

Spec == Init /\ [][Next]_vars

-----------------------------------------------------------------------------

PlacedIn(m) == {h \in DOMAIN things : things[h].in = m}
Covers(h) == Extent(things[h].at, RoundedUp(things[h].size))

(* What Direct3D places, rounded up, stays inside the heap and apart from  *)
(* every other resource in it, although a buffer asks the virtual block    *)
(* for less than it will cover.                                            *)
PlacedApart ==
  \A m \in DOMAIN blocks :
    /\ \A h \in PlacedIn(m) : Covers(h) \subseteq 0 .. BlockSize - 1
    /\ \A g, h \in PlacedIn(m) : g # h => Covers(g) \cap Covers(h) = {}

(* The assertion of DestroyMemoryBlock, "All resources using this memory   *)
(* block must be freed beforehand!", holds for an application that frees   *)
(* them beforehand; and its count and its room end with the resource.      *)
CountsResidents ==
  \A m \in DOMAIN blocks :
    blocks[m].debugRefs = Cardinality(PlacedIn(m)) /\ Cardinality(rooms[m]) = Cardinality(PlacedIn(m))

(* Every handle the application holds or gave up and is still to be        *)
(* collected has its data, in one map: Get and Release never assert        *)
(* "Invalid handle!" or "Double free occurred!", and nothing else is left. *)
DataFollowsHandles ==
  LET waiting == {condemned[k] : k \in DOMAIN condemned} IN
  /\ DOMAIN blocks \cup DOMAIN things = live \cup waiting
  /\ DOMAIN blocks \cap DOMAIN things = {}
  /\ live \cap waiting = {} /\ Cardinality(waiting) = Len(condemned)

=============================================================================

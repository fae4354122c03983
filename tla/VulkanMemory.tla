---------------------------- MODULE VulkanMemory ----------------------------
(***************************************************************************)
(* Memory of the Vulkan backend (src/RHIVulkan/Api/Device.cpp): memory     *)
(* blocks, the buffers and images that are placed in them or own an        *)
(* allocation, the acceleration structures that own a buffer, and the      *)
(* plain counter debugReferences by which a block knows its residents.     *)
(*                                                                         *)
(* Handles are those of GpuResourcePool: here a slot is a member of Place, *)
(* empty or filled.  A call is several steps, as far as another thread can *)
(* see them; the collector of deferred destructions is one of the threads. *)
(***************************************************************************)
EXTENDS Integers, FiniteSets, Sequences

CONSTANTS
  Thread,       \* application threads
  Collector,    \* the one of them that calls CollectGarbage
  Place,        \* slots of buffers and images
  Image,        \* those of them that are for images
  Structure,    \* slots of bottom and top level acceleration structures
  Block,        \* slots of memory blocks
  BlockSize,    \* size of a block, in units of the alignment the driver asks for
  LastCount     \* the largest u32; Place, Structure and Block are disjoint

VARIABLES
  slot,        \* what each slot of a buffer, an image or a structure holds
  block,       \* each block and its debugReferences
  span,        \* per block, the part of it each resident was given
  native,      \* slots whose Vulkan object exists
  live,        \* handles the application holds
  condemned,   \* handles in mResourceZombies, oldest first
  call         \* what each thread is about

vars == <<slot, block, span, native, live, condemned, call>>

Own == "own"          \* PYRO_NULL_MEMORY_BLOCK: an allocation of its own
Nobody == "nobody"
Free == [state |-> "free"]
NoBlock == [state |-> "free", refs |-> 0]
Idle == [op |-> "idle"]
None == 0 .. -1

Handle == Place \cup Structure \cup Block
Filled == [state : {"taken", "filled"}, in : Block \cup {Own}, owner : Structure \cup {Nobody}]
Resident(m) == {p \in Place : slot[p] # Free /\ slot[p].in = m}

TypeOK ==
  /\ slot \in [Place \cup Structure -> Filled \cup {Free}]
  /\ block \in [Block -> [state : {"free", "filled"}, refs : 0 .. LastCount]]
  /\ span \in [Block -> [Place -> SUBSET (0 .. BlockSize - 1)]]
  /\ native \subseteq Handle
  /\ live \subseteq Handle
  /\ condemned \in Seq(Handle)
  /\ \A t \in Thread : call[t] = Idle \/ call[t].on \in Handle

Init ==
  /\ slot = [s \in Place \cup Structure |-> Free]
  /\ block = [m \in Block |-> NoBlock]
  /\ span = [m \in Block |-> [p \in Place |-> None]]
  /\ native = {}
  /\ live = {}
  /\ condemned = <<>>
  /\ call = [t \in Thread |-> Idle]

-----------------------------------------------------------------------------

Begin(t, op, h) == call' = [call EXCEPT ![t] = [op |-> op, on |-> h, refs |-> 0]]
Goes(t, op) == call' = [call EXCEPT ![t].op = op]
End(t) == call' = [call EXCEPT ![t] = Idle]

CreateMemoryBlock(t, m) ==
  /\ call[t] = Idle
  /\ block[m].state = "free"
  /\ block' = [block EXCEPT ![m] = [state |-> "filled", refs |-> 0]]
  /\ native' = native \cup {m}
  /\ live' = live \cup {m}
  /\ UNCHANGED <<slot, span, condemned, call>>

(* CreateBuffer and CreateImage take a slot and note what was asked for. *)
NewResource(t, p, m) ==
  /\ call[t] = Idle
  /\ slot[p] = Free
  /\ m # Own => m \in live
  /\ slot' = [slot EXCEPT ![p] =
                [state |-> "taken", in |-> m, owner |-> Nobody]]
  /\ Begin(t, "create", p)
  /\ UNCHANGED <<block, span, native, live, condemned>>

(* vmaCreateBuffer, vmaCreateImage *)
AllocateItsOwn(t) ==
  LET p == call[t].on IN
  /\ call[t].op = "create"
  /\ slot[p].in = Own
  /\ slot' = [slot EXCEPT ![p].state = "filled"]
  /\ native' = native \cup {p}
  /\ live' = live \cup {p}
  /\ End(t)
  /\ UNCHANGED <<block, span, condemned>>

Spans(n) == {lo .. lo + n - 1 : lo \in 0 .. BlockSize - n}
Given(m) == UNION {span[m][p] : p \in Place}

(* vmaVirtualAllocate finds room; the resource is bound to the block's     *)
(* memory.  vmaAllocationInfo stays empty, so hostAddress is null.         *)
PlaceInBlock(t) ==
  LET p == call[t].on m == slot[p].in IN
  /\ call[t].op = "create"
  /\ m # Own
  /\ \E n \in {1, 2} : \E room \in Spans(n) :
       /\ room \cap Given(m) = {}
       /\ span' = [span EXCEPT ![m][p] = room]
  /\ native' = native \cup {p}
  /\ Goes(t, "placed")
  /\ UNCHANGED <<slot, block, live, condemned>>

(* A mistake: the resource that found no room keeps its slot. *)
OutOfRoomKeepsSlot(t) ==
  LET p == call[t].on IN
  /\ call[t].op = "create"
  /\ slot[p].in # Own
  /\ End(t)
  /\ UNCHANGED <<slot, block, span, native, live, condemned>>

(* VK_ERROR_OUT_OF_DEVICE_MEMORY of the virtual block: the Vulkan object   *)
(* made for the question is destroyed, the slot goes back, null is         *)
(* returned.  The block's algorithm may fail with room left.               *)
OutOfRoom(t) ==
  LET p == call[t].on IN
  /\ call[t].op = "create"
  /\ slot[p].in # Own
  /\ slot' = [slot EXCEPT ![p] = Free]
  /\ End(t)
  /\ UNCHANGED <<block, span, native, live, condemned>>

(* ++blockInfo.debugReferences: a read and a write of a plain u32. *)
ReadReferences(t) ==
  /\ call[t].op \in {"placed", "destroy"}
  /\ slot[call[t].on].in # Own
  /\ call' = [call EXCEPT ![t].op = IF @ = "placed" THEN "counting" ELSE "uncounting",
                          ![t].refs = block[slot[call[t].on].in].refs]
  /\ UNCHANGED <<slot, block, span, native, live, condemned>>

CountResident(t) ==
  LET p == call[t].on IN
  /\ call[t].op = "counting"
  /\ block' = [block EXCEPT ![slot[p].in].refs = (call[t].refs + 1) % (LastCount + 1)]
  /\ slot' = [slot EXCEPT ![p].state = "filled"]
  /\ live' = live \cup {p}
  /\ End(t)
  /\ UNCHANGED <<span, native, condemned>>

(* CreateBlas, CreateTlas: a slot, a buffer of its own made by             *)
(* CreateBuffer, the structure on it.  Nobody else knows the buffer.       *)
CreateStructure(t, s, p) ==
  /\ call[t] = Idle
  /\ slot[s] = Free
  /\ p \notin Image
  /\ slot[p] = Free
  /\ slot' = [slot EXCEPT
       ![p] = [state |-> "filled", in |-> Own, owner |-> s],
       ![s] = [state |-> "filled", in |-> Own, owner |-> Nobody]]
  /\ native' = native \cup {s, p}
  /\ live' = live \cup {s}
  /\ UNCHANGED <<block, span, condemned, call>>

-----------------------------------------------------------------------------

Creating(p) == \E t \in Thread : call[t] # Idle /\ call[t].on = p /\ call[t].op \in {"create", "placed", "counting"}
Destroying(p) == \E t \in Thread : call[t] # Idle /\ call[t].on = p /\ call[t].op \in {"destroy", "uncounting", "uncounted"}

(* The application gives up a handle; a block only after its residents,    *)
(* and not before the calls that make or destroy one have returned; what   *)
(* the collector destroys it need not wait for.                            *)
MayGiveUp(t, h) ==
  /\ call[t] = Idle
  /\ h \in live
  /\ h \in Block =>
       /\ live \cap Resident(h) = {}
       /\ \A u \in Thread : call[u] # Idle /\ call[u].on \in Resident(h) => u = Collector /\ Destroying(call[u].on)

DestroyDeferred(t, h) ==
  /\ MayGiveUp(t, h)
  /\ live' = live \ {h}
  /\ condemned' = Append(condemned, h)
  /\ UNCHANGED <<slot, block, span, native, call>>

(* CollectGarbage deletes what was condemned in its order, when the device *)
(* is through with it (VulkanDevice).                                      *)
Collect(t) ==
  /\ t = Collector
  /\ call[t] = Idle
  /\ condemned # <<>>
  /\ condemned' = Tail(condemned)
  /\ Begin(t, "destroy", Head(condemned))
  /\ UNCHANGED <<slot, block, span, native, live>>

(* Without bDefer; a block at once only if none of its residents waits.    *)
DestroyAtOnce(t, h) ==
  /\ MayGiveUp(t, h)
  /\ h \in Block => Resident(h) = {}
  /\ live' = live \ {h}
  /\ Begin(t, "destroy", h)
  /\ UNCHANGED <<slot, block, span, native, condemned>>

(* A mistake: the count of the block stays. *)
UncountNothing(t) ==
  /\ call[t].op = "uncounting"
  /\ Goes(t, "uncounted")
  /\ UNCHANGED <<slot, block, span, native, live, condemned>>

(* --block.debugReferences comes first, then the object, then its room. *)
UncountResident(t) ==
  LET refs == call[t].refs IN
  /\ call[t].op = "uncounting"
  /\ block' = [block EXCEPT ![slot[call[t].on].in].refs = IF refs = 0 THEN LastCount ELSE refs - 1]
  /\ Goes(t, "uncounted")
  /\ UNCHANGED <<slot, span, native, live, condemned>>

(* A mistake: the room of a destroyed resident is not given back. *)
FreeResidentKeepsRoom(t) ==
  LET p == call[t].on IN
  /\ call[t].op = "uncounted"
  /\ native' = native \ {p}
  /\ slot' = [slot EXCEPT ![p] = Free]
  /\ End(t)
  /\ UNCHANGED <<block, span, live, condemned>>

(* vkDestroyBuffer or vkDestroyImage, vmaVirtualFree, the slot goes back. *)
FreeResident(t) ==
  LET p == call[t].on IN
  /\ call[t].op = "uncounted"
  /\ native' = native \ {p}
  /\ span' = [span EXCEPT ![slot[p].in][p] = None]
  /\ slot' = [slot EXCEPT ![p] = Free]
  /\ End(t)
  /\ UNCHANGED <<block, live, condemned>>

(* A resource with an allocation of its own; a structure takes the buffer  *)
(* it owns with it.                                                        *)
FreeItsOwn(t) ==
  LET s == call[t].on
      gone == {s} \cup {p \in Place : slot[p] # Free /\ slot[p].owner = s} IN
  /\ call[t].op = "destroy"
  /\ s \in DOMAIN slot
  /\ slot[s].in = Own
  /\ native' = native \ gone
  /\ slot' = [x \in DOMAIN slot |-> IF x \in gone THEN Free ELSE slot[x]]
  /\ End(t)
  /\ UNCHANGED <<block, span, live, condemned>>

FreeBlock(t) ==
  LET m == call[t].on IN
  /\ call[t].op = "destroy"
  /\ m \in Block
  /\ native' = native \ {m}
  /\ block' = [block EXCEPT ![m] = NoBlock]
  /\ End(t)
  /\ UNCHANGED <<slot, span, live, condemned>>

Next ==
  \E t \in Thread :
    \/ \E m \in Block : CreateMemoryBlock(t, m)
    \/ \E p \in Place, m \in Block \cup {Own} : NewResource(t, p, m)
    \/ AllocateItsOwn(t) \/ PlaceInBlock(t) \/ OutOfRoom(t)
    \/ call[t] # Idle /\ call[t].on \in Place /\ ReadReferences(t)
    \/ CountResident(t)
    \/ \E s \in Structure, p \in Place : CreateStructure(t, s, p)
    \/ \E h \in Handle : DestroyDeferred(t, h) \/ DestroyAtOnce(t, h)
    \/ Collect(t)
    \/ UncountResident(t) \/ FreeResident(t) \/ FreeItsOwn(t) \/ FreeBlock(t)

Spec == Init /\ [][Next]_vars

-----------------------------------------------------------------------------

(* Whatever a create finds no room for and whatever a destroy meets, a     *)
(* slot that is given out is in somebody's hands: the application's, the   *)
(* collector's queue, a call under way, or the structure that owns it; and *)
(* the other way round nobody holds an empty slot.  Cleanup's report of    *)
(* leaked buffers and images rests on it.                                  *)
SlotsAreHeld ==
  \A s \in Place \cup Structure :
    slot[s] # Free <=> \/ s \in live
                       \/ \E i \in DOMAIN condemned : condemned[i] = s
                       \/ Creating(s) \/ Destroying(s)
                       \/ s \in Place /\ slot[s] # Free /\ slot[s].owner \in Structure /\ slot[slot[s].owner] # Free

(* Room of a block is given to one resident at a time, a resident has room *)
(* as long as its Vulkan object exists, and no longer: the object is never *)
(* bound to room somebody else was given.                                  *)
RoomIsItsOwn ==
  \A m \in Block :
    /\ \A p, q \in Place : p # q => span[m][p] \cap span[m][q] = {}
    /\ \A p \in Place : span[m][p] # None <=> p \in Resident(m) /\ p \in native

(* The count a block is destroyed by is the number of its residents        *)
(* whenever nobody is creating or destroying one; so the assertion of      *)
(* DestroyMemoryBlock tells the truth.                                     *)
CountsResidents ==
  \A m \in Block :
    (\A p \in Resident(m) : ~Creating(p) /\ ~Destroying(p)) => block[m].refs = Cardinality(Resident(m))

(* DestroyMemoryBlock: "Not all references to this MemoryBlock have been   *)
(* freed yet!" does not fire for an application that gave up every         *)
(* resident before the block.                                              *)
BlockAssertHolds ==
  \A t \in Thread : call[t] # Idle /\ call[t].op = "destroy" /\ call[t].on \in Block => block[call[t].on].refs = 0
=============================================================================

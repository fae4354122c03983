------------------------------ MODULE D3DSlots ------------------------------
(***************************************************************************)
(* D3DHeapManager of the Direct3D backend (src/RHIDX12/Api/                *)
(* GPUResource.hpp): the slots of a descriptor heap, given out by a        *)
(* counter and a stack of returned slots that no lock holds together.      *)
(*                                                                         *)
(* Of the five heaps this is the one of render target views, which has the *)
(* most demanding users: a render target holds one slot and returns it by  *)
(* its address, an image that is blitted to holds one for every            *)
(* subresource.  The other heaps' users hold one slot each and return it   *)
(* by its id.  The collector may be another thread than the one that       *)
(* creates.  There is one creating thread: two at once can both find one   *)
(* slot above the sentinel, and the second takes the sentinel for a slot.  *)
(***************************************************************************)
EXTENDS Integers, Sequences, SequencesExt, FiniteSets

CONSTANTS
  Creator,        \* the thread that creates views and images
  Collector,      \* the thread that collects garbage
  BlitImage,      \* images usable as the target of a blit
  RenderTarget,   \* render targets, none of them an image
  BlitViews,      \* mip levels times array layers of an image, at least one
  MaxReleases     \* bound: releases of slots

ASSUME SizesAssumption ==
  /\ IsFiniteSet(BlitImage) /\ IsFiniteSet(RenderTarget)
  /\ BlitViews \in Nat \ {0} /\ MaxReleases \in Nat

VARIABLES
  tombstones,  \* mTombstones, the sentinel at the bottom
  counter,     \* mHeapCounter
  heap,        \* what was written to each slot: the view of a user's part
  slots,       \* the slots each user holds, in the order of its parts
  call,        \* what the creator and the collector are about
  live,        \* what the application holds
  condemned,   \* what waits for the collector, oldest first
  peak,        \* history: the most slots in use at a time
  releases     \* bound

vars == <<tombstones, counter, heap, slots, call, live, condemned, peak, releases>>

User == BlitImage \cup RenderTarget
Caller == {Creator, Collector}
Idle == [op |-> "idle"]
Sentinel == [index |-> 1, version |-> 0]
Parts(u) == IF u \in BlitImage THEN BlitViews ELSE 1
MaxSlots == Cardinality(BlitImage) * BlitViews + Cardinality(RenderTarget) + BlitViews
Slot == 1 .. MaxSlots

TypeOK ==
  /\ tombstones \in Seq([index : Slot, version : 0 .. MaxReleases])
  /\ counter \in 1 .. MaxSlots + 1
  /\ \A s \in DOMAIN heap : s < counter /\ heap[s] \in User \X (1 .. BlitViews)
  /\ \A u \in User : Len(slots[u]) <= Parts(u) /\ Range(slots[u]) \subseteq [index : Slot, version : 0 .. MaxReleases]
  /\ \A t \in Caller : call[t] = Idle \/ call[t].on \in User
  /\ live \subseteq User
  /\ condemned \in Seq(User)

Init ==
  /\ tombstones = <<Sentinel>>
  /\ counter = 1
  /\ heap = <<>>
  /\ slots = [u \in User |-> <<>>]
  /\ call = [t \in Caller |-> Idle]
  /\ live = {}
  /\ condemned = <<>>
  /\ peak = 0
  /\ releases = 0

-----------------------------------------------------------------------------

InUse(held) == UNION {{id.index : id \in Range(held[u])} : u \in User}
Absent(u) == u \notin live /\ slots[u] = <<>> /\ \A t \in Caller : call[t] # Idle => call[t].on # u

(* CreateRenderTarget; CreateImage goes on to ImageAddIfNecessaryBlitSupport. *)
Create(u) ==
  /\ call[Creator] = Idle
  /\ Absent(u)
  /\ call' = [call EXCEPT ![Creator] = [op |-> "acquire", on |-> u]]
  /\ UNCHANGED <<tombstones, counter, heap, slots, live, condemned, peak, releases>>

(* A mistake: the sentinel is taken for a returned slot. *)
AskWithoutSentinel ==
  /\ call[Creator].op = "acquire"
  /\ call' = [call EXCEPT ![Creator].op = IF tombstones = <<>> THEN "grow" ELSE "pop"]
  /\ UNCHANGED <<tombstones, counter, heap, slots, live, condemned, peak, releases>>

(* AcquireSlot: is there more on the stack than the sentinel?  The answer  *)
(* may be old when it is acted upon.                                       *)
Ask ==
  /\ call[Creator].op = "acquire"
  /\ call' = [call EXCEPT ![Creator].op = IF Len(tombstones) = 1 THEN "grow" ELSE "pop"]
  /\ UNCHANGED <<tombstones, counter, heap, slots, live, condemned, peak, releases>>

(* The slot and its view: the loop over subresources, or the one view of a *)
(* render target; after the last the creation returns.                     *)
Take(id) ==
  LET u == call[Creator].on IN
  /\ slots' = [slots EXCEPT ![u] = Append(@, id)]
  /\ heap' = [s \in DOMAIN heap \cup {id.index} |->
                IF s = id.index THEN <<u, Len(slots'[u])>> ELSE heap[s]]
  /\ peak' = LET n == Cardinality(InUse(slots')) IN IF n > peak THEN n ELSE peak
  /\ IF Len(slots'[u]) = Parts(u)
     THEN live' = live \cup {u} /\ call' = [call EXCEPT ![Creator] = Idle]
     ELSE call' = [call EXCEPT ![Creator].op = "acquire"] /\ UNCHANGED live
  /\ UNCHANGED <<condemned, releases>>

Grow ==
  /\ call[Creator].op = "grow"
  /\ counter' = counter + 1
  /\ Take([index |-> counter, version |-> 0])
  /\ UNCHANGED tombstones

(* A mistake: the slot stays on the stack. *)
PopKeepsSlot ==
  /\ call[Creator].op = "pop"
  /\ Take(Last(tombstones))
  /\ UNCHANGED <<tombstones, counter>>

Pop ==
  /\ call[Creator].op = "pop"
  /\ tombstones' = Front(tombstones)
  /\ Take(Last(tombstones))
  /\ UNCHANGED counter

-----------------------------------------------------------------------------

(* Destroy*, deferred or at once; at once is the creator's own doing. *)
DestroyDeferred(u) ==
  /\ call[Creator] = Idle
  /\ u \in live
  /\ live' = live \ {u}
  /\ condemned' = Append(condemned, u)
  /\ UNCHANGED <<tombstones, counter, heap, slots, call, peak, releases>>

DestroyAtOnce(u) ==
  /\ call[Creator] = Idle
  /\ u \in live
  /\ live' = live \ {u}
  /\ call' = [call EXCEPT ![Creator] = [op |-> "release", on |-> u]]
  /\ UNCHANGED <<tombstones, counter, heap, slots, condemned, peak, releases>>

Collect ==
  /\ call[Collector] = Idle
  /\ condemned # <<>>
  /\ condemned' = Tail(condemned)
  /\ call' = [call EXCEPT ![Collector] = [op |-> "release", on |-> Head(condemned)]]
  /\ UNCHANGED <<tombstones, counter, heap, slots, live, peak, releases>>

(* A mistake: DestroyImage returns the view of the first subresource only. *)
ReleaseFirst(t) ==
  LET u == call[t].on id == Head(slots[u]) IN
  /\ call[t].op = "release"
  /\ releases < MaxReleases
  /\ releases' = releases + 1
  /\ tombstones' = Append(tombstones, [id EXCEPT !.version = IF u \in RenderTarget THEN 0 ELSE @ + 1])
  /\ slots' = [slots EXCEPT ![u] = <<>>]
  /\ call' = [call EXCEPT ![t] = Idle]
  /\ UNCHANGED <<counter, heap, live, condemned, peak>>

(* ReleaseSlot, by id with the version one up, by address with version 0. *)
Release(t) ==
  LET u == call[t].on id == Head(slots[u]) IN
  /\ call[t].op = "release"
  /\ releases < MaxReleases   \* the bound
  /\ releases' = releases + 1
  /\ tombstones' = Append(tombstones, [id EXCEPT !.version = IF u \in RenderTarget THEN 0 ELSE @ + 1])
  /\ slots' = [slots EXCEPT ![u] = Tail(@)]
  /\ call' = IF Len(slots[u]) = 1 THEN [call EXCEPT ![t] = Idle] ELSE call
  /\ UNCHANGED <<counter, heap, live, condemned, peak>>

Next ==
  \/ \E u \in User : Create(u) \/ DestroyDeferred(u) \/ DestroyAtOnce(u)
  \/ Ask \/ Grow \/ Pop
  \/ Collect
  \/ \E t \in Caller : Release(t)

Spec == Init /\ [][Next]_vars

-----------------------------------------------------------------------------

Returned == {tombstones[k].index : k \in 2 .. Len(tombstones)}
Held == InUse(slots)

(* Every slot given out so far is on the stack above the sentinel, once,   *)
(* or held by one user, in one place; whatever the collector returns while *)
(* the creator is between its question and its answer.  The warning of the *)
(* destructor counts on it.                                                *)
NoSlotLostOrShared ==
  /\ tombstones # <<>> /\ tombstones[1] = Sentinel
  /\ Cardinality(Returned) = Len(tombstones) - 1
  /\ Returned \cap Held = {}
  /\ Returned \cup Held = 1 .. counter - 1
  /\ \A u, v \in User : \A j \in DOMAIN slots[u], k \in DOMAIN slots[v] :
       slots[u][j].index = slots[v][k].index => u = v /\ j = k

(* The slot of a user's part holds the view of that part as long as the    *)
(* application may render to it.                                           *)
ViewsAreOwn ==
  \A u \in live : \A k \in DOMAIN slots[u] : heap[slots[u][k].index] = <<u, k>>

(* The heap grows only to hold as many views as were ever in use at once,  *)
(* plus one that the collector returned too late: nothing compares the     *)
(* counter with the size of the heap, so this is what keeps it inside.     *)
GrowsForThePeak == counter - 1 <= peak + 1

(* What is asked of the slots. *)
SlotsInOrder == NoSlotLostOrShared /\ ViewsAreOwn /\ GrowsForThePeak

(* The slots as handles: index and version, in the hands of one part of    *)
(* one user.  A user that is being destroyed has returned its first ones.  *)
Returning(u) == \E t \in Caller : call[t].op = "release" /\ call[t].on = u
PartOf(u, k) == IF Returning(u) THEN Parts(u) - Len(slots[u]) + k ELSE k
Handle(u, k) ==
  [index |-> slots[u][k].index, version |-> slots[u][k].version, user |-> u, part |-> PartOf(u, k)]
Handles == UNION {{Handle(u, k) : k \in 1 .. Len(slots[u])} : u \in User}

(* The slots are a table of handles: a slot that a part of a user holds is *)
(* given to no other part or user, and changes neither hands nor version,  *)
(* until that part returns it; AcquireSlot and ReleaseSlot move one at a   *)
(* time, and nothing else moves any.                                       *)
Table == INSTANCE HandleTable WITH
  Id <- [index : Slot, version : 0 .. MaxReleases, user : User, part : 1 .. BlitViews],
  held <- Handles
SlotTableSpec == Table!Spec
=============================================================================

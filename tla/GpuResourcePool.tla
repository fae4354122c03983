-------------------------- MODULE GpuResourcePool --------------------------
(***************************************************************************)
(* GpuResourcePool of the Vulkan backend (src/RHIVulkan/Api/               *)
(* GPUResourcePool.hpp), the versioned slots behind the handles of         *)
(* buffers, images, views, samplers and blocks, and the way Create* and    *)
(* Destroy* of Device.cpp use it: take a slot, fill it, hand out the id;   *)
(* find the slot, empty it, give it back.                                  *)
(*                                                                         *)
(* The pool's own operations hold both of its mutexes and are one step;    *)
(* what a thread does with the reference it was given is not under them.   *)
(***************************************************************************)
EXTENDS Integers, Sequences, SequencesExt

CONSTANTS
  Thread,        \* application threads, the collecting one included
  MaxResources,  \* mMaxResources; index 0 is never used
  LastVersion,   \* the largest u8: 255
  MaxReturns     \* bound: times one index is given back

ASSUME MaxResourcesAssumption == MaxResources \in Nat \ {0}
ASSUME LastVersionAssumption == LastVersion \in Nat \ {0}
ASSUME MaxReturnsAssumption == MaxReturns \in Nat

VARIABLES
  nextIndex,   \* mNextIndex
  freeStack,   \* mFreeIndexStack
  version,     \* the second of each pair of a page
  content,     \* the first of each pair: the resource described there, by its id
  call,        \* what each thread is about
  live,        \* the ids the application has and has not given up
  retired      \* history: the versions given back at each index, oldest first

pool == <<nextIndex, freeStack, version>>
vars == <<nextIndex, freeStack, version, content, call, live, retired>>

Index == 1 .. MaxResources - 1
Id == [index : Index, version : 1 .. LastVersion]
Empty == [index |-> 0, version |-> 0]   \* slot = {}
Idle == [op |-> "idle", id |-> Empty]
Creating == {"taken", "filled"}
Destroying == {"found", "emptied"}

TypeOK ==
  /\ nextIndex \in 1 .. MaxResources
  /\ freeStack \in Seq(Index)
  /\ version \in [Index -> 0 .. LastVersion]
  /\ content \in [Index -> Id \cup {Empty}]
  /\ call \in [Thread -> [op : Creating \cup Destroying, id : Id] \cup {Idle}]
  /\ live \subseteq Id
  /\ retired \in [Index -> Seq(1 .. LastVersion)]

Init ==
  /\ nextIndex = 1
  /\ freeStack = <<>>
  /\ version = [i \in Index |-> 0]
  /\ content = [i \in Index |-> Empty]
  /\ call = [t \in Thread |-> Idle]
  /\ live = {}
  /\ retired = [i \in Index |-> <<>>]

-----------------------------------------------------------------------------

(* A mistake for the test of a property: the cut to u8 left out. *)
AtLeastOneUncut(v) == IF v = 0 THEN 1 ELSE v

(* eastl::max<u8>(v, 1): the argument is cut to eight bits first. *)
AtLeastOne(v) == LET cut == v % (LastVersion + 1) IN IF cut = 0 THEN 1 ELSE cut

(* A version that agrees makes an id valid; nothing ever sets zombie. *)
IsIdValid(id) == id.version # 0 /\ version[id.index] = id.version

Give(t, i) ==
  /\ Len(retired[i]) < MaxReturns   \* the bound
  /\ version' = [version EXCEPT ![i] = AtLeastOne(@)]
  /\ call' = [call EXCEPT ![t] = [op |-> "taken", id |-> [index |-> i, version |-> version'[i]]]]

(* A mistake: the index stays on the stack, pop_back is forgotten. *)
NewSlotNotPopped(t) ==
  /\ call[t] = Idle
  /\ \/ /\ freeStack = <<>>
        /\ nextIndex < MaxResources
        /\ Give(t, nextIndex)
        /\ nextIndex' = nextIndex + 1
     \/ /\ freeStack # <<>>
        /\ Give(t, Last(freeStack))
        /\ UNCHANGED nextIndex
  /\ UNCHANGED <<freeStack, content, live, retired>>

(* The index on top of the stack, or else a new one; that the pool is not *)
(* exhausted is asserted.                                                  *)
NewSlot(t) ==
  /\ call[t] = Idle
  /\ \/ /\ freeStack = <<>>
        /\ nextIndex < MaxResources
        /\ Give(t, nextIndex)
        /\ nextIndex' = nextIndex + 1
        /\ UNCHANGED freeStack
     \/ /\ freeStack # <<>>
        /\ Give(t, Last(freeStack))
        /\ freeStack' = Front(freeStack)
        /\ UNCHANGED nextIndex
  /\ UNCHANGED <<content, live, retired>>

(* ret.info = info and what follows it. *)
Fill(t) ==
  /\ call[t].op = "taken"
  /\ content' = [content EXCEPT ![call[t].id.index] = call[t].id]
  /\ call' = [call EXCEPT ![t].op = "filled"]
  /\ UNCHANGED <<pool, live, retired>>

(* The id goes to the caller. *)
Created(t) ==
  /\ call[t].op = "filled"
  /\ live' = live \cup {call[t].id}
  /\ call' = [call EXCEPT ![t] = Idle]
  /\ UNCHANGED <<pool, content, retired>>

(* Destroy*: DereferenceId, once for each id. *)
Destroy(t) ==
  /\ call[t] = Idle
  /\ \E id \in live :
       /\ live' = live \ {id}
       /\ call' = [call EXCEPT ![t] = [op |-> "found", id |-> id]]
  /\ UNCHANGED <<pool, content, retired>>

(* bufferSlot = {} *)
EmptySlot(t) ==
  /\ call[t].op = "found"
  /\ content' = [content EXCEPT ![call[t].id.index] = Empty]
  /\ call' = [call EXCEPT ![t].op = "emptied"]
  /\ UNCHANGED <<pool, live, retired>>

(* A mistake: the slot is given back twice. *)
ReturnSlotTwice(t) ==
  LET id == call[t].id IN
    /\ call[t].op \in {"emptied", "filled"}
    /\ version' = [version EXCEPT ![id.index] = AtLeastOne(@ + 1)]
    /\ freeStack' = freeStack \o <<id.index, id.index>>
    /\ retired' = [retired EXCEPT ![id.index] = Append(@, id.version)]
    /\ call' = [call EXCEPT ![t] = Idle]
    /\ UNCHANGED <<nextIndex, content, live>>

(* A mistake: the version is left as it was. *)
ReturnSlotSameVersion(t) ==
  LET id == call[t].id IN
    /\ call[t].op \in {"emptied", "filled"}
    /\ freeStack' = Append(freeStack, id.index)
    /\ retired' = [retired EXCEPT ![id.index] = Append(@, id.version)]
    /\ call' = [call EXCEPT ![t] = Idle]
    /\ UNCHANGED <<version, nextIndex, content, live>>

(* At the end of a destruction; and in the middle of a creation, when the *)
(* block has no room: then the slot is not emptied.                        *)
ReturnSlot(t) ==
  LET id == call[t].id IN
    /\ call[t].op \in {"emptied", "filled"}
    /\ version' = [version EXCEPT ![id.index] = AtLeastOne(@ + 1)]
    /\ freeStack' = Append(freeStack, id.index)
    /\ retired' = [retired EXCEPT ![id.index] = Append(@, id.version)]
    /\ call' = [call EXCEPT ![t] = Idle]
    /\ UNCHANGED <<nextIndex, content, live>>

(* Every index is used up, as far as the bound goes. *)
Terminated ==
  /\ live = {} /\ \A t \in Thread : call[t] = Idle
  /\ freeStack # <<>> /\ Len(retired[Last(freeStack)]) = MaxReturns
  /\ UNCHANGED vars

Next ==
  \/ \E t \in Thread :
       NewSlot(t) \/ Fill(t) \/ Created(t) \/ Destroy(t) \/ EmptySlot(t) \/ ReturnSlot(t)
  \/ Terminated

Spec == Init /\ [][Next]_vars

-----------------------------------------------------------------------------
(* Properties. *)

Busy == {t \in Thread : call[t] # Idle}
Held == live \cup {call[t].id : t \in Busy}

Free(i) == \E k \in 1 .. Len(freeStack) : freeStack[k] = i

FreeOnce == \A j, k \in 1 .. Len(freeStack) : freeStack[j] = freeStack[k] => j = k
HeldNotFree == \A id \in Held : id.index < nextIndex /\ ~Free(id.index)
OneIdAnIndex == \A id, other \in Held : id.index = other.index => id = other
OneOwner ==
  /\ \A t, u \in Busy : call[t].id = call[u].id => t = u
  /\ \A t \in Busy : call[t].id \notin live
NoneLost == \A i \in 1 .. nextIndex - 1 : Free(i) \/ \E id \in Held : id.index = i

(* Every index handed out so far is on the free stack once, or in the     *)
(* hands of one thread, or of the application, and in no two of these.     *)
OneHolder == FreeOnce /\ HeldNotFree /\ OneIdAnIndex /\ OneOwner /\ NoneLost

(* The asserts of DereferenceId and ReturnSlot, "use after free" and      *)
(* "double delete", do not fire for an id that is in someone's hands.      *)
HeldIdsAreValid == \A id \in Held : IsIdValid(id)

(* A live id leads to the description of its own resource, whatever the   *)
(* other threads create and destroy meanwhile.                             *)
SlotHoldsItsResource == \A id \in live : content[id.index] = id

(* An id given back is not taken for valid, until its index has been given *)
(* back as often as there are versions.                                    *)
StaleForAWhile ==
  \A i \in Index : \A k \in 1 .. Len(retired[i]) :
    Len(retired[i]) - k + 1 < LastVersion => ~IsIdValid([index |-> i, version |-> retired[i][k]])

(* The pool is a table of handles. *)
Table == INSTANCE HandleTable WITH held <- Held
TableSpec == Table!Spec

=============================================================================

---------------------------- MODULE MemoryProofs ----------------------------
(***************************************************************************)
(* Theorems about memory and descriptors: VulkanMemory, VulkanDescriptors  *)
(* and D3DMemory, for any resources, blocks, sizes of heaps and works,     *)
(* D3DUploadBuffers, for any lists and buffers, and Subranges, for         *)
(* integers of any width. Each has an inductive invariant of its own.      *)
(***************************************************************************)
EXTENDS MemoryParts, SequenceLemmas

-----------------------------------------------------------------------------
(* VulkanMemory *)

Kinds ==
  /\ Place \cap Structure = {} /\ Place \cap Block = {} /\ Structure \cap Block = {}
  /\ Memory!Own \notin Block /\ Memory!Nobody \notin Place \cup Structure
  /\ BlockSize \in Nat /\ LastCount \in Nat

Making == {"create", "placed", "counting"}
Unmaking == {"destroy", "uncounting", "uncounted"}
Call == [op : Making \cup Unmaking, on : Memory!Handle, refs : 0 .. LastCount]

On(t, h) == memoryCall[t] # Memory!Idle /\ memoryCall[t].on = h
Waiting(h) == \E i \in 1 .. Len(memoryCondemned) : memoryCondemned[i] = h
Owned(p) == p \in Place /\ slot[p] # Memory!Free /\ slot[p].owner # Memory!Nobody

(* A handle is in one pair of hands.                                       *)
InOneHand ==
  /\ \A i, j \in 1 .. Len(memoryCondemned) : memoryCondemned[i] = memoryCondemned[j] => i = j
  /\ \A h \in Memory!Handle :
     /\ \A t, u \in Caller : On(t, h) /\ On(u, h) => t = u
     /\ \A t \in Caller : On(t, h) => h \notin memoryLive /\ ~Waiting(h)
     /\ h \in memoryLive => ~Waiting(h)
     /\ Owned(h) => h \notin memoryLive /\ ~Waiting(h) /\ \A t \in Caller : ~On(t, h)
HeldSlots ==
  \A s \in Place \cup Structure :
    slot[s] # Memory!Free <=> s \in memoryLive \/ Waiting(s) \/ (\E t \in Caller : On(t, s)) \/ Owned(s)
HeldBlocks ==
  \A m \in Block : m \in memoryLive \/ Waiting(m) \/ (\E t \in Caller : On(t, m)) => block[m].state = "filled"

SlotForm ==
  /\ \A s \in Structure : slot[s] # Memory!Free => slot[s].in = Memory!Own
  /\ \A p \in Place : Owned(p) => slot[p].in = Memory!Own /\ slot[slot[p].owner] # Memory!Free
CallForm ==
  \A t \in Caller : memoryCall[t] # Memory!Idle /\ memoryCall[t].op # "destroy" =>
    /\ memoryCall[t].on \in Place
    /\ memoryCall[t].op # "create" => slot[memoryCall[t].on].in # Memory!Own

(* A buffer or an image exists from when it has room.                      *)
Natives ==
  \A p \in Place : p \in native <=>
    slot[p] # Memory!Free /\ ~\E t \in Caller : On(t, p) /\ memoryCall[t].op = "create"
Rooms ==
  /\ \A m \in Block : \A p, q \in Place : p # q => span[m][p] \cap span[m][q] = {}
  /\ \A m \in Block : \A p \in Place :
       span[m][p] # {} <=> slot[p] # Memory!Free /\ slot[p].in = m /\ p \in native

MemoryTypes == Memory!TypeOK /\ memoryCall \in [Caller -> Call \cup {Memory!Idle}]
MemoryInv ==
  /\ MemoryTypes /\ InOneHand /\ HeldSlots /\ HeldBlocks /\ SlotForm /\ CallForm /\ Natives /\ Rooms

(* What the types and the kinds say of what the variables hold.            *)
LEMMA MemoryFacts ==
  ASSUME MemoryTypes, Kinds
  PROVE  /\ slot \in [Place \cup Structure -> Memory!Filled \cup {Memory!Free}]
         /\ \A s \in Place \cup Structure : slot[s] # Memory!Free =>
              /\ slot[s] \in Memory!Filled
              /\ slot[s].state \in {"taken", "filled"} /\ slot[s].in \in Block \cup {Memory!Own}
              /\ slot[s].owner \in Structure \cup {Memory!Nobody}
         /\ \A t \in Caller : memoryCall[t] # Memory!Idle =>
              /\ memoryCall[t] \in Call
              /\ memoryCall[t].op \in Making \cup Unmaking /\ memoryCall[t].on \in Memory!Handle
              /\ memoryCall[t].refs \in 0 .. LastCount
         /\ memoryCall \in [Caller -> Call \cup {Memory!Idle}]
         /\ \A t \in Caller : memoryCall[t].op # "idle" => memoryCall[t] # Memory!Idle
         /\ memoryCondemned \in Seq(Memory!Handle) /\ Len(memoryCondemned) \in Nat
         /\ \A i \in 1 .. Len(memoryCondemned) : memoryCondemned[i] \in Memory!Handle
         /\ block \in [Block -> [state : {"free", "filled"}, refs : 0 .. LastCount]]
         /\ span \in [Block -> [Place -> SUBSET (0 .. BlockSize - 1)]]
         /\ native \subseteq Memory!Handle /\ memoryLive \subseteq Memory!Handle
<1>1. /\ slot \in [Place \cup Structure -> Memory!Filled \cup {Memory!Free}]
      /\ memoryCall \in [Caller -> Call \cup {Memory!Idle}]
      /\ memoryCondemned \in Seq(Memory!Handle)
      /\ block \in [Block -> [state : {"free", "filled"}, refs : 0 .. LastCount]]
      /\ span \in [Block -> [Place -> SUBSET (0 .. BlockSize - 1)]]
      /\ native \subseteq Memory!Handle /\ memoryLive \subseteq Memory!Handle
  BY DEF MemoryTypes, Memory!TypeOK
<1>2. \A s \in Place \cup Structure : slot[s] # Memory!Free => slot[s] \in Memory!Filled
  BY <1>1
<1>3. \A x \in Memory!Filled :
        /\ x.state \in {"taken", "filled"} /\ x.in \in Block \cup {Memory!Own}
        /\ x.owner \in Structure \cup {Memory!Nobody}
  BY DEF Memory!Filled
<1>4. \A t \in Caller : memoryCall[t] # Memory!Idle => memoryCall[t] \in Call
  BY <1>1
<1>5. \A x \in Call : x.op \in Making \cup Unmaking /\ x.on \in Memory!Handle /\ x.refs \in 0 .. LastCount
  BY DEF Call
<1>6. Memory!Idle.op = "idle"
  BY DEF Memory!Idle
<1>7. Len(memoryCondemned) \in Nat /\ \A i \in 1 .. Len(memoryCondemned) : memoryCondemned[i] \in Memory!Handle
  BY <1>1, LenProperties, ElementOfSeq
<1> QED
  BY <1>1, <1>2, <1>3, <1>4, <1>5, <1>6, <1>7

(* A thread begins a call, goes on with it or is done: the others stay in  *)
(* theirs.                                                                 *)
LEMMA CallChanges ==
  ASSUME MemoryTypes, NEW t \in Caller, NEW c \in Call \cup {Memory!Idle},
         memoryCall' = [memoryCall EXCEPT ![t] = c]
  PROVE  /\ memoryCall' \in [Caller -> Call \cup {Memory!Idle}] /\ memoryCall'[t] = c
         /\ \A u \in Caller : u # t => memoryCall'[u] = memoryCall[u]
         /\ \A u \in Caller : u # t => \A h : On(u, h)' <=> On(u, h)
         /\ \A h : On(t, h)' <=> c # Memory!Idle /\ c.on = h
  BY DEF MemoryTypes, On

(* One slot is filled or emptied, the others stay.                         *)
LEMMA SlotChanges ==
  ASSUME MemoryTypes, Kinds, NEW p \in Place, NEW x \in Memory!Filled \cup {Memory!Free},
         slot' = [slot EXCEPT ![p] = x]
  PROVE  /\ slot' \in [Place \cup Structure -> Memory!Filled \cup {Memory!Free}] /\ slot'[p] = x
         /\ \A r \in Place \cup Structure : r # p => slot'[r] = slot[r]
         /\ \A s \in Structure : slot'[s] = slot[s]
         /\ \A r \in Place \cup Structure : r # p => (Owned(r)' <=> Owned(r))
<1>1. /\ slot' \in [Place \cup Structure -> Memory!Filled \cup {Memory!Free}] /\ slot'[p] = x
      /\ \A r \in Place \cup Structure : r # p => slot'[r] = slot[r]
  BY MemoryFacts
<1>2. \A s \in Structure : s # p
  BY DEF Kinds
<1> QED
  BY <1>1, <1>2 DEF Owned

(* What is not there is told from what is.                                 *)
LEMMA NothingThere ==
  /\ \A x \in Memory!Filled : x # Memory!Free
  /\ \A x \in Call : x # Memory!Idle
<1>1. \A x \in Memory!Filled : x.state # "free"
  BY DEF Memory!Filled
<1>2. Memory!Free.state = "free" /\ Memory!Idle.op = "idle"
  BY DEF Memory!Free, Memory!Idle
<1>3. \A x \in Call : x.op # "idle"
  BY DEF Call, Making, Unmaking
<1> QED
  BY <1>1, <1>2, <1>3

(* CreateMemoryBlock keeps MemoryInv.                                      *)
LEMMA CreateMemoryBlockStep ==
  ASSUME Kinds, MemoryInv, NEW t \in Caller, NEW m \in Block, Memory!CreateMemoryBlock(t, m)
  PROVE  MemoryInv'
<1> USE DEF MemoryInv
<1>1. /\ block[m].state = "free" /\ native' = native \cup {m} /\ memoryLive' = memoryLive \cup {m}
      /\ block' = [block EXCEPT ![m] = [state |-> "filled", refs |-> 0]]
      /\ slot' = slot /\ span' = span /\ memoryCondemned' = memoryCondemned /\ memoryCall' = memoryCall
  BY DEF Memory!CreateMemoryBlock
<1>2. /\ block' \in [Block -> [state : {"free", "filled"}, refs : 0 .. LastCount]] /\ block'[m].state = "filled"
      /\ \A b \in Block : b # m => block'[b] = block[b]
  BY <1>1, MemoryFacts DEF Kinds
<1>3. m \in Memory!Handle /\ m \notin Place \cup Structure /\ ~Owned(m)
  BY DEF Memory!Handle, Kinds, Owned
<1>4. m \notin memoryLive /\ ~Waiting(m) /\ \A u \in Caller : ~On(u, m)
  BY <1>1 DEF HeldBlocks
<1>5. MemoryTypes'
  BY <1>1, <1>2, <1>3, MemoryFacts DEF MemoryTypes, Memory!TypeOK, Memory!Filled, Memory!Handle, Call
<1>6. InOneHand'
  BY <1>1, <1>3, <1>4 DEF InOneHand, On, Waiting, Owned
<1>7. HeldSlots' /\ HeldBlocks'
  BY <1>1, <1>2, <1>3 DEF HeldSlots, HeldBlocks, On, Waiting, Owned
<1>8. SlotForm' /\ CallForm' /\ Natives' /\ Rooms'
  BY <1>1, <1>3 DEF SlotForm, CallForm, Natives, Rooms, On, Owned
<1> QED
  BY <1>5, <1>6, <1>7, <1>8

(* CreateBuffer and CreateImage, up to the call of VMA, keep MemoryInv.    *)
LEMMA NewResourceStep ==
  ASSUME Kinds, MemoryInv, NEW t \in Caller, NEW p \in Place, NEW m \in Block \cup {Memory!Own},
         Memory!NewResource(t, p, m)
  PROVE  MemoryInv'
<1> USE DEF MemoryInv
<1>1. /\ memoryCall[t] = Memory!Idle /\ slot[p] = Memory!Free
      /\ slot' = [slot EXCEPT ![p] = [state |-> "taken", in |-> m, owner |-> Memory!Nobody]]
      /\ memoryCall' = [memoryCall EXCEPT ![t] = [op |-> "create", on |-> p, refs |-> 0]]
      /\ block' = block /\ span' = span /\ native' = native /\ memoryLive' = memoryLive
      /\ memoryCondemned' = memoryCondemned
  BY DEF Memory!NewResource, Memory!Begin
<1>2. PICK x \in Memory!Filled : x = [state |-> "taken", in |-> m, owner |-> Memory!Nobody]
  BY DEF Memory!Filled
<1>3. PICK c \in Call : c = [op |-> "create", on |-> p, refs |-> 0]
  <2>1. p \in Memory!Handle /\ 0 \in 0 .. LastCount /\ "create" \in Making \cup Unmaking
    BY DEF Making, Memory!Handle, Kinds
  <2> QED
    BY <2>1 DEF Call
<1>4. /\ slot' \in [Place \cup Structure -> Memory!Filled \cup {Memory!Free}] /\ slot'[p] = x
      /\ \A r \in Place \cup Structure : r # p => slot'[r] = slot[r]
      /\ \A s \in Structure : slot'[s] = slot[s]
      /\ \A r \in Place \cup Structure : r # p => (Owned(r)' <=> Owned(r))
  BY <1>1, <1>2, SlotChanges
<1>5. /\ memoryCall' \in [Caller -> Call \cup {Memory!Idle}] /\ memoryCall'[t] = c
      /\ \A u \in Caller : u # t => memoryCall'[u] = memoryCall[u]
      /\ \A u \in Caller : u # t => \A h : On(u, h)' <=> On(u, h)
      /\ \A h : On(t, h)' <=> p = h
  <2>1. memoryCall' = [memoryCall EXCEPT ![t] = c] /\ c \in Call \cup {Memory!Idle} /\ c # Memory!Idle /\ c.on = p
    BY <1>1, <1>3, NothingThere
  <2> QED
    BY ZenonT(60), <2>1, CallChanges
<1>6. x # Memory!Free /\ x.in = m /\ x.owner = Memory!Nobody /\ c # Memory!Idle /\ c.op = "create" /\ c.on = p
  BY <1>2, <1>3, NothingThere
<1>7. p \notin memoryLive /\ ~Waiting(p) /\ (\A u \in Caller : ~On(u, p)) /\ ~Owned(p)' /\ \A h : ~On(t, h)
  BY <1>1, <1>4, <1>6 DEF HeldSlots, Owned, On
<1>8. MemoryTypes'
  BY <1>1, <1>4, <1>5, MemoryFacts DEF MemoryTypes, Memory!TypeOK, Memory!Handle, Call
<1>9. InOneHand'
  <2>1. \A h : Waiting(h)' <=> Waiting(h)
    BY <1>1 DEF Waiting
  <2>2. \A h \in Block : ~Owned(h) /\ ~Owned(h)' /\ p # h
    BY DEF Owned, Kinds
  <2> QED
    BY <1>1, <1>4, <1>5, <1>7, <2>1, <2>2 DEF InOneHand, Memory!Handle
<1>10. HeldSlots' /\ HeldBlocks'
  <2>1. \A h : Waiting(h)' <=> Waiting(h)
    BY <1>1 DEF Waiting
  <2>2. \A h \in Block : p # h
    BY DEF Kinds
  <2> QED
    BY <1>1, <1>4, <1>5, <1>6, <1>7, <2>1, <2>2 DEF HeldSlots, HeldBlocks
<1>11. SlotForm'
  BY <1>1, <1>4, <1>6, <1>7, MemoryFacts DEF SlotForm, Owned
<1>12. CallForm'
  BY <1>1, <1>4, <1>5, <1>6, <1>7 DEF CallForm, On
<1>13. Natives'
  BY <1>1, <1>4, <1>5, <1>6, <1>7 DEF Natives
<1>14. Rooms'
  BY <1>1, <1>4, <1>6, <1>7 DEF Rooms, Natives
<1> QED
  BY <1>8, <1>9, <1>10, <1>11, <1>12, <1>13, <1>14

(* A call that goes on is still about the same handle.                     *)
LEMMA CallGoesOn ==
  ASSUME MemoryTypes, Kinds, NEW t \in Caller, NEW c \in Call, memoryCall[t] # Memory!Idle,
         c.on = memoryCall[t].on, memoryCall' = [memoryCall EXCEPT ![t] = c]
  PROVE  /\ memoryCall' \in [Caller -> Call \cup {Memory!Idle}] /\ memoryCall'[t] = c /\ c # Memory!Idle
         /\ \A u \in Caller : u # t => memoryCall'[u] = memoryCall[u]
         /\ \A u \in Caller : \A h : On(u, h)' <=> On(u, h)
<1>1. c # Memory!Idle /\ c \in Call \cup {Memory!Idle}
  BY NothingThere
<1>2. /\ memoryCall' \in [Caller -> Call \cup {Memory!Idle}] /\ memoryCall'[t] = c
      /\ \A u \in Caller : u # t => memoryCall'[u] = memoryCall[u]
      /\ \A u \in Caller : u # t => \A h : On(u, h)' <=> On(u, h)
      /\ \A h : On(t, h)' <=> c # Memory!Idle /\ c.on = h
  BY <1>1, CallChanges
<1>3. \A h : On(t, h) <=> c.on = h
  BY DEF On
<1> QED
  BY <1>1, <1>2, <1>3

(* While the same handles are held by the same calls, nothing else moving, *)
(* hands stay as they are.                                                 *)
LEMMA HandsAsBefore ==
  ASSUME MemoryInv, \A u \in Caller : \A h : On(u, h)' <=> On(u, h),
         memoryLive' = memoryLive, memoryCondemned' = memoryCondemned,
         \A s \in Place \cup Structure : slot'[s] # Memory!Free <=> slot[s] # Memory!Free,
         \A s \in Place \cup Structure : slot[s] # Memory!Free => slot'[s].owner = slot[s].owner,
         \A m \in Block : block'[m].state = block[m].state
  PROVE  InOneHand' /\ HeldSlots' /\ HeldBlocks'
<1>1. \A h : Waiting(h)' <=> Waiting(h)
  BY DEF Waiting
<1>2. \A h : Owned(h)' <=> Owned(h)
  BY DEF Owned
<1>3. InOneHand'
  BY <1>1, <1>2 DEF MemoryInv, InOneHand
<1>4. HeldSlots'
  BY <1>1, <1>2 DEF MemoryInv, HeldSlots
<1>5. HeldBlocks'
  BY <1>1 DEF MemoryInv, HeldBlocks
<1> QED
  BY <1>3, <1>4, <1>5

(* Memory of its own for a buffer or an image keeps MemoryInv.             *)
LEMMA AllocateItsOwnStep ==
  ASSUME Kinds, MemoryInv, NEW t \in Caller, Memory!AllocateItsOwn(t)
  PROVE  MemoryInv'
<1> USE DEF MemoryInv
<1>1. PICK p : p = memoryCall[t].on
  OBVIOUS
<1>2. /\ memoryCall[t].op = "create" /\ slot[p].in = Memory!Own
      /\ slot' = [slot EXCEPT ![p].state = "filled"] /\ native' = native \cup {p}
      /\ memoryLive' = memoryLive \cup {p} /\ memoryCall' = [memoryCall EXCEPT ![t] = Memory!Idle]
      /\ block' = block /\ span' = span /\ memoryCondemned' = memoryCondemned
  BY <1>1 DEF Memory!AllocateItsOwn, Memory!End
<1>3. /\ memoryCall[t] # Memory!Idle /\ p \in Place /\ p \in Memory!Handle /\ On(t, p)
      /\ slot[p] # Memory!Free
  <2>1. memoryCall[t] # Memory!Idle
    BY <1>2, MemoryFacts
  <2>2. p \in Place /\ On(t, p)
    BY <1>1, <1>2, <2>1 DEF CallForm, On
  <2> QED
    BY <2>1, <2>2 DEF HeldSlots, Memory!Handle
<1>4. PICK x \in Memory!Filled : x = [slot[p] EXCEPT !.state = "filled"]
  BY <1>3, MemoryFacts DEF Memory!Filled
<1>5. x # Memory!Free /\ x.in = slot[p].in /\ x.owner = slot[p].owner
  BY <1>3, <1>4, NothingThere, MemoryFacts DEF Memory!Filled
<1>6. /\ slot' \in [Place \cup Structure -> Memory!Filled \cup {Memory!Free}] /\ slot'[p] = x
      /\ \A r \in Place \cup Structure : r # p => slot'[r] = slot[r]
      /\ \A s \in Structure : slot'[s] = slot[s]
      /\ \A r \in Place \cup Structure : r # p => (Owned(r)' <=> Owned(r))
  <2>1. slot' = [slot EXCEPT ![p] = x] /\ x \in Memory!Filled \cup {Memory!Free}
    BY <1>2, <1>4
  <2> QED
    BY <1>3, <2>1, SlotChanges
<1>7. /\ memoryCall' \in [Caller -> Call \cup {Memory!Idle}] /\ memoryCall'[t] = Memory!Idle
      /\ \A u \in Caller : u # t => memoryCall'[u] = memoryCall[u]
      /\ \A u \in Caller : u # t => \A h : On(u, h)' <=> On(u, h)
      /\ \A h : ~On(t, h)'
  <2>1. Memory!Idle \in Call \cup {Memory!Idle}
    OBVIOUS
  <2> QED
    BY <1>2, <2>1, CallChanges
<1>8. ~Owned(p) /\ ~Owned(p)' /\ p \notin memoryLive /\ ~Waiting(p) /\ (\A u \in Caller : On(u, p) => u = t) /\ \A h : On(t, h) => h = p
  <2>1. ~Owned(p) /\ p \notin memoryLive /\ ~Waiting(p) /\ \A u \in Caller : On(u, p) => u = t
    BY <1>3 DEF InOneHand
  <2>2. ~Owned(p)'
    BY <1>3, <1>5, <1>6, <2>1 DEF Owned
  <2>3. \A h : On(t, h) => h = p
    BY <1>1 DEF On
  <2> QED
    BY <2>1, <2>2, <2>3
<1>9. MemoryTypes'
  BY <1>2, <1>3, <1>6, <1>7, MemoryFacts DEF MemoryTypes, Memory!TypeOK, Memory!Handle, Call
<1>10. \A h : Waiting(h)' <=> Waiting(h)
  BY <1>2 DEF Waiting
<1>11. \A h \in Block : ~Owned(h) /\ ~Owned(h)' /\ p # h
  BY <1>3 DEF Owned, Kinds
<1>12. InOneHand'
  <2>1. \A i, j \in 1 .. Len(memoryCondemned) : memoryCondemned'[i] = memoryCondemned'[j] => i = j
    BY <1>2 DEF InOneHand
  <2> QED
    BY <1>2, <1>3, <1>6, <1>7, <1>8, <1>10, <1>11, <2>1 DEF InOneHand, Memory!Handle
<1>13. HeldSlots' /\ HeldBlocks'
  BY <1>2, <1>3, <1>5, <1>6, <1>7, <1>8, <1>10, <1>11 DEF HeldSlots, HeldBlocks
<1>14. SlotForm' /\ CallForm'
  BY <1>2, <1>3, <1>5, <1>6, <1>7, <1>8, MemoryFacts DEF SlotForm, CallForm, Owned, On
<1>15. Natives'
  <2>1. \A q \in Place : q # p => ((\E u \in Caller : On(u, q)' /\ memoryCall'[u].op = "create") <=> (\E u \in Caller : On(u, q) /\ memoryCall[u].op = "create"))
    BY <1>7, <1>8
  <2>2. ~\E u \in Caller : On(u, p)' /\ memoryCall'[u].op = "create"
    BY <1>7, <1>8
  <2> QED
    BY <1>2, <1>3, <1>5, <1>6, <2>1, <2>2 DEF Natives
<1>16. Rooms'
  BY <1>2, <1>3, <1>5, <1>6, <1>8 DEF Rooms, Natives, Kinds
<1> QED
  BY <1>9, <1>12, <1>13, <1>14, <1>15, <1>16

(* Room in a block keeps MemoryInv: it is apart from what is there.        *)
LEMMA PlaceInBlockStep ==
  ASSUME Kinds, MemoryInv, NEW t \in Caller, Memory!PlaceInBlock(t)
  PROVE  MemoryInv'
<1> USE DEF MemoryInv
<1>1. PICK p, m : p = memoryCall[t].on /\ m = slot[p].in
  OBVIOUS
<1>2. /\ memoryCall[t].op = "create" /\ m # Memory!Own
      /\ native' = native \cup {p} /\ memoryCall' = [memoryCall EXCEPT ![t].op = "placed"]
      /\ slot' = slot /\ block' = block /\ memoryLive' = memoryLive /\ memoryCondemned' = memoryCondemned
  BY <1>1 DEF Memory!PlaceInBlock, Memory!Goes
<1>3. PICK n \in {1, 2} : \E room \in Memory!Spans(n) :
        room \cap Memory!Given(m) = {} /\ span' = [span EXCEPT ![m][p] = room]
  BY <1>1 DEF Memory!PlaceInBlock
<1>4. PICK room \in Memory!Spans(n) : room \cap Memory!Given(m) = {} /\ span' = [span EXCEPT ![m][p] = room]
  BY <1>3
<1>5. PICK lo \in 0 .. BlockSize - n : room = lo .. lo + n - 1
  BY <1>4 DEF Memory!Spans
<1>6. room # {} /\ room \subseteq 0 .. BlockSize - 1
  <2>1. lo \in room
    BY <1>3, <1>5
  <2>2. \A i \in room : i \in 0 .. BlockSize - 1
    BY <1>3, <1>5 DEF Kinds
  <2> QED
    BY <2>1, <2>2
<1>7. memoryCall[t] # Memory!Idle /\ p \in Place /\ p \in Memory!Handle /\ On(t, p) /\ slot[p] # Memory!Free /\ m \in Block
  <2>1. memoryCall[t] # Memory!Idle
    BY <1>2, MemoryFacts
  <2>2. p \in Place /\ On(t, p)
    <3>1. memoryCall[t] \in Call /\ memoryCall[t].on \in Memory!Handle
      BY <2>1, MemoryFacts
    <3>2. On(t, p) /\ p \in Memory!Handle
      BY <1>1, <2>1, <3>1 DEF On
    <3> QED
      BY <1>1, <1>2, <2>1, <3>2 DEF CallForm
  <2>3. slot[p] # Memory!Free
    BY <2>2 DEF HeldSlots
  <2> QED
    BY <1>1, <1>2, <2>1, <2>2, <2>3, MemoryFacts DEF Memory!Handle
<1>8. PICK c \in Call : c = [memoryCall[t] EXCEPT !.op = "placed"]
  <2>1. memoryCall[t] \in Call /\ "placed" \in Making \cup Unmaking
    BY <1>7, MemoryFacts DEF Making
  <2> QED
    BY <2>1 DEF Call
<1>9. c.op = "placed" /\ c.on = p
  BY <1>1, <1>7, <1>8, MemoryFacts DEF Call
<1>10. /\ memoryCall' \in [Caller -> Call \cup {Memory!Idle}] /\ memoryCall'[t] = c /\ c # Memory!Idle
       /\ \A u \in Caller : u # t => memoryCall'[u] = memoryCall[u]
       /\ \A u \in Caller : \A h : On(u, h)' <=> On(u, h)
  <2>1. memoryCall' = [memoryCall EXCEPT ![t] = c] /\ c.on = memoryCall[t].on
    BY <1>1, <1>2, <1>8, <1>9
  <2> QED
    BY <1>7, <2>1, CallGoesOn
<1>11. /\ span' \in [Block -> [Place -> SUBSET (0 .. BlockSize - 1)]] /\ span'[m][p] = room
       /\ \A b \in Block : \A q \in Place : b # m \/ q # p => span'[b][q] = span[b][q]
  BY <1>4, <1>6, <1>7, MemoryFacts
<1>12. MemoryTypes'
  <2>1. \A u \in Caller : memoryCall'[u] = Memory!Idle \/ memoryCall'[u].on \in Memory!Handle
    BY <1>10 DEF Call
  <2> QED
    BY <1>2, <1>7, <1>10, <1>11, <2>1, MemoryFacts DEF MemoryTypes, Memory!TypeOK, Memory!Handle
<1>13. InOneHand' /\ HeldSlots' /\ HeldBlocks'
  BY <1>2, <1>10, HandsAsBefore
<1>14. SlotForm'
  BY <1>2 DEF SlotForm, Owned
<1>15. CallForm'
  BY <1>1, <1>2, <1>7, <1>9, <1>10 DEF CallForm
<1>16. Natives'
  <2>1. \A u \in Caller : On(u, p) => u = t
    BY <1>7 DEF InOneHand
  <2>2. ~\E u \in Caller : On(u, p)' /\ memoryCall'[u].op = "create"
    BY <1>9, <1>10, <2>1
  <2>3. \A q \in Place : q # p => ~On(t, q)
    BY <1>1, <1>7 DEF On
  <2>4. \A q \in Place : q # p => ((\E u \in Caller : On(u, q)' /\ memoryCall'[u].op = "create") <=> (\E u \in Caller : On(u, q) /\ memoryCall[u].op = "create"))
    BY <1>10, <2>3
  <2> QED
    BY <1>2, <1>7, <2>2, <2>4 DEF Natives
<1>17. p \notin native
  BY <1>2, <1>7 DEF Natives
<1>18. Rooms'
  <2>1. \A q \in Place : room \cap span[m][q] = {}
    BY <1>4 DEF Memory!Given
  <2>2. \A b \in Block : \A q, r \in Place : q # r => span'[b][q] \cap span'[b][r] = {}
    BY <1>7, <1>11, <2>1 DEF Rooms
  <2>3. \A b \in Block : \A q \in Place : span'[b][q] # {} <=> slot[q] # Memory!Free /\ slot[q].in = b /\ q \in native'
    BY <1>1, <1>2, <1>6, <1>7, <1>11, <1>17 DEF Rooms
  <2> QED
    BY <1>2, <2>2, <2>3 DEF Rooms
<1> QED
  BY <1>12, <1>13, <1>14, <1>15, <1>16, <1>18

(* Without room the creation fails and gives the slot back: MemoryInv      *)
(* stays.                                                                  *)
LEMMA OutOfRoomStep ==
  ASSUME Kinds, MemoryInv, NEW t \in Caller, Memory!OutOfRoom(t)
  PROVE  MemoryInv'
<1> USE DEF MemoryInv
<1>1. PICK p : p = memoryCall[t].on
  OBVIOUS
<1>2. /\ memoryCall[t].op = "create" /\ slot[p].in # Memory!Own
      /\ slot' = [slot EXCEPT ![p] = Memory!Free] /\ memoryCall' = [memoryCall EXCEPT ![t] = Memory!Idle]
      /\ memoryLive' = memoryLive /\ block' = block /\ span' = span /\ native' = native
      /\ memoryCondemned' = memoryCondemned
  BY <1>1 DEF Memory!OutOfRoom, Memory!End
<1>3. memoryCall[t] # Memory!Idle /\ p \in Place /\ p \in Memory!Handle /\ On(t, p) /\ slot[p] # Memory!Free
  <2>1. memoryCall[t] # Memory!Idle
    BY <1>2, MemoryFacts
  <2>2. p \in Place /\ On(t, p)
    BY <1>1, <1>2, <2>1 DEF CallForm, On
  <2> QED
    BY <2>1, <2>2 DEF HeldSlots, Memory!Handle
<1>4. /\ slot' \in [Place \cup Structure -> Memory!Filled \cup {Memory!Free}] /\ slot'[p] = Memory!Free
      /\ \A r \in Place \cup Structure : r # p => slot'[r] = slot[r]
      /\ \A s \in Structure : slot'[s] = slot[s]
      /\ \A r \in Place \cup Structure : r # p => (Owned(r)' <=> Owned(r))
  <2>1. Memory!Free \in Memory!Filled \cup {Memory!Free}
    OBVIOUS
  <2> QED
    BY <1>2, <1>3, <2>1, SlotChanges
<1>5. /\ memoryCall' \in [Caller -> Call \cup {Memory!Idle}] /\ memoryCall'[t] = Memory!Idle
      /\ \A u \in Caller : u # t => memoryCall'[u] = memoryCall[u]
      /\ \A u \in Caller : u # t => \A h : On(u, h)' <=> On(u, h)
      /\ \A h : ~On(t, h)'
  <2>1. Memory!Idle \in Call \cup {Memory!Idle}
    OBVIOUS
  <2> QED
    BY <1>2, <2>1, CallChanges
<1>6. ~Owned(p) /\ ~Owned(p)' /\ p \notin memoryLive /\ ~Waiting(p) /\ (\A u \in Caller : On(u, p) => u = t) /\ \A h : On(t, h) => h = p
  <2>1. ~Owned(p) /\ p \notin memoryLive /\ ~Waiting(p) /\ \A u \in Caller : On(u, p) => u = t
    BY <1>3 DEF InOneHand
  <2>2. ~Owned(p)'
    BY <1>4 DEF Owned
  <2>3. \A h : On(t, h) => h = p
    BY <1>1 DEF On
  <2> QED
    BY <2>1, <2>2, <2>3
<1>7. MemoryTypes'
  BY <1>2, <1>3, <1>4, <1>5, MemoryFacts DEF MemoryTypes, Memory!TypeOK, Memory!Handle, Call
<1>8. \A h : Waiting(h)' <=> Waiting(h)
  BY <1>2 DEF Waiting
<1>9. \A h \in Block : ~Owned(h) /\ ~Owned(h)' /\ p # h
  BY <1>3 DEF Owned, Kinds
<1>10. InOneHand'
  <2>1. \A i, j \in 1 .. Len(memoryCondemned) : memoryCondemned'[i] = memoryCondemned'[j] => i = j
    BY <1>2 DEF InOneHand
  <2> QED
    BY <1>2, <1>3, <1>4, <1>5, <1>6, <1>8, <1>9, <2>1 DEF InOneHand, Memory!Handle
<1>11. HeldSlots' /\ HeldBlocks'
  BY <1>2, <1>3, <1>4, <1>5, <1>6, <1>8, <1>9 DEF HeldSlots, HeldBlocks
<1>12. SlotForm' /\ CallForm'
  BY <1>2, <1>3, <1>4, <1>5, <1>6, MemoryFacts DEF SlotForm, CallForm, Owned, On
<1>13. Natives'
  <2>1. \A q \in Place : q # p => ((\E u \in Caller : On(u, q)' /\ memoryCall'[u].op = "create") <=> (\E u \in Caller : On(u, q) /\ memoryCall[u].op = "create"))
    BY <1>5, <1>6
  <2>2. p \notin native
    BY <1>2, <1>3 DEF Natives
  <2> QED
    BY <1>2, <1>3, <1>4, <2>1, <2>2 DEF Natives
<1>14. Rooms'
  BY <1>2, <1>3, <1>4, <1>6 DEF Rooms, Natives
<1> QED
  BY <1>7, <1>10, <1>11, <1>12, <1>13, <1>14

(* The first half of an increment or decrement of debugReferences keeps    *)
(* MemoryInv.                                                              *)
LEMMA ReadReferencesStep ==
  ASSUME Kinds, MemoryInv, NEW t \in Caller, memoryCall[t] # Memory!Idle, memoryCall[t].on \in Place,
         Memory!ReadReferences(t)
  PROVE  MemoryInv'
<1> USE DEF MemoryInv
<1>1. PICK p, op, refs : /\ p = memoryCall[t].on /\ refs = block[slot[p].in].refs
                         /\ op = IF memoryCall[t].op = "placed" THEN "counting" ELSE "uncounting"
  OBVIOUS
<1>2. /\ memoryCall[t].op \in {"placed", "destroy"} /\ slot[p].in # Memory!Own
      /\ memoryCall' = [memoryCall EXCEPT ![t].op = IF @ = "placed" THEN "counting" ELSE "uncounting", ![t].refs = refs]
      /\ native' = native /\ span' = span
      /\ slot' = slot /\ block' = block /\ memoryLive' = memoryLive /\ memoryCondemned' = memoryCondemned
  BY <1>1 DEF Memory!ReadReferences
<1>3. p \in Place /\ On(t, p) /\ slot[p] # Memory!Free /\ slot[p].in \in Block /\ refs \in 0 .. LastCount
  <2>1. p \in Place /\ On(t, p)
    BY <1>1 DEF On
  <2>2. slot[p] # Memory!Free
    BY <2>1 DEF HeldSlots
  <2>3. slot[p].in \in Block
    BY <1>2, <2>1, <2>2, MemoryFacts
  <2> QED
    BY <1>1, <2>1, <2>2, <2>3, MemoryFacts
<1>4. PICK c \in Call : c = [op |-> op, on |-> p, refs |-> refs]
  <2>1. op \in Making \cup Unmaking /\ p \in Memory!Handle
    BY <1>1, <1>3 DEF Making, Unmaking, Memory!Handle
  <2> QED
    BY <1>3, <2>1 DEF Call
<1>5. c = [memoryCall[t] EXCEPT !.op = op, !.refs = refs]
  <2>1. memoryCall[t] \in Call
    BY MemoryFacts
  <2> QED
    <3>1. c.op = op /\ c.on = p /\ c.refs = refs /\ c \in Call
      BY <1>4
    <3>2. PICK d : d = [memoryCall[t] EXCEPT !.op = op, !.refs = refs]
      OBVIOUS
    <3>3. op \in Making \cup Unmaking
      BY <1>1 DEF Making, Unmaking
    <3>4. d \in Call /\ d.op = op /\ d.on = p /\ d.refs = refs
      BY <1>1, <1>3, <2>1, <3>2, <3>3 DEF Call
    <3>5. \A x, y \in Call : x.op = y.op /\ x.on = y.on /\ x.refs = y.refs => x = y
      BY DEF Call
    <3> QED
      BY <3>1, <3>2, <3>4, <3>5
<1>6. /\ memoryCall' \in [Caller -> Call \cup {Memory!Idle}] /\ memoryCall'[t] = c /\ c # Memory!Idle
      /\ \A u \in Caller : u # t => memoryCall'[u] = memoryCall[u]
      /\ \A u \in Caller : \A h : On(u, h)' <=> On(u, h)
  <2>1. memoryCall' = [memoryCall EXCEPT ![t] = c]
    BY <1>1, <1>2, <1>5, MemoryFacts
  <2>2. c.on = memoryCall[t].on
    BY <1>1, <1>4
  <2> QED
    BY <2>1, <2>2, CallGoesOn
<1>7. MemoryTypes'
  <2>1. \A u \in Caller : memoryCall'[u] = Memory!Idle \/ memoryCall'[u].on \in Memory!Handle
    BY <1>6 DEF Call
  <2> QED
    BY <1>2, <1>6, <2>1, MemoryFacts DEF MemoryTypes, Memory!TypeOK, Memory!Handle
<1>8. InOneHand' /\ HeldSlots' /\ HeldBlocks'
  BY <1>2, <1>6, HandsAsBefore
<1>9. SlotForm' /\ Rooms'
  BY <1>2 DEF SlotForm, Owned, Rooms
<1>10. CallForm'
  <2>1. \A u \in Caller : u # t /\ memoryCall'[u] # Memory!Idle /\ memoryCall'[u].op # "destroy" =>
          /\ memoryCall'[u].on \in Place
          /\ memoryCall'[u].op # "create" => slot'[memoryCall'[u].on].in # Memory!Own
    BY <1>2, <1>6 DEF CallForm
  <2>2. memoryCall'[t].on = p /\ slot'[p].in # Memory!Own
    <3>1. memoryCall'[t].on = p
      BY <1>4, <1>6
    <3>2. slot'[p].in # Memory!Own
      BY <1>2
    <3> QED
      BY <3>1, <3>2
  <2> QED
    BY <1>3, <2>1, <2>2 DEF CallForm
<1>11. Natives'
  <2>1. c.op # "create" /\ memoryCall[t].op # "create"
    BY <1>1, <1>2, <1>4
  <2> QED
    BY <1>2, <1>6, <2>1 DEF Natives
<1> QED
  BY <1>7, <1>8, <1>9, <1>10, <1>11

(* The second half of the increment, and the handle, keep MemoryInv.       *)
LEMMA CountResidentStep ==
  ASSUME Kinds, MemoryInv, NEW t \in Caller, Memory!CountResident(t)
  PROVE  MemoryInv'
<1> USE DEF MemoryInv
<1>1. PICK p, m, n : p = memoryCall[t].on /\ m = slot[p].in /\ n = (memoryCall[t].refs + 1) % (LastCount + 1)
  OBVIOUS
<1>2. /\ memoryCall[t].op = "counting"
      /\ block' = [block EXCEPT ![m].refs = n]
      /\ slot' = [slot EXCEPT ![p].state = "filled"] /\ native' = native
      /\ memoryLive' = memoryLive \cup {p} /\ memoryCall' = [memoryCall EXCEPT ![t] = Memory!Idle]
      /\ span' = span /\ memoryCondemned' = memoryCondemned
  BY <1>1 DEF Memory!CountResident, Memory!End
<1>3. /\ memoryCall[t] # Memory!Idle /\ p \in Place /\ p \in Memory!Handle /\ On(t, p)
      /\ slot[p] # Memory!Free /\ m \in Block /\ n \in 0 .. LastCount
  <2>1. memoryCall[t] # Memory!Idle
    BY <1>2, MemoryFacts
  <2>2. p \in Place /\ On(t, p) /\ m # Memory!Own
    BY <1>1, <1>2, <2>1 DEF CallForm, On
  <2>3. slot[p] # Memory!Free
    BY <2>2 DEF HeldSlots
  <2>4. memoryCall[t].refs \in 0 .. LastCount
    BY <2>1, MemoryFacts
  <2>5. n \in 0 .. LastCount
    BY <1>1, <2>4 DEF Kinds
  <2> QED
    BY <1>1, <2>1, <2>2, <2>3, <2>5, MemoryFacts DEF Memory!Handle
<1>4. /\ block' \in [Block -> [state : {"free", "filled"}, refs : 0 .. LastCount]]
      /\ \A b \in Block : block'[b].state = block[b].state
  BY <1>2, <1>3, MemoryFacts
<1>5. PICK x \in Memory!Filled : x = [slot[p] EXCEPT !.state = "filled"]
  BY <1>3, MemoryFacts DEF Memory!Filled
<1>6. x # Memory!Free /\ x.in = slot[p].in /\ x.owner = slot[p].owner
  BY <1>3, <1>5, NothingThere, MemoryFacts DEF Memory!Filled
<1>7. /\ slot' \in [Place \cup Structure -> Memory!Filled \cup {Memory!Free}] /\ slot'[p] = x
      /\ \A r \in Place \cup Structure : r # p => slot'[r] = slot[r]
      /\ \A s \in Structure : slot'[s] = slot[s]
      /\ \A r \in Place \cup Structure : r # p => (Owned(r)' <=> Owned(r))
  <2>1. slot' = [slot EXCEPT ![p] = x] /\ x \in Memory!Filled \cup {Memory!Free}
    BY <1>2, <1>5
  <2> QED
    BY <1>3, <2>1, SlotChanges
<1>8. /\ memoryCall' \in [Caller -> Call \cup {Memory!Idle}] /\ memoryCall'[t] = Memory!Idle
      /\ \A u \in Caller : u # t => memoryCall'[u] = memoryCall[u]
      /\ \A u \in Caller : u # t => \A h : On(u, h)' <=> On(u, h)
      /\ \A h : ~On(t, h)'
  <2>1. Memory!Idle \in Call \cup {Memory!Idle}
    OBVIOUS
  <2> QED
    BY <1>2, <2>1, CallChanges
<1>9. /\ ~Owned(p) /\ ~Owned(p)' /\ p \notin memoryLive /\ ~Waiting(p)
      /\ \A u \in Caller : On(u, p) => u = t
      /\ \A h : On(t, h) => h = p
  <2>1. ~Owned(p) /\ p \notin memoryLive /\ ~Waiting(p) /\ \A u \in Caller : On(u, p) => u = t
    BY <1>3 DEF InOneHand
  <2>2. ~Owned(p)'
    BY <1>3, <1>6, <1>7, <2>1 DEF Owned
  <2>3. \A h : On(t, h) => h = p
    BY <1>1 DEF On
  <2> QED
    BY <2>1, <2>2, <2>3
<1>10. MemoryTypes'
  BY <1>2, <1>3, <1>4, <1>7, <1>8, MemoryFacts DEF MemoryTypes, Memory!TypeOK, Memory!Handle, Call
<1>11. \A h : Waiting(h)' <=> Waiting(h)
  BY <1>2 DEF Waiting
<1>12. \A h \in Block : ~Owned(h) /\ ~Owned(h)' /\ p # h
  BY <1>3 DEF Owned, Kinds
<1>13. InOneHand'
  <2>1. \A i, j \in 1 .. Len(memoryCondemned) : memoryCondemned'[i] = memoryCondemned'[j] => i = j
    BY <1>2 DEF InOneHand
  <2> QED
    BY <1>2, <1>3, <1>7, <1>8, <1>9, <1>11, <1>12, <2>1 DEF InOneHand, Memory!Handle
<1>14. HeldSlots'
  BY <1>2, <1>3, <1>6, <1>7, <1>8, <1>9, <1>11, <1>12 DEF HeldSlots
<1>15. HeldBlocks'
  BY <1>2, <1>4, <1>8, <1>11, <1>12 DEF HeldBlocks
<1>16. SlotForm' /\ CallForm'
  BY <1>2, <1>3, <1>6, <1>7, <1>8, <1>9, MemoryFacts DEF SlotForm, CallForm, Owned, On
<1>17. Natives'
  <2>1. \A q \in Place : q # p => ((\E u \in Caller : On(u, q)' /\ memoryCall'[u].op = "create") <=> (\E u \in Caller : On(u, q) /\ memoryCall[u].op = "create"))
    BY <1>8, <1>9
  <2>2. ~\E u \in Caller : On(u, p)' /\ memoryCall'[u].op = "create"
    BY <1>8, <1>9
  <2>3. p \in native
    BY <1>2, <1>3, <1>9 DEF Natives
  <2> QED
    BY <1>2, <1>3, <1>6, <1>7, <2>1, <2>2, <2>3 DEF Natives
<1>18. Rooms'
  BY <1>2, <1>3, <1>6, <1>7 DEF Rooms
<1> QED
  BY <1>10, <1>13, <1>14, <1>15, <1>16, <1>17, <1>18

(* CreateBlas and CreateTlas keep MemoryInv.                               *)
LEMMA CreateStructureStep ==
  ASSUME Kinds, MemoryInv, NEW t \in Caller, NEW s \in Structure, NEW p \in Place,
         Memory!CreateStructure(t, s, p)
  PROVE  MemoryInv'
<1> USE DEF MemoryInv
<1>1. PICK x, y : /\ x = [state |-> "filled", in |-> Memory!Own, owner |-> s]
                  /\ y = [state |-> "filled", in |-> Memory!Own, owner |-> Memory!Nobody]
  OBVIOUS
<1>2. /\ memoryCall[t] = Memory!Idle /\ slot[s] = Memory!Free /\ slot[p] = Memory!Free
      /\ slot' = [slot EXCEPT ![p] = x, ![s] = y]
      /\ native' = native \cup {s, p} /\ memoryLive' = memoryLive \cup {s}
      /\ block' = block /\ span' = span /\ memoryCondemned' = memoryCondemned /\ memoryCall' = memoryCall
  BY <1>1 DEF Memory!CreateStructure
<1>3. s # p /\ s \in Memory!Handle /\ p \in Memory!Handle /\ s \notin Place /\ s # Memory!Nobody /\ s \notin Block /\ p \notin Block
  BY DEF Kinds, Memory!Handle
<1>4. /\ x \in Memory!Filled /\ y \in Memory!Filled /\ x # Memory!Free /\ y # Memory!Free
      /\ x.in = Memory!Own /\ x.owner = s /\ y.in = Memory!Own /\ y.owner = Memory!Nobody
  <2>1. x \in Memory!Filled /\ y \in Memory!Filled
    BY <1>1 DEF Memory!Filled
  <2> QED
    BY <1>1, <2>1, NothingThere
<1>5. /\ slot' \in [Place \cup Structure -> Memory!Filled \cup {Memory!Free}] /\ slot'[p] = x /\ slot'[s] = y
      /\ \A r \in Place \cup Structure : r # p /\ r # s => slot'[r] = slot[r]
  BY <1>2, <1>3, <1>4, MemoryFacts
<1>6. /\ \A r \in Place \cup Structure : r # p /\ r # s => (Owned(r)' <=> Owned(r))
      /\ Owned(p)' /\ ~Owned(p) /\ ~Owned(s)' /\ ~Owned(s)
  BY <1>2, <1>3, <1>4, <1>5 DEF Owned
<1>7. /\ p \notin memoryLive /\ ~Waiting(p) /\ (\A u \in Caller : ~On(u, p))
      /\ s \notin memoryLive /\ ~Waiting(s) /\ (\A u \in Caller : ~On(u, s))
  BY <1>2 DEF HeldSlots
<1>8. MemoryTypes'
  BY <1>2, <1>3, <1>5, MemoryFacts DEF MemoryTypes, Memory!TypeOK, Memory!Handle, Call
<1>9. /\ \A h : Waiting(h)' <=> Waiting(h)
      /\ \A u \in Caller : \A h : On(u, h)' <=> On(u, h)
  BY <1>2 DEF Waiting, On
<1>10. \A h \in Block : ~Owned(h) /\ ~Owned(h)'
  BY DEF Owned, Kinds
<1>11. InOneHand'
  <2>1. \A i, j \in 1 .. Len(memoryCondemned) : memoryCondemned'[i] = memoryCondemned'[j] => i = j
    BY <1>2 DEF InOneHand
  <2> QED
    BY <1>2, <1>3, <1>6, <1>7, <1>9, <1>10, <2>1 DEF InOneHand, Memory!Handle
<1>12. HeldSlots'
  BY <1>2, <1>3, <1>4, <1>5, <1>6, <1>9 DEF HeldSlots
<1>13. HeldBlocks'
  BY <1>2, <1>3, <1>9 DEF HeldBlocks
<1>14. SlotForm'
  <2>1. \A r \in Structure : slot'[r] # Memory!Free => slot'[r].in = Memory!Own
    BY <1>3, <1>4, <1>5, <1>2 DEF SlotForm
  <2>2. \A q \in Place : Owned(q)' => slot'[q].in = Memory!Own /\ slot'[slot'[q].owner] # Memory!Free
    <3> SUFFICES ASSUME NEW q \in Place, Owned(q)'
                 PROVE  slot'[q].in = Memory!Own /\ slot'[slot'[q].owner] # Memory!Free
      OBVIOUS
    <3>1. CASE q = p
      BY <3>1, <1>4, <1>5
    <3>2. CASE q # p
      <4>1. q # s /\ slot'[q] = slot[q] /\ Owned(q)
        BY <3>2, <1>3, <1>5, <1>6
      <4>2. slot[q].in = Memory!Own /\ slot[slot[q].owner] # Memory!Free
        BY <4>1 DEF SlotForm
      <4>3. slot[q].owner \in Structure
        BY <4>1, MemoryFacts DEF Owned
      <4>4. slot'[slot[q].owner] # Memory!Free
        BY <1>3, <1>4, <1>5, <4>2, <4>3
      <4> QED
        BY <4>1, <4>2, <4>4
    <3> QED
      BY <3>1, <3>2
  <2> QED
    BY <2>1, <2>2 DEF SlotForm
<1>15. CallForm'
  <2> SUFFICES ASSUME NEW u \in Caller, memoryCall[u] # Memory!Idle, memoryCall[u].op # "destroy"
               PROVE  /\ memoryCall[u].on \in Place
                      /\ memoryCall[u].op # "create" => slot'[memoryCall[u].on].in # Memory!Own
    BY <1>2 DEF CallForm
  <2>1. memoryCall[u].on \in Place /\ memoryCall[u].on # p /\ memoryCall[u].on # s
    BY <1>3, <1>7 DEF CallForm, On
  <2> QED
    BY <1>5, <2>1 DEF CallForm
<1>16. Natives'
  <2>1. ~\E u \in Caller : On(u, p)' /\ memoryCall'[u].op = "create"
    BY <1>7, <1>9
  <2>2. \A q \in Place : q # p => q # s /\ (q \in native' <=> q \in native)
    BY <1>2, <1>3
  <2> QED
    BY <1>2, <1>4, <1>5, <1>9, <2>1, <2>2 DEF Natives
<1>17. Rooms'
  <2>1. \A m \in Block : span[m][p] = {} /\ m # Memory!Own
    BY <1>2 DEF Rooms, Kinds
  <2>2. \A q \in Place : q # p => q # s /\ (q \in native' <=> q \in native)
    BY <1>2, <1>3
  <2> QED
    BY <1>2, <1>4, <1>5, <2>1, <2>2 DEF Rooms
<1> QED
  BY <1>8, <1>11, <1>12, <1>13, <1>14, <1>15, <1>16, <1>17

(* A deferred destruction keeps MemoryInv.                                 *)
LEMMA MemoryDestroyDeferredStep ==
  ASSUME Kinds, MemoryInv, NEW t \in Caller, NEW h \in Memory!Handle, Memory!DestroyDeferred(t, h)
  PROVE  MemoryInv'
<1> USE DEF MemoryInv
<1>1. /\ h \in memoryLive /\ memoryLive' = memoryLive \ {h} /\ memoryCondemned' = Append(memoryCondemned, h)
      /\ slot' = slot /\ block' = block /\ span' = span /\ native' = native /\ memoryCall' = memoryCall
  BY DEF Memory!DestroyDeferred, Memory!MayGiveUp
<1>2. /\ memoryCondemned' \in Seq(Memory!Handle) /\ Len(memoryCondemned) \in Nat
      /\ Len(memoryCondemned') = Len(memoryCondemned) + 1
      /\ \A i \in 1 .. Len(memoryCondemned) : i \in 1 .. Len(memoryCondemned') /\ memoryCondemned'[i] = memoryCondemned[i]
      /\ \A i \in 1 .. Len(memoryCondemned') :
           \/ i \in 1 .. Len(memoryCondemned) /\ memoryCondemned'[i] = memoryCondemned[i]
           \/ i = Len(memoryCondemned) + 1 /\ memoryCondemned'[i] = h
  BY <1>1, MemoryFacts, AppendElements
<1>3. \A x : Waiting(x)' <=> Waiting(x) \/ x = h
  <2>1. Len(memoryCondemned) + 1 \in 1 .. Len(memoryCondemned') /\ Len(memoryCondemned) + 1 \notin 1 .. Len(memoryCondemned)
    BY <1>2
  <2> QED
    BY <1>2, <2>1 DEF Waiting
<1>4. /\ ~Waiting(h) /\ ~Owned(h) /\ \A u \in Caller : ~On(u, h)
  BY <1>1 DEF InOneHand
<1>5. MemoryTypes'
  BY <1>1, <1>2, MemoryFacts DEF MemoryTypes, Memory!TypeOK, Memory!Handle, Call
<1>6. /\ \A x : Owned(x)' <=> Owned(x)
      /\ \A u \in Caller : \A x : On(u, x)' <=> On(u, x)
  BY <1>1 DEF Owned, On
<1>7. InOneHand'
  <2>1. \A i, j \in 1 .. Len(memoryCondemned') : memoryCondemned'[i] = memoryCondemned'[j] => i = j
    <3>1. \A i \in 1 .. Len(memoryCondemned) : memoryCondemned[i] # h
      BY <1>4 DEF Waiting
    <3>2. \A i, j \in 1 .. Len(memoryCondemned) : memoryCondemned[i] = memoryCondemned[j] => i = j
      BY DEF InOneHand
    <3> QED
      BY <1>2, <3>1, <3>2
  <2> QED
    BY <1>1, <1>3, <1>4, <1>6, <2>1 DEF InOneHand
<1>8. HeldSlots' /\ HeldBlocks'
  BY <1>1, <1>3, <1>6 DEF HeldSlots, HeldBlocks
<1>9. SlotForm' /\ CallForm' /\ Natives' /\ Rooms'
  BY <1>1, <1>6 DEF SlotForm, CallForm, Natives, Rooms
<1> QED
  BY <1>5, <1>7, <1>8, <1>9

(* The call that begins to destroy a handle nobody else is about.          *)
LEMMA DestroyBegins ==
  ASSUME Kinds, MemoryInv, NEW t \in Caller, NEW h \in Memory!Handle,
         memoryCall[t] = Memory!Idle, ~Owned(h), \A u \in Caller : ~On(u, h),
         memoryCall' = [memoryCall EXCEPT ![t] = [op |-> "destroy", on |-> h, refs |-> 0]],
         slot' = slot, span' = span, native' = native, block' = block
  PROVE  /\ memoryCall' \in [Caller -> Call \cup {Memory!Idle}]
         /\ \A u \in Caller : u # t => memoryCall'[u] = memoryCall[u]
         /\ \A u \in Caller : u # t => \A x : On(u, x)' <=> On(u, x)
         /\ \A x : On(t, x)' <=> x = h
         /\ \A x : ~On(t, x)
         /\ \A x : Owned(x)' <=> Owned(x)
         /\ SlotForm' /\ CallForm' /\ Natives' /\ Rooms'
<1> USE DEF MemoryInv
<1>1. PICK c \in Call : c = [op |-> "destroy", on |-> h, refs |-> 0]
  <2>1. "destroy" \in Making \cup Unmaking /\ 0 \in 0 .. LastCount
    BY DEF Unmaking, Kinds
  <2> QED
    BY <2>1 DEF Call
<1>2. /\ memoryCall' \in [Caller -> Call \cup {Memory!Idle}] /\ memoryCall'[t] = c
      /\ \A u \in Caller : u # t => memoryCall'[u] = memoryCall[u]
      /\ \A u \in Caller : u # t => \A x : On(u, x)' <=> On(u, x)
      /\ \A x : On(t, x)' <=> x = h
  <2>1. memoryCall' = [memoryCall EXCEPT ![t] = c] /\ c \in Call \cup {Memory!Idle} /\ c # Memory!Idle /\ c.on = h
    BY <1>1, NothingThere
  <2> QED
    BY <2>1, CallChanges
<1>3. c.op = "destroy" /\ c.on = h
  BY <1>1
<1>4. \A x : (Owned(x)' <=> Owned(x)) /\ ~On(t, x)
  BY DEF Owned, On
<1>5. SlotForm' /\ Rooms'
  BY <1>4 DEF SlotForm, Rooms
<1>6. CallForm'
  BY <1>2, <1>3 DEF CallForm
<1>7. Natives'
  <2>1. ~(memoryCall'[t].op = "create") /\ \A x : ~On(t, x)
    BY <1>2, <1>3, <1>4
  <2>2. \A q \in Place : (\E u \in Caller : On(u, q)' /\ memoryCall'[u].op = "create") <=> (\E u \in Caller : On(u, q) /\ memoryCall[u].op = "create")
    BY <1>2, <2>1
  <2> QED
    BY <2>2 DEF Natives
<1> QED
  BY <1>2, <1>4, <1>5, <1>6, <1>7

(* A destruction at once keeps MemoryInv.                                  *)
LEMMA MemoryDestroyAtOnceStep ==
  ASSUME Kinds, MemoryInv, NEW t \in Caller, NEW h \in Memory!Handle, Memory!DestroyAtOnce(t, h)
  PROVE  MemoryInv'
<1> USE DEF MemoryInv
<1>1. /\ memoryCall[t] = Memory!Idle /\ h \in memoryLive /\ memoryLive' = memoryLive \ {h}
      /\ memoryCall' = [memoryCall EXCEPT ![t] = [op |-> "destroy", on |-> h, refs |-> 0]]
      /\ slot' = slot /\ block' = block /\ span' = span /\ native' = native /\ memoryCondemned' = memoryCondemned
  BY DEF Memory!DestroyAtOnce, Memory!MayGiveUp, Memory!Begin
<1>2. ~Waiting(h) /\ ~Owned(h) /\ \A u \in Caller : ~On(u, h)
  BY <1>1 DEF InOneHand
<1>3. /\ memoryCall' \in [Caller -> Call \cup {Memory!Idle}]
      /\ \A u \in Caller : u # t => \A x : On(u, x)' <=> On(u, x)
      /\ \A x : On(t, x)' <=> x = h
      /\ \A x : ~On(t, x)
      /\ \A x : Owned(x)' <=> Owned(x)
      /\ SlotForm' /\ CallForm' /\ Natives' /\ Rooms'
  BY <1>1, <1>2, DestroyBegins
<1>4. \A x : Waiting(x)' <=> Waiting(x)
  BY <1>1 DEF Waiting
<1>5. MemoryTypes'
  BY <1>1, <1>3, MemoryFacts DEF MemoryTypes, Memory!TypeOK, Memory!Handle, Call
<1>6. InOneHand'
  <2>1. \A i, j \in 1 .. Len(memoryCondemned) : memoryCondemned'[i] = memoryCondemned'[j] => i = j
    BY <1>1 DEF InOneHand
  <2> QED
    BY <1>1, <1>2, <1>3, <1>4, <2>1 DEF InOneHand
<1>7. HeldSlots' /\ HeldBlocks'
  <2>1. \A x : (\E u \in Caller : On(u, x)') <=> (\E u \in Caller : On(u, x)) \/ x = h
    BY <1>3
  <2> QED
    BY <1>1, <1>3, <1>4, <2>1 DEF HeldSlots, HeldBlocks
<1> QED
  BY <1>3, <1>5, <1>6, <1>7

(* That the collector takes the next condemned handle keeps MemoryInv.     *)
LEMMA MemoryCollectStep ==
  ASSUME Kinds, MemoryInv, NEW t \in Caller, Memory!Collect(t)
  PROVE  MemoryInv'
<1> USE DEF MemoryInv
<1>1. PICK h : h = Head(memoryCondemned)
  OBVIOUS
<1>2. /\ memoryCall[t] = Memory!Idle /\ memoryCondemned # <<>> /\ memoryCondemned' = Tail(memoryCondemned)
      /\ memoryCall' = [memoryCall EXCEPT ![t] = [op |-> "destroy", on |-> h, refs |-> 0]]
      /\ slot' = slot /\ block' = block /\ span' = span /\ native' = native /\ memoryLive' = memoryLive
  BY <1>1 DEF Memory!Collect, Memory!Begin
<1>3. /\ memoryCondemned' \in Seq(Memory!Handle) /\ h = memoryCondemned[1] /\ 1 \in 1 .. Len(memoryCondemned)
      /\ \A i \in 1 .. Len(memoryCondemned') : i + 1 \in 1 .. Len(memoryCondemned) /\ memoryCondemned'[i] = memoryCondemned[i + 1]
      /\ \A i \in 1 .. Len(memoryCondemned) : i # 1 => i - 1 \in 1 .. Len(memoryCondemned') /\ memoryCondemned'[i - 1] = memoryCondemned[i]
  <2>1. memoryCondemned \in Seq(Memory!Handle)
    BY MemoryFacts
  <2> QED
    BY <1>1, <1>2, <2>1, TailElements
<1>4. h \in Memory!Handle /\ Waiting(h)
  BY <1>3, MemoryFacts DEF Waiting
<1>5. \A x : Waiting(x)' <=> Waiting(x) /\ x # h
  <2>1. \A i, j \in 1 .. Len(memoryCondemned) : memoryCondemned[i] = memoryCondemned[j] => i = j
    BY DEF InOneHand
  <2>2. \A i \in 1 .. Len(memoryCondemned') : memoryCondemned'[i] # h
    <3> SUFFICES ASSUME NEW i \in 1 .. Len(memoryCondemned'), memoryCondemned'[i] = h
                 PROVE  FALSE
      OBVIOUS
    <3>1. i + 1 \in 1 .. Len(memoryCondemned) /\ memoryCondemned[i + 1] = memoryCondemned[1] /\ i + 1 # 1
      BY <1>3
    <3> QED
      BY <1>3, <2>1, <3>1
  <2>3. \A i \in 1 .. Len(memoryCondemned') : \E j \in 1 .. Len(memoryCondemned) : memoryCondemned'[i] = memoryCondemned[j]
    BY <1>3
  <2>4. \A i \in 1 .. Len(memoryCondemned) : memoryCondemned[i] # h =>
          \E j \in 1 .. Len(memoryCondemned') : memoryCondemned'[j] = memoryCondemned[i]
    BY <1>3
  <2> QED
    BY <2>2, <2>3, <2>4 DEF Waiting
<1>6. h \notin memoryLive /\ ~Owned(h) /\ \A u \in Caller : ~On(u, h)
  BY <1>4 DEF InOneHand
<1>7. /\ memoryCall' \in [Caller -> Call \cup {Memory!Idle}]
      /\ \A u \in Caller : u # t => \A x : On(u, x)' <=> On(u, x)
      /\ \A x : On(t, x)' <=> x = h
      /\ \A x : ~On(t, x)
      /\ \A x : Owned(x)' <=> Owned(x)
      /\ SlotForm' /\ CallForm' /\ Natives' /\ Rooms'
  BY <1>2, <1>4, <1>6, DestroyBegins
<1>8. MemoryTypes'
  BY <1>2, <1>3, <1>7, MemoryFacts DEF MemoryTypes, Memory!TypeOK, Memory!Handle, Call
<1>9. InOneHand'
  <2>1. \A i, j \in 1 .. Len(memoryCondemned') : memoryCondemned'[i] = memoryCondemned'[j] => i = j
    <3> SUFFICES ASSUME NEW i \in 1 .. Len(memoryCondemned'), NEW j \in 1 .. Len(memoryCondemned'),
                        memoryCondemned'[i] = memoryCondemned'[j]
                 PROVE  i = j
      OBVIOUS
    <3>1. i + 1 \in 1 .. Len(memoryCondemned) /\ j + 1 \in 1 .. Len(memoryCondemned) /\ memoryCondemned[i + 1] = memoryCondemned[j + 1]
      BY <1>3
    <3>2. i + 1 = j + 1
      BY <3>1 DEF InOneHand
    <3> QED
      BY <3>2
  <2> QED
    BY <1>2, <1>5, <1>6, <1>7, <2>1 DEF InOneHand
<1>10. HeldSlots' /\ HeldBlocks'
  <2>1. \A x : (\E u \in Caller : On(u, x)') <=> (\E u \in Caller : On(u, x)) \/ x = h
    BY <1>7
  <2> QED
    BY <1>2, <1>4, <1>5, <1>7, <2>1 DEF HeldSlots, HeldBlocks
<1> QED
  BY <1>7, <1>8, <1>9, <1>10

(* The second half of the decrement keeps MemoryInv.                       *)
LEMMA UncountResidentStep ==
  ASSUME Kinds, MemoryInv, NEW t \in Caller, Memory!UncountResident(t)
  PROVE  MemoryInv'
<1> USE DEF MemoryInv
<1>1. PICK p, m, n : /\ p = memoryCall[t].on /\ m = slot[p].in
                     /\ n = IF memoryCall[t].refs = 0 THEN LastCount ELSE memoryCall[t].refs - 1
  OBVIOUS
<1>2. /\ memoryCall[t].op = "uncounting"
      /\ block' = [block EXCEPT ![m].refs = n]
      /\ memoryCall' = [memoryCall EXCEPT ![t].op = "uncounted"]
      /\ slot' = slot /\ native' = native /\ memoryLive' = memoryLive /\ span' = span /\ memoryCondemned' = memoryCondemned
  BY <1>1 DEF Memory!UncountResident, Memory!Goes
<1>3. memoryCall[t] # Memory!Idle /\ p \in Place /\ On(t, p) /\ m \in Block /\ n \in 0 .. LastCount
  <2>1. memoryCall[t] # Memory!Idle
    BY <1>2, MemoryFacts
  <2>2. p \in Place /\ On(t, p) /\ m # Memory!Own
    BY <1>1, <1>2, <2>1 DEF CallForm, On
  <2>3. slot[p] # Memory!Free
    BY <2>2 DEF HeldSlots
  <2>4. memoryCall[t].refs \in 0 .. LastCount
    BY <2>1, MemoryFacts
  <2>5. n \in 0 .. LastCount
    BY <1>1, <2>4 DEF Kinds
  <2> QED
    BY <1>1, <2>1, <2>2, <2>3, <2>5, MemoryFacts
<1>4. /\ block' \in [Block -> [state : {"free", "filled"}, refs : 0 .. LastCount]]
      /\ \A b \in Block : block'[b].state = block[b].state
  BY <1>2, <1>3, MemoryFacts
<1>5. PICK c \in Call : c = [memoryCall[t] EXCEPT !.op = "uncounted"]
  <2>1. memoryCall[t] \in Call /\ "uncounted" \in Making \cup Unmaking
    BY <1>3, MemoryFacts DEF Unmaking
  <2> QED
    BY <2>1 DEF Call
<1>6. c.op = "uncounted" /\ c.on = p
  BY <1>1, <1>3, <1>5, MemoryFacts DEF Call
<1>7. /\ memoryCall' \in [Caller -> Call \cup {Memory!Idle}] /\ memoryCall'[t] = c /\ c # Memory!Idle
      /\ \A u \in Caller : u # t => memoryCall'[u] = memoryCall[u]
      /\ \A u \in Caller : \A h : On(u, h)' <=> On(u, h)
  <2>1. memoryCall' = [memoryCall EXCEPT ![t] = c] /\ c.on = memoryCall[t].on
    BY <1>1, <1>2, <1>5, <1>6
  <2> QED
    BY <1>3, <2>1, CallGoesOn
<1>8. MemoryTypes'
  <2>1. \A u \in Caller : memoryCall'[u] = Memory!Idle \/ memoryCall'[u].on \in Memory!Handle
    BY <1>7 DEF Call
  <2> QED
    BY <1>2, <1>4, <1>7, <2>1, MemoryFacts DEF MemoryTypes, Memory!TypeOK, Memory!Handle
<1>9. InOneHand' /\ HeldSlots' /\ HeldBlocks'
  BY <1>2, <1>4, <1>7, HandsAsBefore
<1>10. SlotForm' /\ Rooms'
  BY <1>2 DEF SlotForm, Owned, Rooms
<1>11. CallForm'
  <2>1. \A u \in Caller : u # t /\ memoryCall'[u] # Memory!Idle /\ memoryCall'[u].op # "destroy" =>
          /\ memoryCall'[u].on \in Place
          /\ memoryCall'[u].op # "create" => slot'[memoryCall'[u].on].in # Memory!Own
    BY <1>2, <1>7 DEF CallForm
  <2>2. slot[p].in # Memory!Own
    BY <1>1, <1>2, <1>3 DEF CallForm
  <2>3. memoryCall'[t].on \in Place /\ slot'[memoryCall'[t].on].in # Memory!Own
    BY <1>2, <1>3, <1>6, <1>7, <2>2
  <2> QED
    BY <2>1, <2>3 DEF CallForm
<1>12. Natives'
  BY <1>2, <1>6, <1>7 DEF Natives
<1> QED
  BY <1>8, <1>9, <1>10, <1>11, <1>12

(* Freeing a resource placed in a block keeps MemoryInv.                   *)
LEMMA FreeResidentStep ==
  ASSUME Kinds, MemoryInv, NEW t \in Caller, Memory!FreeResident(t)
  PROVE  MemoryInv'
<1> USE DEF MemoryInv
<1>1. PICK p, m : p = memoryCall[t].on /\ m = slot[p].in
  OBVIOUS
<1>2. /\ memoryCall[t].op = "uncounted"
      /\ span' = [span EXCEPT ![m][p] = {}]
      /\ slot' = [slot EXCEPT ![p] = Memory!Free] /\ memoryCall' = [memoryCall EXCEPT ![t] = Memory!Idle]
      /\ native' = native \ {p} /\ memoryLive' = memoryLive /\ block' = block /\ memoryCondemned' = memoryCondemned
  <2>1. Memory!None = {}
    BY DEF Memory!None
  <2> QED
    BY <1>1, <2>1 DEF Memory!FreeResident, Memory!End
<1>3. memoryCall[t] # Memory!Idle /\ p \in Place /\ p \in Memory!Handle /\ On(t, p) /\ slot[p] # Memory!Free /\ m \in Block
  <2>1. memoryCall[t] # Memory!Idle
    BY <1>2, MemoryFacts
  <2>2. p \in Place /\ On(t, p) /\ m # Memory!Own
    BY <1>1, <1>2, <2>1 DEF CallForm, On
  <2>3. slot[p] # Memory!Free
    BY <2>2 DEF HeldSlots
  <2> QED
    BY <1>1, <2>1, <2>2, <2>3, MemoryFacts DEF Memory!Handle
<1>4. /\ slot' \in [Place \cup Structure -> Memory!Filled \cup {Memory!Free}] /\ slot'[p] = Memory!Free
      /\ \A r \in Place \cup Structure : r # p => slot'[r] = slot[r]
      /\ \A s \in Structure : slot'[s] = slot[s]
      /\ \A r \in Place \cup Structure : r # p => (Owned(r)' <=> Owned(r))
  <2>1. Memory!Free \in Memory!Filled \cup {Memory!Free}
    OBVIOUS
  <2> QED
    BY <1>2, <1>3, <2>1, SlotChanges
<1>5. /\ memoryCall' \in [Caller -> Call \cup {Memory!Idle}] /\ memoryCall'[t] = Memory!Idle
      /\ \A u \in Caller : u # t => memoryCall'[u] = memoryCall[u]
      /\ \A u \in Caller : u # t => \A h : On(u, h)' <=> On(u, h)
      /\ \A h : ~On(t, h)'
  <2>1. Memory!Idle \in Call \cup {Memory!Idle}
    OBVIOUS
  <2> QED
    BY <1>2, <2>1, CallChanges
<1>6. /\ ~Owned(p) /\ ~Owned(p)' /\ p \notin memoryLive /\ ~Waiting(p)
      /\ \A u \in Caller : On(u, p) => u = t
      /\ \A h : On(t, h) => h = p
  <2>1. ~Owned(p) /\ p \notin memoryLive /\ ~Waiting(p) /\ \A u \in Caller : On(u, p) => u = t
    BY <1>3 DEF InOneHand
  <2>2. ~Owned(p)'
    BY <1>4 DEF Owned
  <2>3. \A h : On(t, h) => h = p
    BY <1>1 DEF On
  <2> QED
    BY <2>1, <2>2, <2>3
<1>7. /\ span' \in [Block -> [Place -> SUBSET (0 .. BlockSize - 1)]] /\ span'[m][p] = {}
      /\ \A b \in Block : \A q \in Place : b # m \/ q # p => span'[b][q] = span[b][q]
  <2>1. {} \in SUBSET (0 .. BlockSize - 1)
    OBVIOUS
  <2> QED
    BY <1>2, <1>3, <2>1, MemoryFacts
<1>8. MemoryTypes'
  BY <1>2, <1>3, <1>4, <1>5, <1>7, MemoryFacts DEF MemoryTypes, Memory!TypeOK, Memory!Handle, Call
<1>9. \A h : Waiting(h)' <=> Waiting(h)
  BY <1>2 DEF Waiting
<1>10. \A h \in Block : ~Owned(h) /\ ~Owned(h)' /\ p # h
  BY <1>3 DEF Owned, Kinds
<1>11. InOneHand'
  <2>1. \A i, j \in 1 .. Len(memoryCondemned) : memoryCondemned'[i] = memoryCondemned'[j] => i = j
    BY <1>2 DEF InOneHand
  <2> QED
    BY <1>2, <1>3, <1>4, <1>5, <1>6, <1>9, <1>10, <2>1 DEF InOneHand, Memory!Handle
<1>12. HeldSlots' /\ HeldBlocks'
  BY <1>2, <1>3, <1>4, <1>5, <1>6, <1>9, <1>10 DEF HeldSlots, HeldBlocks
<1>13. SlotForm' /\ CallForm'
  BY <1>2, <1>3, <1>4, <1>5, <1>6, MemoryFacts DEF SlotForm, CallForm, Owned, On
<1>14. Natives'
  <2>1. \A q \in Place : q # p => ((\E u \in Caller : On(u, q)' /\ memoryCall'[u].op = "create") <=> (\E u \in Caller : On(u, q) /\ memoryCall[u].op = "create"))
    BY <1>5, <1>6
  <2> QED
    BY <1>2, <1>3, <1>4, <2>1 DEF Natives
<1>15. Rooms'
  <2>1. \A b \in Block : b # m => span[b][p] = {}
    BY <1>1, <1>3 DEF Rooms
  <2>2. \A b \in Block : span'[b][p] = {}
    BY <1>3, <1>7, <2>1
  <2>3. \A b \in Block : \A q, r \in Place : q # r => span'[b][q] \cap span'[b][r] = {}
    BY <1>7, <2>2 DEF Rooms
  <2>4. \A b \in Block : \A q \in Place : q # p => (span'[b][q] # {} <=> slot'[q] # Memory!Free /\ slot'[q].in = b /\ q \in native')
    BY <1>2, <1>4, <1>7 DEF Rooms
  <2> QED
    BY <1>3, <1>4, <2>2, <2>3, <2>4 DEF Rooms
<1> QED
  BY <1>8, <1>11, <1>12, <1>13, <1>14, <1>15

(* Freeing a resource with memory of its own, with a structure's buffer,   *)
(* keeps MemoryInv.                                                        *)
LEMMA FreeItsOwnStep ==
  ASSUME Kinds, MemoryInv, NEW t \in Caller, Memory!FreeItsOwn(t)
  PROVE  MemoryInv'
<1> USE DEF MemoryInv
<1>1. PICK s, gone : s = memoryCall[t].on /\ gone = {s} \cup {p \in Place : slot[p] # Memory!Free /\ slot[p].owner = s}
  OBVIOUS
<1>2. /\ memoryCall[t].op = "destroy" /\ s \in DOMAIN slot /\ slot[s].in = Memory!Own
      /\ slot' = [x \in DOMAIN slot |-> IF x \in gone THEN Memory!Free ELSE slot[x]]
      /\ memoryCall' = [memoryCall EXCEPT ![t] = Memory!Idle]
      /\ native' = native \ gone /\ memoryLive' = memoryLive /\ span' = span /\ block' = block /\ memoryCondemned' = memoryCondemned
  BY <1>1 DEF Memory!FreeItsOwn, Memory!End
<1>3. DOMAIN slot = Place \cup Structure
  BY MemoryFacts
<1>4. /\ memoryCall[t] # Memory!Idle /\ s \in Place \cup Structure /\ s \in Memory!Handle /\ On(t, s)
      /\ slot[s] # Memory!Free /\ s # Memory!Nobody /\ s \notin Block
  <2>1. memoryCall[t] # Memory!Idle
    BY <1>2, MemoryFacts
  <2>2. s \in Place \cup Structure /\ On(t, s)
    BY <1>1, <1>2, <1>3, <2>1 DEF On
  <2>3. slot[s] # Memory!Free
    BY <2>2 DEF HeldSlots
  <2>4. s # Memory!Nobody /\ s \notin Block /\ s \in Memory!Handle
    BY <2>2 DEF Kinds, Memory!Handle
  <2> QED
    BY <2>1, <2>2, <2>3, <2>4
<1>5. /\ s \in gone
      /\ \A g \in gone : g # s => g \in Place /\ Owned(g) /\ slot[g].owner = s
      /\ \A g \in Place : Owned(g) /\ slot[g].owner = s => g \in gone
  <2>1. \A g \in Place : slot[g] # Memory!Free /\ slot[g].owner = s => Owned(g)
    BY <1>4 DEF Owned
  <2> QED
    BY <1>1, <2>1 DEF Owned
<1>6. \A g \in gone : g \in Place \cup Structure /\ slot[g].in = Memory!Own /\ slot[g] # Memory!Free
  BY <1>2, <1>4, <1>5 DEF SlotForm, Owned
<1>7. /\ slot' \in [Place \cup Structure -> Memory!Filled \cup {Memory!Free}]
      /\ \A g \in gone : slot'[g] = Memory!Free
      /\ \A r \in Place \cup Structure : r \notin gone => slot'[r] = slot[r]
  <2>1. slot' = [x \in Place \cup Structure |-> IF x \in gone THEN Memory!Free ELSE slot[x]]
    BY <1>2, <1>3
  <2> QED
    BY <1>6, <2>1, MemoryFacts
<1>8. /\ \A g \in gone : ~Owned(g)'
      /\ \A r : r \notin gone => (Owned(r)' <=> Owned(r))
  BY <1>7 DEF Owned
<1>9. /\ memoryCall' \in [Caller -> Call \cup {Memory!Idle}] /\ memoryCall'[t] = Memory!Idle
      /\ \A u \in Caller : u # t => memoryCall'[u] = memoryCall[u]
      /\ \A u \in Caller : u # t => \A h : On(u, h)' <=> On(u, h)
      /\ \A h : ~On(t, h)'
  <2>1. Memory!Idle \in Call \cup {Memory!Idle}
    OBVIOUS
  <2> QED
    BY <1>2, <2>1, CallChanges
<1>10. /\ \A g \in gone : g \notin memoryLive /\ ~Waiting(g)
       /\ \A g \in gone : \A u \in Caller : ~On(u, g)'
       /\ \A h : On(t, h) <=> h = s
  <2>1. \A g \in gone : g \in Memory!Handle
    BY <1>4, <1>5 DEF Memory!Handle
  <2>2. \A h : On(t, h) <=> h = s
    BY <1>1, <1>4 DEF On
  <2>3. s \notin memoryLive /\ ~Waiting(s) /\ \A u \in Caller : u # t => ~On(u, s)
    BY <1>4 DEF InOneHand
  <2>4. \A g \in gone : g # s => g \notin memoryLive /\ ~Waiting(g) /\ \A u \in Caller : ~On(u, g)
    BY <1>5, <2>1 DEF InOneHand
  <2>5. \A g \in gone : \A u \in Caller : u # t => ~On(u, g)
    BY <2>3, <2>4
  <2>6. \A g \in gone : \A u \in Caller : ~On(u, g)'
    BY <1>9, <2>5
  <2> QED
    BY <2>2, <2>3, <2>4, <2>6
<1>11. MemoryTypes'
  BY <1>2, <1>7, <1>9, MemoryFacts DEF MemoryTypes, Memory!TypeOK, Memory!Handle, Call
<1>12. \A h : Waiting(h)' <=> Waiting(h)
  BY <1>2 DEF Waiting
<1>13. InOneHand'
  <2>1. \A i, j \in 1 .. Len(memoryCondemned) : memoryCondemned'[i] = memoryCondemned'[j] => i = j
    BY <1>2 DEF InOneHand
  <2>2. \A u \in Caller : \A h : On(u, h)' => On(u, h)
    BY <1>9
  <2>3. \A h : Owned(h)' => Owned(h)
    BY <1>8
  <2> QED
    BY <1>2, <1>12, <2>1, <2>2, <2>3 DEF InOneHand
<1>14. HeldSlots'
  <2>1. \A r \in Place \cup Structure : r \notin gone => ((\E u \in Caller : On(u, r)') <=> (\E u \in Caller : On(u, r)))
    BY <1>5, <1>9, <1>10
  <2>2. \A r \in Place \cup Structure : r \notin gone =>
          (slot'[r] # Memory!Free <=> r \in memoryLive' \/ Waiting(r)' \/ (\E u \in Caller : On(u, r)') \/ Owned(r)')
    BY <1>2, <1>7, <1>8, <1>12, <2>1 DEF HeldSlots
  <2>3. \A g \in gone : ~(g \in memoryLive' \/ Waiting(g)' \/ (\E u \in Caller : On(u, g)') \/ Owned(g)')
    BY <1>2, <1>8, <1>10, <1>12
  <2> QED
    BY <1>7, <2>2, <2>3 DEF HeldSlots
<1>15. HeldBlocks'
  BY <1>2, <1>9, <1>12 DEF HeldBlocks
<1>16. SlotForm'
  <2>1. \A r \in Structure : slot'[r] # Memory!Free => slot'[r].in = Memory!Own
    BY <1>7 DEF SlotForm
  <2>2. \A q \in Place : Owned(q)' => slot'[q].in = Memory!Own /\ slot'[slot'[q].owner] # Memory!Free
    <3> SUFFICES ASSUME NEW q \in Place, Owned(q)'
                 PROVE  slot'[q].in = Memory!Own /\ slot'[slot'[q].owner] # Memory!Free
      OBVIOUS
    <3>1. q \notin gone /\ slot'[q] = slot[q] /\ Owned(q)
      BY <1>7, <1>8
    <3>2. slot[q].in = Memory!Own /\ slot[slot[q].owner] # Memory!Free /\ slot[q].owner # s
      BY <1>5, <3>1 DEF SlotForm
    <3>3. slot[q].owner \in Structure
      BY <3>1, MemoryFacts DEF Owned
    <3>4. slot[q].owner \notin gone
      BY <1>5, <3>2, <3>3 DEF Kinds
    <3> QED
      BY <1>7, <3>1, <3>2, <3>3, <3>4
  <2> QED
    BY <2>1, <2>2 DEF SlotForm
<1>17. CallForm'
  <2> SUFFICES ASSUME NEW u \in Caller, memoryCall'[u] # Memory!Idle, memoryCall'[u].op # "destroy"
               PROVE  /\ memoryCall'[u].on \in Place
                      /\ memoryCall'[u].op # "create" => slot'[memoryCall'[u].on].in # Memory!Own
    BY DEF CallForm
  <2>1. u # t /\ memoryCall'[u] = memoryCall[u] /\ On(u, memoryCall[u].on)'
    BY <1>9 DEF On
  <2>2. memoryCall[u].on \notin gone /\ memoryCall[u].on \in Place
    BY <1>10, <2>1 DEF CallForm
  <2> QED
    BY <1>7, <2>1, <2>2 DEF CallForm
<1>18. Natives'
  <2>1. \A q \in Place : q \notin gone => ((\E u \in Caller : On(u, q)' /\ memoryCall'[u].op = "create") <=> (\E u \in Caller : On(u, q) /\ memoryCall[u].op = "create"))
    BY <1>5, <1>9, <1>10
  <2> QED
    BY <1>2, <1>7, <2>1 DEF Natives
<1>19. Rooms'
  <2>1. \A b \in Block : \A g \in gone : g \in Place => span[b][g] = {}
    BY <1>6 DEF Rooms, Kinds
  <2> QED
    BY <1>2, <1>7, <2>1 DEF Rooms
<1> QED
  BY <1>11, <1>13, <1>14, <1>15, <1>16, <1>17, <1>18, <1>19

(* Freeing a block keeps MemoryInv.                                        *)
LEMMA FreeBlockStep ==
  ASSUME Kinds, MemoryInv, NEW t \in Caller, Memory!FreeBlock(t)
  PROVE  MemoryInv'
<1> USE DEF MemoryInv
<1>1. PICK m : m = memoryCall[t].on
  OBVIOUS
<1>2. /\ memoryCall[t].op = "destroy" /\ m \in Block
      /\ block' = [block EXCEPT ![m] = Memory!NoBlock]
      /\ memoryCall' = [memoryCall EXCEPT ![t] = Memory!Idle]
      /\ native' = native \ {m} /\ slot' = slot /\ span' = span /\ memoryLive' = memoryLive
      /\ memoryCondemned' = memoryCondemned
  BY <1>1 DEF Memory!FreeBlock, Memory!End
<1>3. m \notin Place \cup Structure /\ m \in Memory!Handle
  BY <1>2 DEF Kinds, Memory!Handle
<1>4. memoryCall[t] # Memory!Idle /\ On(t, m)
  <2>1. memoryCall[t] # Memory!Idle
    BY <1>2, MemoryFacts
  <2> QED
    BY <1>1, <2>1 DEF On
<1>5. m \notin memoryLive /\ ~Waiting(m) /\ (\A u \in Caller : u # t => ~On(u, m)) /\ \A h : On(t, h) => h = m
  <2>1. m \notin memoryLive /\ ~Waiting(m) /\ \A u \in Caller : u # t => ~On(u, m)
    BY <1>3, <1>4 DEF InOneHand
  <2> QED
    BY <1>1, <2>1 DEF On
<1>6. /\ block' \in [Block -> [state : {"free", "filled"}, refs : 0 .. LastCount]]
      /\ \A b \in Block : b # m => block'[b] = block[b]
  <2>1. Memory!NoBlock \in [state : {"free", "filled"}, refs : 0 .. LastCount]
    BY DEF Memory!NoBlock, Kinds
  <2> QED
    BY <1>2, <2>1, MemoryFacts
<1>7. /\ memoryCall' \in [Caller -> Call \cup {Memory!Idle}] /\ memoryCall'[t] = Memory!Idle
      /\ \A u \in Caller : u # t => memoryCall'[u] = memoryCall[u]
      /\ \A u \in Caller : u # t => \A h : On(u, h)' <=> On(u, h)
      /\ \A h : ~On(t, h)'
  <2>1. Memory!Idle \in Call \cup {Memory!Idle}
    OBVIOUS
  <2> QED
    BY <1>2, <2>1, CallChanges
<1>8. MemoryTypes'
  BY <1>2, <1>6, <1>7, MemoryFacts DEF MemoryTypes, Memory!TypeOK, Memory!Handle, Call
<1>9. \A h : (Waiting(h)' <=> Waiting(h)) /\ (Owned(h)' <=> Owned(h))
  BY <1>2 DEF Waiting, Owned
<1>10. InOneHand'
  <2>1. \A i, j \in 1 .. Len(memoryCondemned) : memoryCondemned'[i] = memoryCondemned'[j] => i = j
    BY <1>2 DEF InOneHand
  <2>2. \A u \in Caller : \A h : On(u, h)' => On(u, h)
    BY <1>7
  <2> QED
    BY <1>2, <1>9, <2>1, <2>2 DEF InOneHand
<1>11. HeldSlots' /\ HeldBlocks'
  <2>1. \A h : h # m => ((\E u \in Caller : On(u, h)') <=> (\E u \in Caller : On(u, h)))
    BY <1>5, <1>7
  <2>2. \A u \in Caller : ~On(u, m)'
    BY <1>5, <1>7
  <2> QED
    BY <1>2, <1>3, <1>5, <1>6, <1>9, <2>1, <2>2 DEF HeldSlots, HeldBlocks
<1>12. SlotForm' /\ CallForm'
  BY <1>2, <1>7, <1>9 DEF SlotForm, CallForm
<1>13. Natives'
  <2>1. \A q \in Place : (q \in native' <=> q \in native) /\ ~On(t, q)
    BY <1>2, <1>3, <1>5
  <2> QED
    BY <1>2, <1>7, <2>1 DEF Natives
<1>14. Rooms'
  BY <1>2, <1>3 DEF Rooms
<1> QED
  BY <1>8, <1>10, <1>11, <1>12, <1>13, <1>14

(* MemoryInv holds at the start.                                           *)
LEMMA MemoryBegins ==
  ASSUME Kinds, Memory!Init PROVE MemoryInv
<1>1. /\ slot = [s \in Place \cup Structure |-> Memory!Free]
      /\ block = [m \in Block |-> Memory!NoBlock]
      /\ span = [m \in Block |-> [p \in Place |-> {}]]
      /\ native = {} /\ memoryLive = {} /\ memoryCondemned = <<>>
      /\ memoryCall = [t \in Caller |-> Memory!Idle]
  <2>1. Memory!None = {}
    BY DEF Memory!None
  <2> QED
    BY <2>1 DEF Memory!Init
<1>2. Memory!NoBlock \in [state : {"free", "filled"}, refs : 0 .. LastCount]
  BY DEF Memory!NoBlock, Kinds
<1>3. /\ \A h : ~Waiting(h)
      /\ \A t \in Caller : \A h : ~On(t, h)
      /\ \A h : ~Owned(h)
  BY <1>1 DEF Waiting, On, Owned
<1>4. MemoryTypes
  <2>1. memoryCondemned \in Seq(Memory!Handle)
    BY <1>1
  <2>2. span \in [Block -> [Place -> SUBSET (0 .. BlockSize - 1)]]
    BY <1>1
  <2> QED
    BY <1>1, <1>2, <2>1, <2>2 DEF MemoryTypes, Memory!TypeOK
<1>5. InOneHand
  BY <1>1, <1>3 DEF InOneHand
<1>6. HeldSlots /\ HeldBlocks
  BY <1>1, <1>3 DEF HeldSlots, HeldBlocks
<1>7. SlotForm /\ CallForm /\ Natives /\ Rooms
  BY <1>1, <1>3 DEF SlotForm, CallForm, Natives, Rooms
<1> QED
  BY <1>4, <1>5, <1>6, <1>7 DEF MemoryInv

(* MemoryInv holds as long as nothing changes.                             *)
LEMMA MemoryStays ==
  ASSUME MemoryInv, UNCHANGED Memory!vars PROVE MemoryInv'
<1>1. /\ slot' = slot /\ block' = block /\ span' = span /\ native' = native
      /\ memoryLive' = memoryLive /\ memoryCondemned' = memoryCondemned /\ memoryCall' = memoryCall
  BY DEF Memory!vars
<1>2. MemoryTypes'
  BY <1>1 DEF MemoryInv, MemoryTypes, Memory!TypeOK, Memory!Filled, Memory!Handle, Call
<1>3. InOneHand' /\ HeldSlots' /\ HeldBlocks'
  BY <1>1 DEF MemoryInv, InOneHand, HeldSlots, HeldBlocks, On, Waiting, Owned
<1>4. SlotForm' /\ CallForm' /\ Natives' /\ Rooms'
  BY <1>1 DEF MemoryInv, SlotForm, CallForm, Natives, Rooms, On, Owned
<1> QED
  BY <1>2, <1>3, <1>4 DEF MemoryInv

(* Every step keeps MemoryInv.                                             *)
LEMMA MemoryStep ==
  ASSUME Kinds, MemoryInv, Memory!Next PROVE MemoryInv'
<1>1. PICK t \in Caller :
        \/ \E m \in Block : Memory!CreateMemoryBlock(t, m)
        \/ \E p \in Place, m \in Block \cup {Memory!Own} : Memory!NewResource(t, p, m)
        \/ Memory!AllocateItsOwn(t) \/ Memory!PlaceInBlock(t) \/ Memory!OutOfRoom(t)
        \/ memoryCall[t] # Memory!Idle /\ memoryCall[t].on \in Place /\ Memory!ReadReferences(t)
        \/ Memory!CountResident(t)
        \/ \E s \in Structure, p \in Place : Memory!CreateStructure(t, s, p)
        \/ \E h \in Memory!Handle : Memory!DestroyDeferred(t, h) \/ Memory!DestroyAtOnce(t, h)
        \/ Memory!Collect(t)
        \/ Memory!UncountResident(t) \/ Memory!FreeResident(t) \/ Memory!FreeItsOwn(t) \/ Memory!FreeBlock(t)
  BY DEF Memory!Next
<1>2. CASE \E m \in Block : Memory!CreateMemoryBlock(t, m)
  BY <1>2, CreateMemoryBlockStep
<1>3. CASE \E p \in Place, m \in Block \cup {Memory!Own} : Memory!NewResource(t, p, m)
  BY <1>3, NewResourceStep
<1>4. CASE Memory!AllocateItsOwn(t) \/ Memory!PlaceInBlock(t) \/ Memory!OutOfRoom(t)
  BY <1>4, AllocateItsOwnStep, PlaceInBlockStep, OutOfRoomStep
<1>5. CASE memoryCall[t] # Memory!Idle /\ memoryCall[t].on \in Place /\ Memory!ReadReferences(t)
  BY <1>5, ReadReferencesStep
<1>6. CASE Memory!CountResident(t)
  BY <1>6, CountResidentStep
<1>7. CASE \E s \in Structure, p \in Place : Memory!CreateStructure(t, s, p)
  BY <1>7, CreateStructureStep
<1>8. CASE \E h \in Memory!Handle : Memory!DestroyDeferred(t, h) \/ Memory!DestroyAtOnce(t, h)
  BY <1>8, MemoryDestroyDeferredStep, MemoryDestroyAtOnceStep
<1>9. CASE Memory!Collect(t)
  BY <1>9, MemoryCollectStep
<1>10. CASE Memory!UncountResident(t) \/ Memory!FreeResident(t)
  BY <1>10, UncountResidentStep, FreeResidentStep
<1>11. CASE Memory!FreeItsOwn(t) \/ Memory!FreeBlock(t)
  BY <1>11, FreeItsOwnStep, FreeBlockStep
<1> QED
  BY <1>1, <1>2, <1>3, <1>4, <1>5, <1>6, <1>7, <1>8, <1>9, <1>10, <1>11

(* What MemoryInv says of slots and room.                                  *)
LEMMA HandsAndRooms ==
  ASSUME Kinds, MemoryInv PROVE Memory!SlotsAreHeld /\ Memory!RoomIsItsOwn
<1>1. Memory!SlotsAreHeld
  <2> SUFFICES ASSUME NEW s \in Place \cup Structure
               PROVE  slot[s] # Memory!Free <=>
                        \/ s \in memoryLive
                        \/ \E i \in DOMAIN memoryCondemned : memoryCondemned[i] = s
                        \/ Memory!Creating(s) \/ Memory!Destroying(s)
                        \/ s \in Place /\ slot[s] # Memory!Free /\ slot[s].owner \in Structure /\ slot[slot[s].owner] # Memory!Free
    BY DEF Memory!SlotsAreHeld
  <2>1. slot[s] # Memory!Free <=> s \in memoryLive \/ Waiting(s) \/ (\E t \in Caller : On(t, s)) \/ Owned(s)
    BY DEF MemoryInv, HeldSlots
  <2>2. (\E t \in Caller : On(t, s)) <=> Memory!Creating(s) \/ Memory!Destroying(s)
    <3>1. \A t \in Caller : memoryCall[t] # Memory!Idle =>
            \/ memoryCall[t].op \in {"create", "placed", "counting"}
            \/ memoryCall[t].op \in {"destroy", "uncounting", "uncounted"}
      BY MemoryFacts DEF MemoryInv, Making, Unmaking
    <3> QED
      BY <3>1 DEF On, Memory!Creating, Memory!Destroying
  <2>3. DOMAIN memoryCondemned = 1 .. Len(memoryCondemned)
    BY MemoryFacts, LenProperties DEF MemoryInv
  <2>4. Owned(s) <=> s \in Place /\ slot[s] # Memory!Free /\ slot[s].owner \in Structure /\ slot[slot[s].owner] # Memory!Free
    <3>1. Owned(s) => slot[slot[s].owner] # Memory!Free
      BY DEF MemoryInv, SlotForm, Owned
    <3>2. slot[s] # Memory!Free => slot[s].owner \in Structure \cup {Memory!Nobody}
      BY MemoryFacts DEF MemoryInv
    <3> QED
      BY <3>1, <3>2 DEF Owned, Kinds
  <2> QED
    BY <2>1, <2>2, <2>3, <2>4 DEF Waiting
<1>2. Memory!RoomIsItsOwn
  <2>1. Memory!None = {}
    BY DEF Memory!None
  <2> QED
    BY <2>1 DEF MemoryInv, Rooms, Memory!RoomIsItsOwn, Memory!Resident
<1> QED
  BY <1>1, <1>2

(* However many threads create and destroy, and whatever finds no room: a  *)
(* slot of the Vulkan backend is given out just while somebody has it in   *)
(* hand, and room of a block is one resident's at a time, as long as its   *)
(* Vulkan object exists.                                                   *)
THEOREM HandsAndRoomsAgree ==
  ASSUME Kinds PROVE Memory!Spec => [](Memory!SlotsAreHeld /\ Memory!RoomIsItsOwn)
<1>1. Memory!Init => MemoryInv
  BY MemoryBegins
<1>2. MemoryInv /\ [Memory!Next]_(Memory!vars) => MemoryInv'
  BY MemoryStep, MemoryStays
<1>3. MemoryInv => Memory!SlotsAreHeld /\ Memory!RoomIsItsOwn
  BY HandsAndRooms
<1> QED
  BY <1>1, <1>2, <1>3, PTL DEF Memory!Spec

-----------------------------------------------------------------------------
(* One thread: the plain counter of a block.                               *)

Alone ==
  /\ \A s, t \in Caller : s = t
  /\ IsFiniteSet(Place) /\ Cardinality(Place) <= LastCount

(* The residents debugReferences stands for.                               *)
Counted(m) ==
  {p \in Place : /\ slot[p] # Memory!Free /\ slot[p].in = m
                 /\ \A t \in Caller : On(t, p) => memoryCall[t].op \notin Making \cup {"uncounted"}}
RefsCount == \A m \in Block : block[m].refs = Cardinality(Counted(m))
RefsFollow ==
  \A t \in Caller : memoryCall[t] # Memory!Idle /\ memoryCall[t].op \in {"counting", "uncounting"} =>
    memoryCall[t].refs = block[slot[memoryCall[t].on].in].refs

(* A block waits for what is in it.                                        *)
BlocksGoLast ==
  \A m \in Block : \A p \in Place : slot[p] # Memory!Free /\ slot[p].in = m =>
    \/ m \in memoryLive
    \/ \E i \in 1 .. Len(memoryCondemned) :
         /\ memoryCondemned[i] = m
         /\ \/ \E j \in 1 .. Len(memoryCondemned) : j < i /\ memoryCondemned[j] = p
            \/ \E t \in Caller : On(t, p) /\ memoryCall[t].op \in Unmaking

Account == RefsCount /\ RefsFollow /\ BlocksGoLast

(* The count of a block is right as long as neither it nor what it counts  *)
(* changes.                                                                *)
LEMMA CountsKept ==
  ASSUME RefsCount, \A m \in Block : block'[m].refs = block[m].refs,
         \A m \in Block : \A p \in Place : p \in Counted(m)' <=> p \in Counted(m)
  PROVE  RefsCount'
<1>1. \A m \in Block : Counted(m)' = Counted(m)
  BY DEF Counted
<1> QED
  BY <1>1 DEF RefsCount

(* Nothing is left in a block that is being destroyed.                     *)
LEMMA NothingLeft ==
  ASSUME MemoryInv, BlocksGoLast, NEW m \in Block, m \notin memoryLive, ~Waiting(m)
  PROVE  /\ \A p \in Place : slot[p] = Memory!Free \/ slot[p].in # m
         /\ Counted(m) = {} /\ (RefsCount => block[m].refs = 0)
<1>1. \A p \in Place : slot[p] = Memory!Free \/ slot[p].in # m
  BY DEF BlocksGoLast, Waiting
<1>2. Counted(m) = {}
  BY <1>1 DEF Counted
<1> QED
  BY <1>1, <1>2, FS_EmptySet DEF RefsCount

(* CreateMemoryBlock keeps Account.                                        *)
LEMMA CreateMemoryBlockCounts ==
  ASSUME Kinds, MemoryInv, Alone, Account, NEW t \in Caller, NEW m \in Block, Memory!CreateMemoryBlock(t, m)
  PROVE  Account'
<1> USE DEF Account
<1>1. /\ memoryCall[t] = Memory!Idle /\ block[m].state = "free" /\ memoryLive' = memoryLive \cup {m}
      /\ block' = [block EXCEPT ![m] = [state |-> "filled", refs |-> 0]]
      /\ slot' = slot /\ memoryCondemned' = memoryCondemned /\ memoryCall' = memoryCall
  BY DEF Memory!CreateMemoryBlock
<1>2. m \notin memoryLive /\ ~Waiting(m)
  BY <1>1 DEF MemoryInv, HeldBlocks
<1>3. block[m].refs = 0
  BY <1>2, NothingLeft
<1>4. \A b \in Block : block'[b].refs = block[b].refs
  BY <1>1, <1>3, MemoryFacts DEF MemoryInv
<1>5. RefsCount'
  <2>1. \A b \in Block : \A p \in Place : p \in Counted(b)' <=> p \in Counted(b)
    BY <1>1 DEF Counted, On
  <2> QED
    BY <1>4, <2>1, CountsKept
<1>6. RefsFollow'
  BY <1>1 DEF RefsFollow, Alone
<1>7. BlocksGoLast'
  BY <1>1 DEF BlocksGoLast, On
<1> QED
  BY <1>5, <1>6, <1>7

(* What one step of the only call under way, about a resource, leaves of   *)
(* the accounts.                                                           *)
LEMMA OthersCountAsBefore ==
  ASSUME Kinds, MemoryInv, Alone, NEW t \in Caller, NEW p,
         \A h : On(t, h) => h = p, \A h : On(t, h)' => h = p,
         \A q \in Place : q # p => slot'[q] = slot[q]
  PROVE  \A m \in Block : \A q \in Place : q # p => (q \in Counted(m)' <=> q \in Counted(m))
<1>1. \A u \in Caller : u = t
  BY DEF Alone
<1>2. \A q \in Place : q # p => \A u \in Caller : ~On(u, q) /\ ~On(u, q)'
  BY <1>1
<1> QED
  BY <1>2 DEF Counted

(* CreateBuffer and CreateImage, up to the call of VMA, keep Account.      *)
LEMMA NewResourceCounts ==
  ASSUME Kinds, MemoryInv, Alone, Account, NEW t \in Caller, NEW p \in Place, NEW m \in Block \cup {Memory!Own},
         Memory!NewResource(t, p, m)
  PROVE  Account'
<1> USE DEF Account
<1>1. /\ memoryCall[t] = Memory!Idle /\ slot[p] = Memory!Free /\ (m # Memory!Own => m \in memoryLive)
      /\ slot' = [slot EXCEPT ![p] = [state |-> "taken", in |-> m, owner |-> Memory!Nobody]]
      /\ memoryCall' = [memoryCall EXCEPT ![t] = [op |-> "create", on |-> p, refs |-> 0]]
      /\ block' = block /\ memoryLive' = memoryLive /\ memoryCondemned' = memoryCondemned
  BY DEF Memory!NewResource, Memory!Begin
<1>2. \A u \in Caller : u = t
  BY DEF Alone
<1>3. memoryCall'[t] = [op |-> "create", on |-> p, refs |-> 0]
  BY <1>1, MemoryFacts DEF MemoryInv
<1>4. /\ memoryCall'[t].op = "create" /\ memoryCall'[t].on = p /\ memoryCall'[t] # Memory!Idle
  BY <1>3 DEF Memory!Idle
<1>5. /\ slot'[p].in = m
      /\ \A q \in Place : q # p => slot'[q] = slot[q]
  BY <1>1, MemoryFacts DEF MemoryInv
<1>6. (\A h : ~On(t, h)) /\ (\A h : On(t, h)' <=> h = p)
  BY <1>1, <1>4 DEF On
<1>7. RefsCount'
  <2>1. \A b \in Block : \A q \in Place : q # p => (q \in Counted(b)' <=> q \in Counted(b))
    BY <1>5, <1>6, OthersCountAsBefore
  <2>2. \A b \in Block : p \notin Counted(b)' /\ p \notin Counted(b)
    BY <1>1, <1>4, <1>6 DEF Counted, Making
  <2>3. \A b \in Block : block'[b].refs = block[b].refs
    BY <1>1
  <2> QED
    BY <2>1, <2>2, <2>3, CountsKept
<1>8. RefsFollow'
  BY <1>2, <1>4 DEF RefsFollow
<1>9. BlocksGoLast'
  <2>1. \A q \in Place : q # p => \A u \in Caller : ~On(u, q)
    BY <1>2, <1>6
  <2>2. \A b \in Block : \A q \in Place : q # p /\ slot'[q] # Memory!Free /\ slot'[q].in = b =>
          \/ b \in memoryLive
          \/ \E i \in 1 .. Len(memoryCondemned) : memoryCondemned[i] = b /\ \E j \in 1 .. Len(memoryCondemned) : j < i /\ memoryCondemned[j] = q
    BY <1>5, <2>1 DEF BlocksGoLast
  <2>3. \A b \in Block : slot'[p].in = b => b \in memoryLive
    BY <1>1, <1>5 DEF Kinds
  <2> QED
    BY <1>1, <2>2, <2>3 DEF BlocksGoLast
<1> QED
  BY <1>7, <1>8, <1>9

(* A block still goes last when what a thread works on gets into none.     *)
LEMMA BlocksStillLast ==
  ASSUME Kinds, MemoryInv, Alone, BlocksGoLast, NEW t \in Caller, NEW p,
         \A h : On(t, h) => h = p,
         \A h \in Block : h \in memoryLive => h \in memoryLive',
         memoryCondemned' = memoryCondemned,
         \A q \in Place : q # p => slot'[q] = slot[q],
         p \in Place => \A m \in Block : slot'[p] # Memory!Free /\ slot'[p].in = m =>
           /\ slot[p] # Memory!Free /\ slot[p].in = m
           /\ On(t, p) /\ memoryCall[t].op \in Unmaking => On(t, p)' /\ memoryCall'[t].op \in Unmaking
  PROVE  BlocksGoLast'
<1> SUFFICES ASSUME NEW m \in Block, NEW q \in Place, slot'[q] # Memory!Free, slot'[q].in = m, m \notin memoryLive'
             PROVE  \E i \in 1 .. Len(memoryCondemned) :
                      /\ memoryCondemned[i] = m
                      /\ \/ \E j \in 1 .. Len(memoryCondemned) : j < i /\ memoryCondemned[j] = q
                         \/ \E u \in Caller : On(u, q)' /\ memoryCall'[u].op \in Unmaking
  BY DEF BlocksGoLast
<1>1. slot[q] # Memory!Free /\ slot[q].in = m /\ m \notin memoryLive
  <2>1. CASE q = p
    BY <2>1
  <2>2. CASE q # p
    BY <2>2
  <2> QED
    BY <2>1, <2>2
<1>2. PICK i \in 1 .. Len(memoryCondemned) :
        /\ memoryCondemned[i] = m
        /\ \/ \E j \in 1 .. Len(memoryCondemned) : j < i /\ memoryCondemned[j] = q
           \/ \E u \in Caller : On(u, q) /\ memoryCall[u].op \in Unmaking
  BY <1>1 DEF BlocksGoLast
<1>3. \A u \in Caller : u = t
  BY DEF Alone
<1>4. (\E u \in Caller : On(u, q) /\ memoryCall[u].op \in Unmaking) => (\E u \in Caller : On(u, q)' /\ memoryCall'[u].op \in Unmaking)
  BY <1>3
<1> QED
  BY <1>2, <1>4

(* Memory of its own keeps Account.                                        *)
LEMMA AllocateItsOwnCounts ==
  ASSUME Kinds, MemoryInv, Alone, Account, NEW t \in Caller, Memory!AllocateItsOwn(t)
  PROVE  Account'
<1> USE DEF Account
<1>1. PICK p : p = memoryCall[t].on
  OBVIOUS
<1>2. /\ memoryCall[t].op = "create" /\ slot[p].in = Memory!Own
      /\ slot' = [slot EXCEPT ![p].state = "filled"]
      /\ memoryLive' = memoryLive \cup {p} /\ memoryCall' = [memoryCall EXCEPT ![t] = Memory!Idle]
      /\ block' = block /\ memoryCondemned' = memoryCondemned
  BY <1>1 DEF Memory!AllocateItsOwn, Memory!End
<1>3. memoryCall[t] # Memory!Idle /\ p \in Place /\ slot[p] # Memory!Free
  <2>1. memoryCall[t] # Memory!Idle
    BY <1>2, MemoryFacts DEF MemoryInv
  <2>2. p \in Place /\ On(t, p)
    BY <1>1, <1>2, <2>1 DEF MemoryInv, CallForm, On
  <2> QED
    BY <2>1, <2>2 DEF MemoryInv, HeldSlots
<1>4. /\ slot'[p].in = Memory!Own /\ memoryCall'[t] = Memory!Idle
      /\ \A q \in Place : q # p => slot'[q] = slot[q]
  <2>1. slot'[p] = [slot[p] EXCEPT !.state = "filled"] /\ slot[p] \in Memory!Filled
    BY <1>2, <1>3, MemoryFacts DEF MemoryInv
  <2>2. slot'[p].in = slot[p].in
    BY <2>1 DEF Memory!Filled
  <2> QED
    BY <1>2, <1>3, <2>2, MemoryFacts DEF MemoryInv
<1>5. (\A h : On(t, h) => h = p) /\ (\A h : ~On(t, h)') /\ \A u \in Caller : u = t
  BY <1>1, <1>4 DEF On, Alone
<1>6. RefsCount'
  <2>1. \A b \in Block : \A q \in Place : q # p => (q \in Counted(b)' <=> q \in Counted(b))
    BY <1>4, <1>5, OthersCountAsBefore
  <2>2. \A b \in Block : p \notin Counted(b)' /\ p \notin Counted(b)
    BY <1>2, <1>4 DEF Counted, Kinds
  <2> QED
    BY <1>2, <2>1, <2>2, CountsKept
<1>7. RefsFollow'
  BY <1>4, <1>5 DEF RefsFollow
<1>8. BlocksGoLast'
  <2>1. \A m \in Block : slot'[p].in # m
    BY <1>4 DEF Kinds
  <2> QED
    BY <1>2, <1>4, <1>5, <2>1, BlocksStillLast
<1> QED
  BY <1>6, <1>7, <1>8

(* Room in a block keeps Account: the one more in it is not counted yet.   *)
LEMMA PlaceInBlockCounts ==
  ASSUME Kinds, MemoryInv, Alone, Account, NEW t \in Caller, Memory!PlaceInBlock(t)
  PROVE  Account'
<1> USE DEF Account
<1>1. PICK p : p = memoryCall[t].on
  OBVIOUS
<1>2. /\ memoryCall[t].op = "create" /\ memoryCall' = [memoryCall EXCEPT ![t].op = "placed"]
      /\ slot' = slot /\ block' = block /\ memoryLive' = memoryLive /\ memoryCondemned' = memoryCondemned
  BY <1>1 DEF Memory!PlaceInBlock, Memory!Goes
<1>3. memoryCall[t] # Memory!Idle /\ memoryCall[t] \in Call
  BY <1>2, MemoryFacts DEF MemoryInv
<1>4. memoryCall'[t].op = "placed" /\ memoryCall'[t].on = p /\ memoryCall'[t] # Memory!Idle
  <2>1. memoryCall'[t] = [memoryCall[t] EXCEPT !.op = "placed"]
    BY <1>2, MemoryFacts DEF MemoryInv
  <2>2. memoryCall'[t].op = "placed" /\ memoryCall'[t].on = p
    BY <1>1, <1>3, <2>1 DEF Call
  <2> QED
    BY <2>2 DEF Memory!Idle
<1>5. /\ \A h : On(t, h) <=> h = p
      /\ \A h : On(t, h)' <=> h = p
      /\ \A u \in Caller : u = t
  BY <1>1, <1>3, <1>4 DEF On, Alone
<1>6. RefsCount'
  <2>1. \A b \in Block : \A q \in Place : q # p => (q \in Counted(b)' <=> q \in Counted(b))
    BY <1>2, <1>5, OthersCountAsBefore
  <2>2. \A b \in Block : p \notin Counted(b)' /\ p \notin Counted(b)
    BY <1>2, <1>4, <1>5 DEF Counted, Making
  <2> QED
    BY <1>2, <2>1, <2>2, CountsKept
<1>7. RefsFollow'
  BY <1>4, <1>5 DEF RefsFollow
<1>8. BlocksGoLast'
  <2>1. memoryCall[t].op \notin Unmaking
    BY <1>2 DEF Unmaking
  <2> QED
    BY <1>2, <1>5, <2>1, BlocksStillLast
<1> QED
  BY <1>6, <1>7, <1>8

(* A creation that fails keeps Account.                                    *)
LEMMA OutOfRoomCounts ==
  ASSUME Kinds, MemoryInv, Alone, Account, NEW t \in Caller, Memory!OutOfRoom(t)
  PROVE  Account'
<1> USE DEF Account
<1>1. PICK p : p = memoryCall[t].on
  OBVIOUS
<1>2. /\ memoryCall[t].op = "create"
      /\ slot' = [slot EXCEPT ![p] = Memory!Free]
      /\ memoryCall' = [memoryCall EXCEPT ![t] = Memory!Idle]
      /\ block' = block /\ memoryLive' = memoryLive /\ memoryCondemned' = memoryCondemned
  BY <1>1 DEF Memory!OutOfRoom, Memory!End
<1>3. memoryCall[t] # Memory!Idle /\ p \in Place
  <2>1. memoryCall[t] # Memory!Idle
    BY <1>2, MemoryFacts DEF MemoryInv
  <2> QED
    BY <1>1, <1>2, <2>1 DEF MemoryInv, CallForm
<1>4. /\ slot'[p] = Memory!Free /\ memoryCall'[t] = Memory!Idle
      /\ \A q \in Place : q # p => slot'[q] = slot[q]
  BY <1>2, <1>3, MemoryFacts DEF MemoryInv
<1>5. /\ \A h : On(t, h) <=> h = p
      /\ \A h : ~On(t, h)'
      /\ \A u \in Caller : u = t
  BY <1>1, <1>3, <1>4 DEF On, Alone
<1>6. RefsCount'
  <2>1. \A b \in Block : \A q \in Place : q # p => (q \in Counted(b)' <=> q \in Counted(b))
    BY <1>4, <1>5, OthersCountAsBefore
  <2>2. \A b \in Block : p \notin Counted(b)' /\ p \notin Counted(b)
    BY <1>2, <1>4, <1>5 DEF Counted, Making
  <2> QED
    BY <1>2, <2>1, <2>2, CountsKept
<1>7. RefsFollow'
  BY <1>4, <1>5 DEF RefsFollow
<1>8. BlocksGoLast'
  BY <1>2, <1>4, <1>5, BlocksStillLast
<1> QED
  BY <1>6, <1>7, <1>8

(* Reading debugReferences keeps Account: no other thread writes it.       *)
LEMMA ReadReferencesCounts ==
  ASSUME Kinds, MemoryInv, Alone, Account, NEW t \in Caller, memoryCall[t] # Memory!Idle,
         memoryCall[t].on \in Place, Memory!ReadReferences(t)
  PROVE  Account'
<1> USE DEF Account
<1>1. PICK p, refs : p = memoryCall[t].on /\ refs = block[slot[p].in].refs
  OBVIOUS
<1>2. /\ memoryCall[t].op \in {"placed", "destroy"}
      /\ memoryCall' = [memoryCall EXCEPT ![t].op = IF @ = "placed" THEN "counting" ELSE "uncounting", ![t].refs = refs]
      /\ slot' = slot /\ block' = block /\ memoryLive' = memoryLive /\ memoryCondemned' = memoryCondemned
  BY <1>1 DEF Memory!ReadReferences
<1>3. memoryCall[t] \in Call
  BY MemoryFacts DEF MemoryInv
<1>4. /\ memoryCall'[t].op = IF memoryCall[t].op = "placed" THEN "counting" ELSE "uncounting"
      /\ memoryCall'[t].on = p /\ memoryCall'[t].refs = refs
  BY <1>1, <1>2, <1>3, MemoryFacts DEF MemoryInv, Call
<1>5. /\ \A h : On(t, h) <=> h = p
      /\ \A h : On(t, h)' <=> h = p
      /\ \A u \in Caller : u = t
  <2>1. memoryCall'[t] # Memory!Idle
    BY <1>4 DEF Memory!Idle
  <2> QED
    BY <1>1, <1>4, <2>1 DEF On, Alone
<1>6. RefsCount'
  <2>1. \A b \in Block : \A q \in Place : q # p => (q \in Counted(b)' <=> q \in Counted(b))
    BY <1>2, <1>5, OthersCountAsBefore
  <2>2. memoryCall'[t].op \in Making \cup {"uncounted"} <=> memoryCall[t].op \in Making \cup {"uncounted"}
    BY <1>2, <1>4 DEF Making
  <2>3. \A b \in Block : p \in Counted(b)' <=> p \in Counted(b)
    BY <1>2, <1>5, <2>2 DEF Counted
  <2> QED
    BY <1>2, <2>1, <2>3, CountsKept
<1>7. RefsFollow'
  BY <1>1, <1>2, <1>4, <1>5 DEF RefsFollow
<1>8. BlocksGoLast'
  <2>1. memoryCall[t].op \in Unmaking => memoryCall'[t].op \in Unmaking
    BY <1>2, <1>4 DEF Unmaking
  <2> QED
    BY <1>2, <1>5, <2>1, BlocksStillLast
<1> QED
  BY <1>6, <1>7, <1>8

(* The increment makes up for the resource placed.                         *)
LEMMA CountResidentCounts ==
  ASSUME Kinds, MemoryInv, Alone, Account, NEW t \in Caller, Memory!CountResident(t)
  PROVE  Account'
<1> USE DEF Account
<1>1. PICK p, m, refs : p = memoryCall[t].on /\ m = slot[p].in /\ refs = memoryCall[t].refs
  OBVIOUS
<1>2. /\ memoryCall[t].op = "counting"
      /\ block' = [block EXCEPT ![m].refs = (refs + 1) % (LastCount + 1)]
      /\ slot' = [slot EXCEPT ![p].state = "filled"]
      /\ memoryLive' = memoryLive \cup {p} /\ memoryCall' = [memoryCall EXCEPT ![t] = Memory!Idle]
      /\ memoryCondemned' = memoryCondemned
  BY <1>1 DEF Memory!CountResident, Memory!End
<1>3. memoryCall[t] # Memory!Idle /\ p \in Place /\ slot[p] # Memory!Free /\ m \in Block /\ On(t, p)
  <2>1. memoryCall[t] # Memory!Idle
    BY <1>2, MemoryFacts DEF MemoryInv
  <2>2. p \in Place /\ On(t, p) /\ m # Memory!Own
    BY <1>1, <1>2, <2>1 DEF MemoryInv, CallForm, On
  <2>3. slot[p] # Memory!Free
    BY <2>2 DEF MemoryInv, HeldSlots
  <2> QED
    BY <1>1, <2>1, <2>2, <2>3, MemoryFacts DEF MemoryInv
<1>4. /\ slot'[p] # Memory!Free /\ slot'[p].in = m /\ memoryCall'[t] = Memory!Idle
      /\ \A q \in Place : q # p => slot'[q] = slot[q]
  <2>1. slot'[p] = [slot[p] EXCEPT !.state = "filled"] /\ slot[p] \in Memory!Filled
    BY <1>2, <1>3, MemoryFacts DEF MemoryInv
  <2>2. slot'[p].in = slot[p].in /\ slot'[p].state = "filled"
    BY <2>1 DEF Memory!Filled
  <2>3. slot'[p] # Memory!Free
    BY <2>2 DEF Memory!Free
  <2> QED
    BY <1>1, <1>2, <1>3, <2>2, <2>3, MemoryFacts DEF MemoryInv
<1>5. /\ \A h : On(t, h) <=> h = p
      /\ \A h : ~On(t, h)'
      /\ \A u \in Caller : u = t
  BY <1>1, <1>3, <1>4 DEF On, Alone
<1>6. \A b \in Block : \A q \in Place : q # p => (q \in Counted(b)' <=> q \in Counted(b))
  BY <1>4, <1>5, OthersCountAsBefore
<1>7. p \notin Counted(m) /\ p \in Counted(m)' /\ \A b \in Block : b # m => p \notin Counted(b) /\ p \notin Counted(b)'
  BY <1>1, <1>2, <1>3, <1>4, <1>5 DEF Counted, Making
<1>8. Counted(m)' = Counted(m) \cup {p} /\ \A b \in Block : b # m => Counted(b)' = Counted(b)
  BY <1>3, <1>6, <1>7 DEF Counted
<1>9. Cardinality(Counted(m)') = Cardinality(Counted(m)) + 1 /\ Cardinality(Counted(m)) + 1 <= LastCount /\ Cardinality(Counted(m)) \in Nat
  <2>1. Counted(m) \in SUBSET Place /\ Counted(m) \cup {p} \in SUBSET Place
    BY <1>3 DEF Counted
  <2>2. IsFiniteSet(Counted(m))
    BY <2>1, FS_Subset DEF Alone
  <2>3. Cardinality(Counted(m) \cup {p}) = Cardinality(Counted(m)) + 1
    BY <1>7, <2>2, FS_AddElement
  <2>4. Cardinality(Counted(m) \cup {p}) <= Cardinality(Place)
    BY <2>1, FS_Subset DEF Alone
  <2>5. Cardinality(Counted(m)) \in Nat /\ Cardinality(Place) \in Nat
    BY <2>2, FS_CardinalityType DEF Alone
  <2> QED
    BY <1>8, <2>3, <2>4, <2>5 DEF Alone, Kinds
<1>10. refs = Cardinality(Counted(m))
  BY <1>1, <1>2, <1>3 DEF RefsFollow, RefsCount
<1>11. (refs + 1) % (LastCount + 1) = refs + 1
  BY <1>9, <1>10 DEF Kinds
<1>12. block'[m].refs = refs + 1 /\ \A b \in Block : b # m => block'[b].refs = block[b].refs
  BY <1>2, <1>3, <1>11, MemoryFacts DEF MemoryInv
<1>13. RefsCount'
  BY <1>8, <1>9, <1>10, <1>12 DEF RefsCount
<1>14. RefsFollow'
  BY <1>4, <1>5 DEF RefsFollow
<1>15. BlocksGoLast'
  <2>1. memoryCall[t].op \notin Unmaking
    BY <1>2 DEF Unmaking
  <2> QED
    BY <1>1, <1>2, <1>3, <1>4, <1>5, <2>1, BlocksStillLast
<1> QED
  BY <1>13, <1>14, <1>15

(* CreateBlas and CreateTlas keep Account.                                 *)
LEMMA CreateStructureCounts ==
  ASSUME Kinds, MemoryInv, Alone, Account, NEW t \in Caller, NEW s \in Structure, NEW p \in Place,
         Memory!CreateStructure(t, s, p)
  PROVE  Account'
<1> USE DEF Account
<1>1. PICK x, y : /\ x = [state |-> "filled", in |-> Memory!Own, owner |-> s]
                  /\ y = [state |-> "filled", in |-> Memory!Own, owner |-> Memory!Nobody]
  OBVIOUS
<1>2. /\ memoryCall[t] = Memory!Idle /\ slot[p] = Memory!Free
      /\ slot' = [slot EXCEPT ![p] = x, ![s] = y] /\ memoryLive' = memoryLive \cup {s}
      /\ block' = block /\ memoryCondemned' = memoryCondemned /\ memoryCall' = memoryCall
  BY <1>1 DEF Memory!CreateStructure
<1>3. /\ slot'[p].in = Memory!Own
      /\ \A q \in Place : q # p => slot'[q] = slot[q]
  <2>1. s \notin Place
    BY DEF Kinds
  <2>2. slot'[p] = x /\ \A q \in Place : q # p => slot'[q] = slot[q]
    BY <1>2, <2>1, MemoryFacts DEF MemoryInv
  <2> QED
    BY <1>1, <2>2
<1>4. (\A h : ~On(t, h)) /\ (\A h : ~On(t, h)') /\ \A u \in Caller : u = t
  BY <1>2 DEF On, Alone
<1>5. RefsCount'
  <2>1. \A b \in Block : \A q \in Place : q # p => (q \in Counted(b)' <=> q \in Counted(b))
    BY <1>3, <1>4, OthersCountAsBefore
  <2>2. \A b \in Block : p \notin Counted(b)' /\ p \notin Counted(b)
    BY <1>2, <1>3 DEF Counted, Kinds
  <2> QED
    BY <1>2, <2>1, <2>2, CountsKept
<1>6. RefsFollow'
  BY <1>2, <1>4 DEF RefsFollow
<1>7. BlocksGoLast'
  <2>1. \A m \in Block : slot'[p].in # m
    BY <1>3 DEF Kinds
  <2> QED
    BY ZenonT(60), <1>2, <1>3, <1>4, <2>1, BlocksStillLast
<1> QED
  BY <1>5, <1>6, <1>7

(* A deferred destruction keeps Account: a block goes behind its           *)
(* residents.                                                              *)
LEMMA DestroyDeferredCounts ==
  ASSUME Kinds, MemoryInv, Alone, Account, NEW t \in Caller, NEW h \in Memory!Handle, Memory!DestroyDeferred(t, h)
  PROVE  Account'
<1> USE DEF Account
<1>1. /\ memoryCall[t] = Memory!Idle /\ h \in memoryLive
      /\ (h \in Block => memoryLive \cap Memory!Resident(h) = {})
      /\ memoryLive' = memoryLive \ {h} /\ memoryCondemned' = Append(memoryCondemned, h)
      /\ slot' = slot /\ block' = block /\ memoryCall' = memoryCall
  BY DEF Memory!DestroyDeferred, Memory!MayGiveUp
<1>2. \A u \in Caller : u = t /\ \A x : ~On(u, x) /\ ~On(u, x)'
  BY <1>1 DEF On, Alone
<1>3. RefsCount'
  <2>1. \A b \in Block : \A p \in Place : p \in Counted(b)' <=> p \in Counted(b)
    BY <1>1 DEF Counted, On
  <2> QED
    BY <1>1, <2>1, CountsKept
<1>4. RefsFollow'
  BY <1>1, <1>2 DEF RefsFollow
<1>5. /\ Len(memoryCondemned) \in Nat /\ Len(memoryCondemned') = Len(memoryCondemned) + 1
      /\ \A i \in 1 .. Len(memoryCondemned) : i \in 1 .. Len(memoryCondemned') /\ memoryCondemned'[i] = memoryCondemned[i]
      /\ \A i \in 1 .. Len(memoryCondemned') :
           \/ i \in 1 .. Len(memoryCondemned) /\ memoryCondemned'[i] = memoryCondemned[i]
           \/ i = Len(memoryCondemned) + 1 /\ memoryCondemned'[i] = h
  BY <1>1, MemoryFacts, AppendElements DEF MemoryInv
<1>6. BlocksGoLast'
  <2> SUFFICES ASSUME NEW m \in Block, NEW p \in Place, slot[p] # Memory!Free, slot[p].in = m, m \notin memoryLive'
               PROVE  \E i \in 1 .. Len(memoryCondemned') :
                        /\ memoryCondemned'[i] = m
                        /\ \E j \in 1 .. Len(memoryCondemned') : j < i /\ memoryCondemned'[j] = p
    BY <1>1 DEF BlocksGoLast
  <2>1. CASE m = h
    <3>1. p \notin memoryLive
      BY <1>1, <2>1 DEF Memory!Resident
    <3>2. ~Owned(p)
      BY DEF MemoryInv, SlotForm, Kinds
    <3>3. Waiting(p)
      BY <1>2, <3>1, <3>2 DEF MemoryInv, HeldSlots
    <3>4. PICK j \in 1 .. Len(memoryCondemned) : memoryCondemned[j] = p
      BY <3>3 DEF Waiting
    <3>5. j \in 1 .. Len(memoryCondemned') /\ j < Len(memoryCondemned) + 1 /\ memoryCondemned'[j] = p
      BY <1>5, <3>4
    <3>6. Len(memoryCondemned) + 1 \in 1 .. Len(memoryCondemned') /\ memoryCondemned'[Len(memoryCondemned) + 1] = h
      BY <1>5
    <3> QED
      BY <2>1, <3>5, <3>6
  <2>2. CASE m # h
    <3>1. m \notin memoryLive
      BY <1>1, <2>2
    <3>2. PICK i \in 1 .. Len(memoryCondemned) :
            /\ memoryCondemned[i] = m
            /\ \E j \in 1 .. Len(memoryCondemned) : j < i /\ memoryCondemned[j] = p
      BY <1>2, <3>1 DEF BlocksGoLast
    <3> QED
      BY <1>5, <3>2
  <2> QED
    BY <2>1, <2>2
<1> QED
  BY <1>3, <1>4, <1>6

(* A call that begins to destroy leaves the accounts of memory blocks.     *)
LEMMA DestroyBeginsCounts ==
  ASSUME Kinds, MemoryInv, Alone, Account, NEW t \in Caller, NEW h \in Memory!Handle, memoryCall[t] = Memory!Idle,
         memoryCall' = [memoryCall EXCEPT ![t] = [op |-> "destroy", on |-> h, refs |-> 0]],
         slot' = slot, block' = block
  PROVE  /\ RefsCount' /\ RefsFollow' /\ On(t, h)' /\ memoryCall'[t].op \in Unmaking
         /\ \A u \in Caller : u = t /\ \A x : ~On(u, x)
<1> USE DEF Account
<1>1. memoryCall'[t] = [op |-> "destroy", on |-> h, refs |-> 0]
  BY MemoryFacts DEF MemoryInv
<1>2. memoryCall'[t].op = "destroy" /\ memoryCall'[t].on = h /\ memoryCall'[t] # Memory!Idle
  BY <1>1 DEF Memory!Idle
<1>3. /\ \A u \in Caller : u = t
      /\ \A x : ~On(t, x)
      /\ \A x : On(t, x)' <=> x = h
  BY <1>2 DEF On, Alone
<1>4. RefsCount'
  <2>1. memoryCall'[t].op \notin Making \cup {"uncounted"}
    BY <1>2 DEF Making
  <2>2. \A b \in Block : \A p \in Place : p \in Counted(b)' <=> p \in Counted(b)
    BY <1>3, <2>1 DEF Counted
  <2> QED
    BY <2>2, CountsKept
<1>5. RefsFollow'
  BY <1>2, <1>3 DEF RefsFollow
<1>6. memoryCall'[t].op \in Unmaking
  BY <1>2 DEF Unmaking
<1> QED
  BY <1>3, <1>4, <1>5, <1>6

(* A destruction at once keeps Account.                                    *)
LEMMA DestroyAtOnceCounts ==
  ASSUME Kinds, MemoryInv, Alone, Account, NEW t \in Caller, NEW h \in Memory!Handle, Memory!DestroyAtOnce(t, h)
  PROVE  Account'
<1> USE DEF Account
<1>1. /\ memoryCall[t] = Memory!Idle /\ h \in memoryLive
      /\ (h \in Block => Memory!Resident(h) = {})
      /\ memoryLive' = memoryLive \ {h}
      /\ memoryCall' = [memoryCall EXCEPT ![t] = [op |-> "destroy", on |-> h, refs |-> 0]]
      /\ slot' = slot /\ block' = block /\ memoryCondemned' = memoryCondemned
  BY DEF Memory!DestroyAtOnce, Memory!MayGiveUp, Memory!Begin
<1>2. /\ RefsCount' /\ RefsFollow'
      /\ \A u \in Caller : u = t /\ \A x : ~On(u, x)
  BY <1>1, DestroyBeginsCounts
<1>3. BlocksGoLast'
  <2> SUFFICES ASSUME NEW m \in Block, NEW p \in Place, slot[p] # Memory!Free, slot[p].in = m, m \notin memoryLive'
               PROVE  \E i \in 1 .. Len(memoryCondemned) :
                        /\ memoryCondemned[i] = m
                        /\ \E j \in 1 .. Len(memoryCondemned) : j < i /\ memoryCondemned[j] = p
    BY <1>1 DEF BlocksGoLast
  <2>1. m # h
    BY <1>1 DEF Memory!Resident
  <2>2. m \notin memoryLive
    BY <1>1, <2>1
  <2> QED
    BY <1>2, <2>2 DEF BlocksGoLast
<1> QED
  BY <1>2, <1>3

(* Taking the next condemned handle keeps Account.                         *)
LEMMA CollectCounts ==
  ASSUME Kinds, MemoryInv, Alone, Account, NEW t \in Caller, Memory!Collect(t)
  PROVE  Account'
<1> USE DEF Account
<1>1. PICK h : h = Head(memoryCondemned)
  OBVIOUS
<1>2. /\ memoryCall[t] = Memory!Idle /\ memoryCondemned # <<>> /\ memoryCondemned' = Tail(memoryCondemned)
      /\ memoryCall' = [memoryCall EXCEPT ![t] = [op |-> "destroy", on |-> h, refs |-> 0]]
      /\ slot' = slot /\ block' = block /\ memoryLive' = memoryLive
  BY <1>1 DEF Memory!Collect, Memory!Begin
<1>3. /\ h = memoryCondemned[1] /\ 1 \in 1 .. Len(memoryCondemned) /\ Len(memoryCondemned) \in Nat
      /\ Len(memoryCondemned') = Len(memoryCondemned) - 1
      /\ \A i \in 1 .. Len(memoryCondemned) : i # 1 => i - 1 \in 1 .. Len(memoryCondemned') /\ memoryCondemned'[i - 1] = memoryCondemned[i]
  <2>1. memoryCondemned \in Seq(Memory!Handle)
    BY MemoryFacts DEF MemoryInv
  <2> QED
    BY <1>1, <1>2, <2>1, TailElements
<1>4. h \in Memory!Handle
  BY <1>3, MemoryFacts DEF MemoryInv
<1>5. /\ RefsCount' /\ RefsFollow' /\ On(t, h)' /\ memoryCall'[t].op \in Unmaking
      /\ \A u \in Caller : u = t /\ \A x : ~On(u, x)
  BY <1>2, <1>4, DestroyBeginsCounts
<1>6. BlocksGoLast'
  <2> SUFFICES ASSUME NEW m \in Block, NEW p \in Place, slot[p] # Memory!Free, slot[p].in = m, m \notin memoryLive
               PROVE  \E i \in 1 .. Len(memoryCondemned') :
                        /\ memoryCondemned'[i] = m
                        /\ \/ \E j \in 1 .. Len(memoryCondemned') : j < i /\ memoryCondemned'[j] = p
                           \/ \E u \in Caller : On(u, p)' /\ memoryCall'[u].op \in Unmaking
    BY <1>2 DEF BlocksGoLast
  <2>1. PICK i, j \in 1 .. Len(memoryCondemned) : memoryCondemned[i] = m /\ j < i /\ memoryCondemned[j] = p
    BY <1>5 DEF BlocksGoLast
  <2>2. i # 1
    BY <2>1
  <2>3. i - 1 \in 1 .. Len(memoryCondemned') /\ memoryCondemned'[i - 1] = m
    BY <1>3, <2>1, <2>2
  <2>4. CASE j = 1
    BY <1>3, <1>5, <2>1, <2>3, <2>4
  <2>5. CASE j # 1
    <3>1. j - 1 \in 1 .. Len(memoryCondemned') /\ memoryCondemned'[j - 1] = p
      BY <1>3, <2>1, <2>5
    <3>2. j - 1 < i - 1
      BY <2>1
    <3> QED
      BY <2>3, <3>1, <3>2
  <2> QED
    BY <2>4, <2>5
<1> QED
  BY <1>5, <1>6

(* The decrement, of a resource still in its block, keeps Account.         *)
LEMMA UncountResidentCounts ==
  ASSUME Kinds, MemoryInv, Alone, Account, NEW t \in Caller, Memory!UncountResident(t)
  PROVE  Account'
<1> USE DEF Account
<1>1. PICK p, m, refs : p = memoryCall[t].on /\ m = slot[p].in /\ refs = memoryCall[t].refs
  OBVIOUS
<1>2. /\ memoryCall[t].op = "uncounting"
      /\ block' = [block EXCEPT ![m].refs = IF refs = 0 THEN LastCount ELSE refs - 1]
      /\ memoryCall' = [memoryCall EXCEPT ![t].op = "uncounted"]
      /\ slot' = slot /\ memoryLive' = memoryLive /\ memoryCondemned' = memoryCondemned
  BY <1>1 DEF Memory!UncountResident, Memory!Goes
<1>3. memoryCall[t] # Memory!Idle /\ memoryCall[t] \in Call /\ p \in Place /\ slot[p] # Memory!Free /\ m \in Block /\ On(t, p)
  <2>1. memoryCall[t] # Memory!Idle /\ memoryCall[t] \in Call
    BY <1>2, MemoryFacts DEF MemoryInv
  <2>2. p \in Place /\ On(t, p) /\ m # Memory!Own
    BY <1>1, <1>2, <2>1 DEF MemoryInv, CallForm, On
  <2>3. slot[p] # Memory!Free
    BY <2>2 DEF MemoryInv, HeldSlots
  <2> QED
    BY <1>1, <2>1, <2>2, <2>3, MemoryFacts DEF MemoryInv
<1>4. memoryCall'[t].op = "uncounted" /\ memoryCall'[t].on = p /\ memoryCall'[t] # Memory!Idle
  <2>1. memoryCall'[t] = [memoryCall[t] EXCEPT !.op = "uncounted"]
    BY <1>2, MemoryFacts DEF MemoryInv
  <2>2. memoryCall'[t].op = "uncounted" /\ memoryCall'[t].on = p
    BY <1>1, <1>3, <2>1 DEF Call
  <2> QED
    BY <2>2 DEF Memory!Idle
<1>5. /\ \A h : On(t, h) <=> h = p
      /\ \A h : On(t, h)' <=> h = p
      /\ \A u \in Caller : u = t
  BY <1>1, <1>3, <1>4 DEF On, Alone
<1>6. \A b \in Block : \A q \in Place : q # p => (q \in Counted(b)' <=> q \in Counted(b))
  BY <1>2, <1>5, OthersCountAsBefore
<1>7. p \in Counted(m) /\ p \notin Counted(m)' /\ \A b \in Block : b # m => p \notin Counted(b) /\ p \notin Counted(b)'
  <2>1. "uncounting" \notin Making \cup {"uncounted"} /\ "uncounted" \in Making \cup {"uncounted"}
    BY DEF Making
  <2> QED
    BY <1>1, <1>2, <1>3, <1>4, <1>5, <2>1 DEF Counted
<1>8. Counted(m)' = Counted(m) \ {p} /\ \A b \in Block : b # m => Counted(b)' = Counted(b)
  BY <1>3, <1>6, <1>7 DEF Counted
<1>9. Cardinality(Counted(m)') = Cardinality(Counted(m)) - 1 /\ Cardinality(Counted(m)) \in Nat \ {0}
  <2>1. Counted(m) \in SUBSET Place
    BY DEF Counted
  <2>2. IsFiniteSet(Counted(m))
    BY <2>1, FS_Subset DEF Alone
  <2>3. Cardinality(Counted(m) \ {p}) = Cardinality(Counted(m)) - 1
    BY <1>7, <2>2, FS_RemoveElement
  <2>4. Cardinality(Counted(m)) \in Nat /\ Cardinality(Counted(m)) # 0
    BY <1>7, <2>2, FS_CardinalityType, FS_EmptySet
  <2> QED
    BY <1>8, <2>3, <2>4
<1>10. refs = Cardinality(Counted(m))
  BY <1>1, <1>2, <1>3 DEF RefsFollow, RefsCount
<1>11. block'[m].refs = refs - 1 /\ \A b \in Block : b # m => block'[b].refs = block[b].refs
  <2>1. refs # 0
    BY <1>9, <1>10
  <2>2. block' = [block EXCEPT ![m].refs = refs - 1]
    BY <1>2, <2>1
  <2> QED
    BY <1>3, <2>2, MemoryFacts DEF MemoryInv
<1>12. RefsCount'
  BY <1>8, <1>9, <1>10, <1>11 DEF RefsCount
<1>13. RefsFollow'
  BY <1>4, <1>5 DEF RefsFollow
<1>14. BlocksGoLast'
  <2>1. memoryCall'[t].op \in Unmaking
    BY <1>4 DEF Unmaking
  <2> QED
    BY <1>1, <1>2, <1>3, <1>5, <2>1, BlocksStillLast
<1> QED
  BY <1>12, <1>13, <1>14

(* Freeing a resource that is no longer counted keeps Account.             *)
LEMMA FreeResidentCounts ==
  ASSUME Kinds, MemoryInv, Alone, Account, NEW t \in Caller, Memory!FreeResident(t)
  PROVE  Account'
<1> USE DEF Account
<1>1. PICK p : p = memoryCall[t].on
  OBVIOUS
<1>2. /\ memoryCall[t].op = "uncounted"
      /\ slot' = [slot EXCEPT ![p] = Memory!Free]
      /\ memoryCall' = [memoryCall EXCEPT ![t] = Memory!Idle]
      /\ block' = block /\ memoryLive' = memoryLive /\ memoryCondemned' = memoryCondemned
  BY <1>1 DEF Memory!FreeResident, Memory!End
<1>3. memoryCall[t] # Memory!Idle /\ p \in Place
  <2>1. memoryCall[t] # Memory!Idle
    BY <1>2, MemoryFacts DEF MemoryInv
  <2> QED
    BY <1>1, <1>2, <2>1 DEF MemoryInv, CallForm
<1>4. /\ slot'[p] = Memory!Free /\ memoryCall'[t] = Memory!Idle
      /\ \A q \in Place : q # p => slot'[q] = slot[q]
  BY <1>2, <1>3, MemoryFacts DEF MemoryInv
<1>5. /\ \A h : On(t, h) <=> h = p
      /\ \A h : ~On(t, h)'
      /\ \A u \in Caller : u = t
  BY <1>1, <1>3, <1>4 DEF On, Alone
<1>6. RefsCount'
  <2>1. \A b \in Block : \A q \in Place : q # p => (q \in Counted(b)' <=> q \in Counted(b))
    BY <1>4, <1>5, OthersCountAsBefore
  <2>2. \A b \in Block : p \notin Counted(b)' /\ p \notin Counted(b)
    BY <1>2, <1>4, <1>5 DEF Counted
  <2> QED
    BY <1>2, <2>1, <2>2, CountsKept
<1>7. RefsFollow'
  BY <1>4, <1>5 DEF RefsFollow
<1>8. BlocksGoLast'
  BY <1>2, <1>4, <1>5, BlocksStillLast
<1> QED
  BY <1>6, <1>7, <1>8

(* Freeing a resource with memory of its own keeps Account.                *)
LEMMA FreeItsOwnCounts ==
  ASSUME Kinds, MemoryInv, Alone, Account, NEW t \in Caller, Memory!FreeItsOwn(t)
  PROVE  Account'
<1> USE DEF Account
<1>1. PICK s, gone : s = memoryCall[t].on /\ gone = {s} \cup {p \in Place : slot[p] # Memory!Free /\ slot[p].owner = s}
  OBVIOUS
<1>2. /\ memoryCall[t].op = "destroy" /\ s \in DOMAIN slot /\ slot[s].in = Memory!Own
      /\ slot' = [x \in DOMAIN slot |-> IF x \in gone THEN Memory!Free ELSE slot[x]]
      /\ memoryCall' = [memoryCall EXCEPT ![t] = Memory!Idle]
      /\ memoryLive' = memoryLive /\ block' = block /\ memoryCondemned' = memoryCondemned
  BY <1>1 DEF Memory!FreeItsOwn, Memory!End
<1>3. memoryCall[t] # Memory!Idle /\ memoryCall'[t] = Memory!Idle
  BY <1>2, MemoryFacts DEF MemoryInv
<1>4. /\ \A h : On(t, h) <=> h = s
      /\ \A h : ~On(t, h)'
      /\ \A u \in Caller : u = t
  BY <1>1, <1>3 DEF On, Alone
<1>5. \A q \in Place : q \in gone => slot[q].in = Memory!Own /\ slot'[q] = Memory!Free
  <2>1. \A q \in Place : q \in gone /\ q # s => Owned(q)
    <3>1. s # Memory!Nobody
      BY <1>2, MemoryFacts DEF MemoryInv, Kinds
    <3> QED
      BY <1>1, <3>1 DEF Owned
  <2>2. \A q \in Place : q \in gone => slot[q].in = Memory!Own
    BY <1>2, <2>1 DEF MemoryInv, SlotForm
  <2> QED
    BY <1>2, <2>2, MemoryFacts DEF MemoryInv
<1>6. \A q \in Place : q \notin gone => slot'[q] = slot[q] /\ q # s
  BY <1>1, <1>2, MemoryFacts DEF MemoryInv
<1>7. RefsCount'
  <2>1. \A b \in Block : \A q \in Place : q \in Counted(b)' <=> q \in Counted(b)
    <3> SUFFICES ASSUME NEW b \in Block, NEW q \in Place PROVE q \in Counted(b)' <=> q \in Counted(b)
      OBVIOUS
    <3>1. CASE q \in gone
      BY <1>5, <3>1 DEF Counted, Kinds
    <3>2. CASE q \notin gone
      BY <1>4, <1>6, <3>2 DEF Counted
    <3> QED
      BY <3>1, <3>2
  <2> QED
    BY <1>2, <2>1, CountsKept
<1>8. RefsFollow'
  BY <1>3, <1>4 DEF RefsFollow
<1>9. BlocksGoLast'
  <2> SUFFICES ASSUME NEW m \in Block, NEW p \in Place, slot'[p] # Memory!Free, slot'[p].in = m, m \notin memoryLive
               PROVE  \E i \in 1 .. Len(memoryCondemned) :
                        /\ memoryCondemned[i] = m
                        /\ \E j \in 1 .. Len(memoryCondemned) : j < i /\ memoryCondemned[j] = p
    BY <1>2 DEF BlocksGoLast
  <2>1. p \notin gone /\ slot[p] # Memory!Free /\ slot[p].in = m /\ \A u \in Caller : ~On(u, p)
    BY <1>4, <1>5, <1>6
  <2> QED
    BY <2>1 DEF BlocksGoLast
<1> QED
  BY <1>7, <1>8, <1>9

(* Freeing a block, which is empty by then, keeps Account.                 *)
LEMMA FreeBlockCounts ==
  ASSUME Kinds, MemoryInv, Alone, Account, NEW t \in Caller, Memory!FreeBlock(t)
  PROVE  Account'
<1> USE DEF Account
<1>1. PICK m : m = memoryCall[t].on
  OBVIOUS
<1>2. /\ memoryCall[t].op = "destroy" /\ m \in Block
      /\ block' = [block EXCEPT ![m] = Memory!NoBlock]
      /\ memoryCall' = [memoryCall EXCEPT ![t] = Memory!Idle]
      /\ slot' = slot /\ memoryLive' = memoryLive /\ memoryCondemned' = memoryCondemned
  BY <1>1 DEF Memory!FreeBlock, Memory!End
<1>3. memoryCall[t] # Memory!Idle /\ memoryCall'[t] = Memory!Idle
  BY <1>2, MemoryFacts DEF MemoryInv
<1>4. /\ \A h : On(t, h) <=> h = m
      /\ \A h : ~On(t, h)'
      /\ \A u \in Caller : u = t
  BY <1>1, <1>3 DEF On, Alone
<1>5. m \notin memoryLive /\ ~Waiting(m) /\ m \notin Place
  BY <1>2, <1>4 DEF MemoryInv, InOneHand, Memory!Handle, Kinds
<1>6. block[m].refs = 0
  BY <1>2, <1>5, NothingLeft
<1>7. \A b \in Block : block'[b].refs = block[b].refs
  <2>1. Memory!NoBlock.refs = 0
    BY DEF Memory!NoBlock
  <2> QED
    BY <1>2, <1>6, <2>1, MemoryFacts DEF MemoryInv
<1>8. \A q \in Place : \A u \in Caller : ~On(u, q) /\ ~On(u, q)'
  BY <1>4, <1>5
<1>9. RefsCount'
  <2>1. \A b \in Block : \A q \in Place : q \in Counted(b)' <=> q \in Counted(b)
    BY <1>2, <1>8 DEF Counted
  <2> QED
    BY <1>7, <2>1, CountsKept
<1>10. RefsFollow'
  BY <1>3, <1>4 DEF RefsFollow
<1>11. BlocksGoLast'
  BY <1>2, <1>8 DEF BlocksGoLast
<1> QED
  BY <1>9, <1>10, <1>11

(* Account holds at the start.                                             *)
LEMMA AccountBegins ==
  ASSUME Kinds, Memory!Init PROVE Account
<1>1. /\ slot = [s \in Place \cup Structure |-> Memory!Free]
      /\ block = [m \in Block |-> Memory!NoBlock]
      /\ memoryCall = [t \in Caller |-> Memory!Idle]
  BY DEF Memory!Init
<1>2. Memory!NoBlock.refs = 0
  BY DEF Memory!NoBlock
<1>3. \A m \in Block : Counted(m) = {}
  BY <1>1 DEF Counted
<1>4. RefsCount
  BY <1>1, <1>2, <1>3, FS_EmptySet DEF RefsCount
<1>5. RefsFollow /\ BlocksGoLast
  BY <1>1 DEF RefsFollow, BlocksGoLast
<1> QED
  BY <1>4, <1>5 DEF Account

(* Account holds as long as nothing changes.                               *)
LEMMA AccountStays ==
  ASSUME Account, UNCHANGED Memory!vars PROVE Account'
<1>1. /\ slot' = slot /\ block' = block
      /\ memoryLive' = memoryLive /\ memoryCondemned' = memoryCondemned /\ memoryCall' = memoryCall
  BY DEF Memory!vars
<1>2. RefsCount'
  BY <1>1 DEF Account, RefsCount, Counted, On
<1>3. RefsFollow' /\ BlocksGoLast'
  BY <1>1 DEF Account, RefsFollow, BlocksGoLast, On
<1> QED
  BY <1>2, <1>3 DEF Account

(* Every step of the one thread keeps Account.                             *)
LEMMA AccountStep ==
  ASSUME Kinds, MemoryInv, Alone, Account, Memory!Next PROVE Account'
<1>1. PICK t \in Caller :
        \/ \E m \in Block : Memory!CreateMemoryBlock(t, m)
        \/ \E p \in Place, m \in Block \cup {Memory!Own} : Memory!NewResource(t, p, m)
        \/ Memory!AllocateItsOwn(t) \/ Memory!PlaceInBlock(t) \/ Memory!OutOfRoom(t)
        \/ memoryCall[t] # Memory!Idle /\ memoryCall[t].on \in Place /\ Memory!ReadReferences(t)
        \/ Memory!CountResident(t)
        \/ \E s \in Structure, p \in Place : Memory!CreateStructure(t, s, p)
        \/ \E h \in Memory!Handle : Memory!DestroyDeferred(t, h) \/ Memory!DestroyAtOnce(t, h)
        \/ Memory!Collect(t)
        \/ Memory!UncountResident(t) \/ Memory!FreeResident(t) \/ Memory!FreeItsOwn(t) \/ Memory!FreeBlock(t)
  BY DEF Memory!Next
<1>2. CASE \E m \in Block : Memory!CreateMemoryBlock(t, m)
  BY <1>2, CreateMemoryBlockCounts
<1>3. CASE \E p \in Place, m \in Block \cup {Memory!Own} : Memory!NewResource(t, p, m)
  BY <1>3, NewResourceCounts
<1>4. CASE Memory!AllocateItsOwn(t) \/ Memory!PlaceInBlock(t) \/ Memory!OutOfRoom(t)
  BY <1>4, AllocateItsOwnCounts, PlaceInBlockCounts, OutOfRoomCounts
<1>5. CASE memoryCall[t] # Memory!Idle /\ memoryCall[t].on \in Place /\ Memory!ReadReferences(t)
  BY <1>5, ReadReferencesCounts
<1>6. CASE Memory!CountResident(t)
  BY <1>6, CountResidentCounts
<1>7. CASE \E s \in Structure, p \in Place : Memory!CreateStructure(t, s, p)
  BY <1>7, CreateStructureCounts
<1>8. CASE \E h \in Memory!Handle : Memory!DestroyDeferred(t, h) \/ Memory!DestroyAtOnce(t, h)
  BY <1>8, DestroyDeferredCounts, DestroyAtOnceCounts
<1>9. CASE Memory!Collect(t)
  BY <1>9, CollectCounts
<1>10. CASE Memory!UncountResident(t) \/ Memory!FreeResident(t)
  BY <1>10, UncountResidentCounts, FreeResidentCounts
<1>11. CASE Memory!FreeItsOwn(t) \/ Memory!FreeBlock(t)
  BY <1>11, FreeItsOwnCounts, FreeBlockCounts
<1> QED
  BY <1>1, <1>2, <1>3, <1>4, <1>5, <1>6, <1>7, <1>8, <1>9, <1>10, <1>11

(* What Account says of debugReferences and of the assertion on it.        *)
LEMMA AccountTells ==
  ASSUME Kinds, MemoryInv, Account PROVE Memory!CountsResidents /\ Memory!BlockAssertHolds
<1> USE DEF Account
<1>1. ASSUME NEW m \in Block, \A p \in Memory!Resident(m) : ~Memory!Creating(p) /\ ~Memory!Destroying(p)
      PROVE  block[m].refs = Cardinality(Memory!Resident(m))
  <2>1. \A p \in Memory!Resident(m) : \A t \in Caller : ~On(t, p)
    <3>1. \A t \in Caller : memoryCall[t] # Memory!Idle =>
            \/ memoryCall[t].op \in {"create", "placed", "counting"}
            \/ memoryCall[t].op \in {"destroy", "uncounting", "uncounted"}
      BY MemoryFacts DEF MemoryInv, Making, Unmaking
    <3> QED
      BY <1>1, <3>1 DEF On, Memory!Creating, Memory!Destroying
  <2>2. Counted(m) = Memory!Resident(m)
    BY <1>1, <2>1 DEF Counted, Memory!Resident
  <2> QED
    BY <1>1, <2>2 DEF RefsCount
<1>2. Memory!CountsResidents
  <2>1. \A S : Memory!Cardinality(S) = Cardinality(S)
    BY DEF Memory!Cardinality, Cardinality
  <2> QED
    BY <1>1, <2>1 DEF Memory!CountsResidents
<1>3. Memory!BlockAssertHolds
  <2> SUFFICES ASSUME NEW t \in Caller, memoryCall[t] # Memory!Idle, memoryCall[t].on \in Block
               PROVE  block[memoryCall[t].on].refs = 0
    BY DEF Memory!BlockAssertHolds
  <2>1. PICK m \in Block : m = memoryCall[t].on
    OBVIOUS
  <2>2. m \notin memoryLive /\ ~Waiting(m)
    BY <2>1 DEF MemoryInv, InOneHand, On, Memory!Handle
  <2> QED
    BY <2>1, <2>2, NothingLeft
<1> QED
  BY <1>2, <1>3

(* With one thread about memory the count of a block is that of its        *)
(* residents, so DestroyMemoryBlock's assertion tells the truth.           *)
THEOREM OneThreadAccounts ==
  ASSUME Kinds, Alone PROVE Memory!Spec => []MemoryIsAccounted
<1>1. Memory!Init => MemoryInv /\ Account
  BY MemoryBegins, AccountBegins
<1>2. MemoryInv /\ Account /\ [Memory!Next]_(Memory!vars) => (MemoryInv /\ Account)'
  BY MemoryStep, MemoryStays, AccountStep, AccountStays
<1>3. MemoryInv /\ Account => MemoryIsAccounted
  BY HandsAndRooms, AccountTells DEF MemoryIsAccounted
<1> QED
  BY <1>1, <1>2, <1>3, PTL DEF Memory!Spec

-----------------------------------------------------------------------------
(* VulkanDescriptors *)

Sizes == MaxIndices \in Nat \ {0} /\ MaxObjects \in Nat

Doomed == {bindlessCondemned[k] : k \in 1 .. Len(bindlessCondemned)}
Held == bindlessLive \cup Doomed
HeldIn(p) == {h \in Held : Bindless!PoolOf(h.kind) = p}
Vacant(p) == {freeIndices[p][k] : k \in 1 .. Len(freeIndices[p])}

DescriptorTypes ==
  /\ Bindless!TypeOK /\ freeIndices \in [Bindless!Pool -> Seq(Bindless!Index)]
(* Nobody holds a handle twice, and nobody else holds its index or object. *)
HeldOnce ==
  /\ \A i, j \in 1 .. Len(bindlessCondemned) : bindlessCondemned[i] = bindlessCondemned[j] => i = j
  /\ \A k \in 1 .. Len(bindlessCondemned) : bindlessCondemned[k] \notin bindlessLive
  /\ \A g, h \in Held : g.object = h.object => g = h
  /\ \A g, h \in Held : Bindless!PoolOf(g.kind) = Bindless!PoolOf(h.kind) /\ g.index = h.index => g = h
(* An index below the next one is vacant once or held.                     *)
IndicesKept ==
  \A p \in Bindless!Pool :
    /\ \A i, j \in 1 .. Len(freeIndices[p]) : freeIndices[p][i] = freeIndices[p][j] => i = j
    /\ \A h \in HeldIn(p) : h.index \notin Vacant(p)
    /\ Vacant(p) \cup {h.index : h \in HeldIn(p)} = 1 .. bindlessNextIndex[p] - 1
    /\ IsFiniteSet(HeldIn(p))
    /\ Len(freeIndices[p]) + Cardinality(HeldIn(p)) = bindlessNextIndex[p] - 1
ObjectsKept ==
  /\ objects = {h.object : h \in Held}
  /\ \A h \in Held : h.object <= made
Written ==
  \A h \in Held : \A b \in Bindless!Bindings(h.kind) : descriptors[b][h.index] = h.object
ReadHeld == \A w \in Work : reads[w] \subseteq Held

DescriptorInv == DescriptorTypes /\ HeldOnce /\ IndicesKept /\ ObjectsKept /\ Written /\ ReadHeld

(* The kinds of handles, their pools and bindings.                         *)
LEMMA KindsApart ==
  /\ \A k \in Bindless!Kind : Bindless!PoolOf(k) \in Bindless!Pool /\ Bindless!Bindings(k) \subseteq Bindless!Binding
  /\ \A k, l \in Bindless!Kind : \A b : b \in Bindless!Bindings(k) /\ b \in Bindless!Bindings(l) =>
       Bindless!PoolOf(k) = Bindless!PoolOf(l)
<1>1. \A k \in Bindless!Kind :
        \/ k = "buffer" \/ k = "image" \/ k = "storage image" \/ k = "sampler" \/ k = "tlas"
  BY DEF Bindless!Kind
<1>2. /\ Bindless!PoolOf("buffer") = "views" /\ Bindless!PoolOf("image") = "views"
      /\ Bindless!PoolOf("storage image") = "views" /\ Bindless!PoolOf("sampler") = "samplers"
      /\ Bindless!PoolOf("tlas") = "tlas"
  BY DEF Bindless!PoolOf
<1>3. /\ Bindless!Bindings("buffer") = {"STORAGE_BUFFER"} /\ Bindless!Bindings("image") = {"SAMPLED_IMAGE"}
      /\ Bindless!Bindings("storage image") = {} /\ Bindless!Bindings("sampler") = {"SAMPLER"}
      /\ Bindless!Bindings("tlas") = {"ACCELERATION_STRUCTURE"}
  BY DEF Bindless!Bindings
<1>4. \A k \in Bindless!Kind : Bindless!PoolOf(k) \in Bindless!Pool
  BY <1>1, <1>2 DEF Bindless!Pool
<1>5. \A k \in Bindless!Kind : Bindless!Bindings(k) \subseteq Bindless!Binding
  BY <1>1, <1>3 DEF Bindless!Binding
<1>6. \A k, l \in Bindless!Kind : \A b : b \in Bindless!Bindings(k) /\ b \in Bindless!Bindings(l) => k = l
  BY <1>1, <1>3
<1> QED
  BY <1>4, <1>5, <1>6

(* What DescriptorTypes says of what the variables hold.                   *)
LEMMA DescriptorFacts ==
  ASSUME DescriptorTypes, Sizes
  PROVE  /\ bindlessNextIndex \in [Bindless!Pool -> 1 .. MaxIndices]
         /\ freeIndices \in [Bindless!Pool -> Seq(Bindless!Index)]
         /\ descriptors \in [Bindless!Binding -> [Bindless!Index -> 0 .. MaxObjects]]
         /\ objects \subseteq 1 .. MaxObjects /\ made \in 0 .. MaxObjects
         /\ bindlessLive \subseteq Bindless!Handle
         /\ bindlessCondemned \in Seq(Bindless!Handle) /\ Len(bindlessCondemned) \in Nat
         /\ Doomed \subseteq Bindless!Handle /\ Held \subseteq Bindless!Handle
         /\ reads \in [Work -> SUBSET Bindless!Handle]
         /\ \A h \in Bindless!Handle :
              /\ h.kind \in Bindless!Kind /\ h.index \in Bindless!Index /\ h.object \in 1 .. MaxObjects
              /\ h.index \in Nat /\ h.object \in Nat
              /\ Bindless!PoolOf(h.kind) \in Bindless!Pool
         /\ \A p \in Bindless!Pool :
              /\ freeIndices[p] \in Seq(Bindless!Index) /\ Len(freeIndices[p]) \in Nat
              /\ Vacant(p) \subseteq Bindless!Index /\ bindlessNextIndex[p] \in 1 .. MaxIndices
<1>1. /\ bindlessNextIndex \in [Bindless!Pool -> 1 .. MaxIndices]
      /\ freeIndices \in [Bindless!Pool -> Seq(Bindless!Index)]
      /\ descriptors \in [Bindless!Binding -> [Bindless!Index -> 0 .. MaxObjects]]
      /\ objects \subseteq 1 .. MaxObjects /\ made \in 0 .. MaxObjects
      /\ bindlessLive \subseteq Bindless!Handle
      /\ bindlessCondemned \in Seq(Bindless!Handle)
      /\ reads \in [Work -> SUBSET Bindless!Handle]
  BY DEF DescriptorTypes, Bindless!TypeOK
<1>2. Len(bindlessCondemned) \in Nat /\ Doomed \subseteq Bindless!Handle /\ Held \subseteq Bindless!Handle
  BY <1>1, LenProperties, ElementOfSeq DEF Doomed, Held
<1>3. \A h \in Bindless!Handle :
        /\ h.kind \in Bindless!Kind /\ h.index \in Bindless!Index /\ h.object \in 1 .. MaxObjects
        /\ h.index \in Nat /\ h.object \in Nat
  <2>1. \A h \in Bindless!Handle : h.kind \in Bindless!Kind /\ h.index \in Bindless!Index /\ h.object \in 1 .. MaxObjects
    BY DEF Bindless!Handle
  <2>2. \A i \in Bindless!Index : i \in Nat
    BY DEF Bindless!Index, Sizes
  <2>3. \A i \in 1 .. MaxObjects : i \in Nat
    BY DEF Sizes
  <2> QED
    BY <2>1, <2>2, <2>3
<1>4. \A h \in Bindless!Handle : Bindless!PoolOf(h.kind) \in Bindless!Pool
  BY <1>3, KindsApart
<1>5. \A p \in Bindless!Pool : freeIndices[p] \in Seq(Bindless!Index)
  BY <1>1
<1>6. \A p \in Bindless!Pool : Len(freeIndices[p]) \in Nat /\ Vacant(p) \subseteq Bindless!Index
  BY <1>5, LenProperties, ElementOfSeq DEF Vacant
<1>7. \A p \in Bindless!Pool : bindlessNextIndex[p] \in 1 .. MaxIndices
  BY <1>1
<1> QED
  BY <1>1, <1>2, <1>3, <1>4, <1>5, <1>6, <1>7

(* A handle of a pool is held.                                             *)
LEMMA HeldInHeld ==
  ASSUME DescriptorTypes, Sizes
  PROVE  /\ \A p : \A h \in HeldIn(p) : h \in Held /\ h \in Bindless!Handle /\ Bindless!PoolOf(h.kind) = p
         /\ \A h \in Held : h \in HeldIn(Bindless!PoolOf(h.kind)) /\ Bindless!PoolOf(h.kind) \in Bindless!Pool
  BY DescriptorFacts DEF HeldIn

(* A slot is taken: the index was vacant, or the next one.                 *)
LEMMA SlotTaken ==
  ASSUME Sizes, DescriptorInv, NEW p \in Bindless!Pool, NEW i \in Bindless!Index, Bindless!NewSlot(p, i)
  PROVE  /\ bindlessNextIndex' \in [Bindless!Pool -> 1 .. MaxIndices]
         /\ freeIndices' \in [Bindless!Pool -> Seq(Bindless!Index)]
         /\ \A q \in Bindless!Pool : q # p => bindlessNextIndex'[q] = bindlessNextIndex[q] /\ freeIndices'[q] = freeIndices[q]
         /\ \A h \in HeldIn(p) : h.index # i
         /\ \A j, k \in 1 .. Len(freeIndices'[p]) : freeIndices'[p][j] = freeIndices'[p][k] => j = k
         /\ Vacant(p)' = Vacant(p) \ {i}
         /\ 1 .. bindlessNextIndex'[p] - 1 = (1 .. bindlessNextIndex[p] - 1) \cup {i}
         /\ Len(freeIndices'[p]) - (bindlessNextIndex'[p] - 1) = Len(freeIndices[p]) - (bindlessNextIndex[p] - 1) - 1
<1> DEFINE f == freeIndices[p]
           n == bindlessNextIndex[p]
<1>1. f \in Seq(Bindless!Index) /\ Len(f) \in Nat /\ n \in 1 .. MaxIndices /\ n \in Nat
  <2>1. n \in 1 .. MaxIndices
    BY DescriptorFacts DEF DescriptorInv
  <2> QED
    BY <2>1, DescriptorFacts DEF DescriptorInv, Sizes
<1>2. /\ \A j, k \in 1 .. Len(f) : f[j] = f[k] => j = k
      /\ \A h \in HeldIn(p) : h.index \notin Vacant(p)
      /\ Vacant(p) \cup {h.index : h \in HeldIn(p)} = 1 .. n - 1
  BY DEF DescriptorInv, IndicesKept
<1>3. CASE f = <<>>
  <2>1. /\ n < MaxIndices /\ i = n
        /\ bindlessNextIndex' = [bindlessNextIndex EXCEPT ![p] = @ + 1]
        /\ freeIndices' = freeIndices
    BY <1>3 DEF Bindless!NewSlot
  <2>2. bindlessNextIndex'[p] = n + 1 /\ n + 1 \in 1 .. MaxIndices /\ \A q \in Bindless!Pool : q # p => bindlessNextIndex'[q] = bindlessNextIndex[q]
    BY <1>1, <2>1, DescriptorFacts DEF DescriptorInv, Sizes
  <2>3. bindlessNextIndex' \in [Bindless!Pool -> 1 .. MaxIndices]
    BY <2>1, <2>2, DescriptorFacts DEF DescriptorInv
  <2>4. Vacant(p) = {} /\ Vacant(p)' = {}
    BY <1>3, <2>1 DEF Vacant
  <2>5. 1 .. n + 1 - 1 = (1 .. n - 1) \cup {n} /\ n \notin 1 .. n - 1
    BY <1>1
  <2>6. \A h \in HeldIn(p) : h.index # i
    BY <1>2, <2>1, <2>5
  <2>7. freeIndices'[p] = f /\ freeIndices' \in [Bindless!Pool -> Seq(Bindless!Index)]
    BY <2>1, DescriptorFacts DEF DescriptorInv
  <2>8. Len(f) - (n + 1 - 1) = Len(f) - (n - 1) - 1
    BY <1>1
  <2> HIDE DEF f, n
  <2> QED
    BY <1>2, <2>1, <2>2, <2>3, <2>4, <2>5, <2>6, <2>7, <2>8 DEF f, n
<1>4. CASE f # <<>>
  <2>1. \A s : Bindless!Front(s) = Front(s) /\ Bindless!Last(s) = Last(s)
    BY DEF Bindless!Front, Front, Bindless!Last, Last
  <2>2. /\ i = Last(f) /\ freeIndices' = [freeIndices EXCEPT ![p] = Front(@)]
        /\ bindlessNextIndex' = bindlessNextIndex
    BY <1>4, <2>1 DEF Bindless!NewSlot
  <2>3. /\ Len(f) \in Nat \ {0} /\ Last(f) = f[Len(f)] /\ Front(f) \in Seq(Bindless!Index)
        /\ Len(Front(f)) = Len(f) - 1
        /\ \A k \in 1 .. Len(f) - 1 : Front(f)[k] = f[k]
    BY <1>1, <1>4, FrontLastElements, FrontLastType
  <2>4. freeIndices'[p] = Front(f) /\ \A q \in Bindless!Pool : q # p => freeIndices'[q] = freeIndices[q]
    BY <2>2, DescriptorFacts DEF DescriptorInv
  <2>5. freeIndices' \in [Bindless!Pool -> Seq(Bindless!Index)]
    BY <2>2, <2>3, DescriptorFacts DEF DescriptorInv
  <2>6. Len(f) \in 1 .. Len(f) /\ i = f[Len(f)] /\ \A k \in 1 .. Len(f) - 1 : k \in 1 .. Len(f) /\ f[k] # i
    BY <1>2, <2>2, <2>3
  <2>7. i \in Vacant(p)
    BY <2>6 DEF Vacant
  <2>8. Vacant(p)' = Vacant(p) \ {i}
    <3>1. Vacant(p)' = {Front(f)[k] : k \in 1 .. Len(f) - 1}
      BY <2>3, <2>4 DEF Vacant
    <3>2. {Front(f)[k] : k \in 1 .. Len(f) - 1} = {f[k] : k \in 1 .. Len(f) - 1}
      BY <2>3
    <3>3. \A k \in 1 .. Len(f) : k \in 1 .. Len(f) - 1 \/ f[k] = i
      BY <2>3, <2>6
    <3>4. {f[k] : k \in 1 .. Len(f) - 1} = {f[k] : k \in 1 .. Len(f)} \ {i}
      BY <2>6, <3>3
    <3> QED
      BY <3>1, <3>2, <3>4 DEF Vacant
  <2>9. \A h \in HeldIn(p) : h.index # i
    BY <1>2, <2>7
  <2>10. (1 .. n - 1) \cup {i} = 1 .. n - 1
    BY <1>2, <2>7
  <2>11. \A j, k \in 1 .. Len(freeIndices'[p]) : freeIndices'[p][j] = freeIndices'[p][k] => j = k
    <3>1. \A j, k \in 1 .. Len(f) - 1 : Front(f)[j] = Front(f)[k] => j = k
      BY <1>2, <2>3, <2>6
    <3> QED
      BY <2>3, <2>4, <3>1
  <2>12. Len(freeIndices'[p]) - (n - 1) = Len(f) - (n - 1) - 1
    <3>1. Len(freeIndices'[p]) = Len(f) - 1
      BY <2>3, <2>4
    <3>2. \A a, b \in Nat : a - 1 - (b - 1) = a - (b - 1) - 1
      OBVIOUS
    <3>3. Len(f) - 1 - (n - 1) = Len(f) - (n - 1) - 1
      BY <1>1, <3>2
    <3> QED
      BY <3>1, <3>3
  <2> HIDE DEF f, n
  <2> QED
    BY <2>2, <2>4, <2>5, <2>8, <2>9, <2>10, <2>11, <2>12, DescriptorFacts DEF f, n, DescriptorInv
<1> QED
  BY <1>3, <1>4

(* A slot is given back: its index is vacant again.                        *)
LEMMA SlotReturned ==
  ASSUME Sizes, DescriptorInv, NEW p \in Bindless!Pool, NEW h \in HeldIn(p),
         freeIndices' = [freeIndices EXCEPT ![p] = Append(@, h.index)]
  PROVE  /\ freeIndices' \in [Bindless!Pool -> Seq(Bindless!Index)]
         /\ \A q \in Bindless!Pool : q # p => freeIndices'[q] = freeIndices[q]
         /\ \A j, k \in 1 .. Len(freeIndices'[p]) : freeIndices'[p][j] = freeIndices'[p][k] => j = k
         /\ Vacant(p)' = Vacant(p) \cup {h.index}
         /\ Len(freeIndices'[p]) = Len(freeIndices[p]) + 1
<1> DEFINE f == freeIndices[p]
<1>1. f \in Seq(Bindless!Index) /\ h.index \in Bindless!Index
  BY DescriptorFacts, HeldInHeld DEF DescriptorInv
<1>2. freeIndices'[p] = Append(f, h.index) /\ \A q \in Bindless!Pool : q # p => freeIndices'[q] = freeIndices[q]
  BY DescriptorFacts DEF DescriptorInv
<1>3. /\ Append(f, h.index) \in Seq(Bindless!Index) /\ Len(f) \in Nat /\ Len(Append(f, h.index)) = Len(f) + 1
      /\ \A i \in 1 .. Len(f) : i \in 1 .. Len(Append(f, h.index)) /\ Append(f, h.index)[i] = f[i]
      /\ \A i \in 1 .. Len(Append(f, h.index)) :
           \/ i \in 1 .. Len(f) /\ Append(f, h.index)[i] = f[i]
           \/ i = Len(f) + 1 /\ Append(f, h.index)[i] = h.index
  BY <1>1, AppendElements
<1>4. /\ \A j, k \in 1 .. Len(f) : f[j] = f[k] => j = k
      /\ \A j \in 1 .. Len(f) : f[j] # h.index
  BY DEF DescriptorInv, IndicesKept, Vacant
<1>5. freeIndices' \in [Bindless!Pool -> Seq(Bindless!Index)]
  BY <1>3, DescriptorFacts DEF DescriptorInv
<1>6. PICK s : s = Append(f, h.index)
  OBVIOUS
<1>10. /\ Len(s) = Len(f) + 1
       /\ \A i \in 1 .. Len(f) : i \in 1 .. Len(s) /\ s[i] = f[i]
       /\ \A i \in 1 .. Len(s) :
            \/ i \in 1 .. Len(f) /\ s[i] = f[i]
            \/ i = Len(f) + 1 /\ s[i] = h.index
  <2> HIDE DEF f
  <2> QED
    BY <1>3, <1>6
<1>7. \A j, k \in 1 .. Len(s) : s[j] = s[k] => j = k
  BY <1>3, <1>4, <1>6
<1>8. {s[k] : k \in 1 .. Len(s)} = {f[k] : k \in 1 .. Len(f)} \cup {h.index}
  <2>1. Len(f) + 1 \in 1 .. Len(s) /\ s[Len(f) + 1] = h.index
    BY <1>3, <1>6
  <2>2. \A k \in 1 .. Len(f) : k \in 1 .. Len(s) /\ s[k] = f[k]
    BY <1>10
  <2>3. \A k \in 1 .. Len(s) : s[k] = h.index \/ (k \in 1 .. Len(f) /\ s[k] = f[k])
    BY <1>10
  <2> QED
    BY <2>1, <2>2, <2>3
<1> HIDE DEF f
<1>9. freeIndices'[p] = s /\ Len(s) = Len(f) + 1
  BY <1>2, <1>3, <1>6
<1>11. Vacant(p)' = {s[k] : k \in 1 .. Len(s)} /\ Vacant(p) = {f[k] : k \in 1 .. Len(f)}
  BY <1>9 DEF f, Vacant
<1>12. \A j, k \in 1 .. Len(freeIndices'[p]) : freeIndices'[p][j] = freeIndices'[p][k] => j = k
  BY <1>7, <1>9
<1>13. Vacant(p)' = Vacant(p) \cup {h.index}
  BY <1>8, <1>11
<1>14. Len(freeIndices'[p]) = Len(freeIndices[p]) + 1
  BY <1>9 DEF f
<1> QED
  BY <1>2, <1>5, <1>12, <1>13, <1>14

(* CreateBufferResource and the others like it keep DescriptorInv.         *)
LEMMA CreateStep ==
  ASSUME Sizes, DescriptorInv, NEW kind \in Bindless!Kind, Bindless!Create(kind) PROVE DescriptorInv'
<1> DEFINE p == Bindless!PoolOf(kind)
<1>1. PICK i \in Bindless!Index :
        /\ made < MaxObjects /\ Bindless!NewSlot(p, i) /\ made' = made + 1
        /\ objects' = objects \cup {made'}
        /\ descriptors' = [b \in Bindless!Binding |->
             IF b \in Bindless!Bindings(kind) THEN [descriptors[b] EXCEPT ![i] = made'] ELSE descriptors[b]]
        /\ bindlessLive' = bindlessLive \cup {[kind |-> kind, index |-> i, object |-> made']}
        /\ bindlessCondemned' = bindlessCondemned /\ reads' = reads
  BY DEF Bindless!Create
<1>2. p \in Bindless!Pool
  BY KindsApart
<1>3. made' \in 1 .. MaxObjects /\ made < made' /\ made \in Nat /\ made' \in Nat
  BY <1>1, DescriptorFacts DEF DescriptorInv, Sizes
<1>4. PICK h \in Bindless!Handle : h = [kind |-> kind, index |-> i, object |-> made']
  BY <1>1, <1>3 DEF Bindless!Handle
<1>5. h.kind = kind /\ h.index = i /\ h.object = made'
  BY <1>4
<1> HIDE DEF p
<1>6. Doomed' = Doomed /\ Held' = Held \cup {h} /\ bindlessLive' = bindlessLive \cup {h}
  BY <1>1, <1>4 DEF Held, Doomed
<1>7. /\ bindlessNextIndex' \in [Bindless!Pool -> 1 .. MaxIndices]
      /\ freeIndices' \in [Bindless!Pool -> Seq(Bindless!Index)]
      /\ \A q \in Bindless!Pool : q # p => bindlessNextIndex'[q] = bindlessNextIndex[q] /\ freeIndices'[q] = freeIndices[q]
      /\ \A g \in HeldIn(p) : g.index # i
      /\ \A j, k \in 1 .. Len(freeIndices'[p]) : freeIndices'[p][j] = freeIndices'[p][k] => j = k
      /\ Vacant(p)' = Vacant(p) \ {i}
      /\ 1 .. bindlessNextIndex'[p] - 1 = (1 .. bindlessNextIndex[p] - 1) \cup {i}
      /\ Len(freeIndices'[p]) - (bindlessNextIndex'[p] - 1) = Len(freeIndices[p]) - (bindlessNextIndex[p] - 1) - 1
  BY <1>1, <1>2, SlotTaken
<1>8. \A g \in Held : g \in Bindless!Handle /\ g.object <= made /\ g.object \in Nat
  BY DescriptorFacts DEF DescriptorInv, ObjectsKept
<1>9. h \notin Held /\ \A g \in Held : g.object # h.object
  BY <1>3, <1>5, <1>8
<1>10. HeldIn(p)' = HeldIn(p) \cup {h} /\ \A q \in Bindless!Pool : q # p => HeldIn(q)' = HeldIn(q)
  BY <1>5, <1>6 DEF HeldIn, p
<1>11. DescriptorTypes'
  <2>1. descriptors' \in [Bindless!Binding -> [Bindless!Index -> 0 .. MaxObjects]]
    <3>1. made' \in 0 .. MaxObjects
      BY <1>3
    <3>2. \A b \in Bindless!Binding : descriptors[b] \in [Bindless!Index -> 0 .. MaxObjects]
      BY DescriptorFacts DEF DescriptorInv
    <3>3. \A b \in Bindless!Binding : [descriptors[b] EXCEPT ![i] = made'] \in [Bindless!Index -> 0 .. MaxObjects]
      BY <3>1, <3>2
    <3> QED
      BY <1>1, <3>2, <3>3
  <2>2. bindlessLive' \subseteq Bindless!Handle /\ objects' \subseteq 1 .. MaxObjects /\ made' \in 0 .. MaxObjects
    BY <1>1, <1>3, <1>6, DescriptorFacts DEF DescriptorInv
  <2>3. bindlessCondemned' \in Seq(Bindless!Handle) /\ reads' \in [Work -> SUBSET Bindless!Handle]
    BY <1>1, DescriptorFacts DEF DescriptorInv
  <2> QED
    BY <1>7, <2>1, <2>2, <2>3 DEF DescriptorTypes, Bindless!TypeOK, Bindless!Handle, Bindless!Index, Bindless!Pool, Bindless!Binding, Bindless!Kind
<1>12. HeldOnce'
  <2>1. \A k \in 1 .. Len(bindlessCondemned) : bindlessCondemned[k] \in Held
    BY DEF Held, Doomed
  <2>2. /\ \A j, k \in 1 .. Len(bindlessCondemned') : bindlessCondemned'[j] = bindlessCondemned'[k] => j = k
        /\ \A k \in 1 .. Len(bindlessCondemned') : bindlessCondemned'[k] \notin bindlessLive'
    BY <1>1, <1>6, <1>9, <2>1 DEF DescriptorInv, HeldOnce
  <2>3. \A f, g \in Held' : f.object = g.object => f = g
    BY <1>6, <1>9 DEF DescriptorInv, HeldOnce
  <2>4. \A g \in Held : Bindless!PoolOf(g.kind) = p => g.index # i
    BY <1>7 DEF HeldIn
  <2>5. \A f, g \in Held' : Bindless!PoolOf(f.kind) = Bindless!PoolOf(g.kind) /\ f.index = g.index => f = g
    BY <1>5, <1>6, <2>4 DEF DescriptorInv, HeldOnce, p
  <2> QED
    BY <2>2, <2>3, <2>5 DEF HeldOnce
<1>13. IndicesKept'
  <2> SUFFICES ASSUME NEW q \in Bindless!Pool
               PROVE  /\ \A j, k \in 1 .. Len(freeIndices'[q]) : freeIndices'[q][j] = freeIndices'[q][k] => j = k
                      /\ \A g \in HeldIn(q)' : g.index \notin Vacant(q)'
                      /\ Vacant(q)' \cup {g.index : g \in HeldIn(q)'} = 1 .. bindlessNextIndex'[q] - 1
                      /\ IsFiniteSet(HeldIn(q)')
                      /\ Len(freeIndices'[q]) + Cardinality(HeldIn(q)') = bindlessNextIndex'[q] - 1
    BY DEF IndicesKept
  <2>1. CASE q # p
    <3>1. HeldIn(q)' = HeldIn(q) /\ freeIndices'[q] = freeIndices[q] /\ bindlessNextIndex'[q] = bindlessNextIndex[q]
      BY <1>7, <1>10, <2>1
    <3>2. Vacant(q)' = Vacant(q)
      BY <3>1 DEF Vacant
    <3> QED
      BY <3>1, <3>2 DEF DescriptorInv, IndicesKept
  <2>2. CASE q = p
    <3>1. /\ \A g \in HeldIn(p) : g.index \notin Vacant(p)
          /\ Vacant(p) \cup {g.index : g \in HeldIn(p)} = 1 .. bindlessNextIndex[p] - 1
          /\ IsFiniteSet(HeldIn(p))
          /\ Len(freeIndices[p]) + Cardinality(HeldIn(p)) = bindlessNextIndex[p] - 1
      BY <1>2 DEF DescriptorInv, IndicesKept
    <3>2. \A g \in HeldIn(p)' : g.index \notin Vacant(p)'
      BY <1>5, <1>7, <1>10, <3>1
    <3>3. Vacant(p)' \cup {g.index : g \in HeldIn(p)'} = 1 .. bindlessNextIndex'[p] - 1
      <4>1. {g.index : g \in HeldIn(p)'} = {g.index : g \in HeldIn(p)} \cup {i}
        BY <1>5, <1>10
      <4> QED
        BY <1>7, <3>1, <4>1
    <3>4. h \notin HeldIn(p)
      BY <1>9 DEF HeldIn
    <3>5. IsFiniteSet(HeldIn(p)') /\ Cardinality(HeldIn(p)') = Cardinality(HeldIn(p)) + 1
      BY <1>10, <3>1, <3>4, FS_AddElement
    <3>6. Len(freeIndices'[p]) + Cardinality(HeldIn(p)') = bindlessNextIndex'[p] - 1
      <4>1. Len(freeIndices'[p]) \in Nat /\ bindlessNextIndex'[p] \in Nat
        BY <1>2, <1>7, LenProperties DEF Sizes
      <4>2. Len(freeIndices[p]) \in Nat /\ bindlessNextIndex[p] \in Nat
        BY <1>2, DescriptorFacts DEF DescriptorInv, Sizes
      <4>3. Cardinality(HeldIn(p)) \in Nat
        BY <3>1, FS_CardinalityType
      <4>4. PICK a, b, c, d, e \in Nat : /\ a = Len(freeIndices'[p]) /\ b = bindlessNextIndex'[p]
                                         /\ c = Len(freeIndices[p]) /\ d = bindlessNextIndex[p]
                                         /\ e = Cardinality(HeldIn(p))
        BY <4>1, <4>2, <4>3
      <4>5. a - (b - 1) = c - (d - 1) - 1 /\ c + e = d - 1
        BY <1>7, <3>1, <4>4
      <4>6. a + (e + 1) = b - 1
        BY <4>5
      <4> QED
        BY <3>5, <4>4, <4>6
    <3> QED
      BY <1>7, <2>2, <3>2, <3>3, <3>5, <3>6
  <2> QED
    BY <2>1, <2>2
<1>14. ObjectsKept'
  <2>1. objects' = {g.object : g \in Held'}
    BY <1>1, <1>5, <1>6 DEF DescriptorInv, ObjectsKept
  <2>2. \A g \in Held' : g.object <= made'
    BY <1>3, <1>5, <1>6, <1>8
  <2> QED
    BY <2>1, <2>2 DEF ObjectsKept
<1>15. Written'
  <2> SUFFICES ASSUME NEW g \in Held', NEW b \in Bindless!Bindings(g.kind)
               PROVE  descriptors'[b][g.index] = g.object
    BY DEF Written
  <2>1. g \in Bindless!Handle /\ g.kind \in Bindless!Kind /\ b \in Bindless!Binding /\ g.index \in Bindless!Index
    BY <1>6, DescriptorFacts, KindsApart DEF DescriptorInv
  <2>2. descriptors[b] \in [Bindless!Index -> 0 .. MaxObjects]
    BY <2>1, DescriptorFacts DEF DescriptorInv
  <2>3. CASE g = h
    BY <1>1, <1>5, <2>1, <2>2, <2>3
  <2>4. CASE g # h
    <3>1. g \in Held /\ descriptors[b][g.index] = g.object
      BY <1>6, <2>4 DEF DescriptorInv, Written
    <3>2. b \in Bindless!Bindings(kind) => g.index # i
      <4>1. b \in Bindless!Bindings(kind) => Bindless!PoolOf(g.kind) = p
        BY <2>1, KindsApart DEF p
      <4> QED
        BY <1>7, <3>1, <4>1 DEF HeldIn
    <3>3. descriptors'[b] = IF b \in Bindless!Bindings(kind) THEN [descriptors[b] EXCEPT ![i] = made'] ELSE descriptors[b]
      BY <1>1, <2>1
    <3> QED
      BY <2>1, <2>2, <3>1, <3>2, <3>3
  <2> QED
    BY <2>3, <2>4
<1>16. ReadHeld'
  BY <1>1, <1>6 DEF DescriptorInv, ReadHeld
<1> QED
  BY <1>11, <1>12, <1>13, <1>14, <1>15, <1>16 DEF DescriptorInv

(* Recording and finishing work keeps DescriptorInv.                       *)
LEMMA WorkSteps ==
  ASSUME Sizes, DescriptorInv, NEW w \in Work, Bindless!Submit(w) \/ Bindless!Complete(w) PROVE DescriptorInv'
<1>1. /\ bindlessNextIndex' = bindlessNextIndex /\ freeIndices' = freeIndices /\ descriptors' = descriptors
      /\ objects' = objects /\ made' = made /\ bindlessLive' = bindlessLive /\ bindlessCondemned' = bindlessCondemned
  BY DEF Bindless!Submit, Bindless!Complete
<1>2. PICK used \in SUBSET bindlessLive : reads' = [reads EXCEPT ![w] = used]
  BY DEF Bindless!Submit, Bindless!Complete
<1>3. Doomed' = Doomed /\ Held' = Held /\ \A p : HeldIn(p)' = HeldIn(p) /\ Vacant(p)' = Vacant(p)
  BY <1>1 DEF Doomed, Held, HeldIn, Vacant
<1>4. \A v \in Work : reads'[v] \subseteq Held /\ reads' \in [Work -> SUBSET Bindless!Handle]
  BY <1>2, DescriptorFacts DEF DescriptorInv, ReadHeld, Held
<1>5. DescriptorTypes'
  <2>1. reads' \in [Work -> SUBSET Bindless!Handle]
    BY <1>2, DescriptorFacts DEF DescriptorInv
  <2> QED
    BY <1>1, <2>1 DEF DescriptorInv, DescriptorTypes, Bindless!TypeOK, Bindless!Handle, Bindless!Index, Bindless!Pool, Bindless!Binding, Bindless!Kind
<1>6. HeldOnce' /\ IndicesKept' /\ ObjectsKept' /\ Written'
  BY <1>1, <1>3 DEF DescriptorInv, HeldOnce, IndicesKept, ObjectsKept, Written
<1>7. ReadHeld'
  BY <1>3, <1>4 DEF ReadHeld
<1> QED
  BY <1>5, <1>6, <1>7 DEF DescriptorInv

(* A deferred destruction keeps DescriptorInv.                             *)
LEMMA HandleDestroyDeferredStep ==
  ASSUME Sizes, DescriptorInv, NEW h \in bindlessLive, Bindless!DestroyDeferred(h) PROVE DescriptorInv'
<1>1. /\ bindlessLive' = bindlessLive \ {h} /\ bindlessCondemned' = Append(bindlessCondemned, h)
      /\ bindlessNextIndex' = bindlessNextIndex /\ freeIndices' = freeIndices /\ descriptors' = descriptors
      /\ objects' = objects /\ made' = made /\ reads' = reads
  BY DEF Bindless!DestroyDeferred
<1>2. bindlessCondemned \in Seq(Bindless!Handle) /\ h \in Bindless!Handle
  BY DescriptorFacts DEF DescriptorInv
<1>3. PICK s : s = Append(bindlessCondemned, h)
  OBVIOUS
<1>4. /\ s \in Seq(Bindless!Handle) /\ Len(bindlessCondemned) \in Nat /\ Len(s) = Len(bindlessCondemned) + 1
      /\ \A i \in 1 .. Len(bindlessCondemned) : i \in 1 .. Len(s) /\ s[i] = bindlessCondemned[i]
      /\ \A i \in 1 .. Len(s) :
           \/ i \in 1 .. Len(bindlessCondemned) /\ s[i] = bindlessCondemned[i]
           \/ i = Len(bindlessCondemned) + 1 /\ s[i] = h
  BY <1>2, <1>3, AppendElements
<1>5. bindlessCondemned' = s
  BY <1>1, <1>3
<1>6. \A i \in 1 .. Len(bindlessCondemned) : bindlessCondemned[i] # h
  BY DEF DescriptorInv, HeldOnce
<1>7. Doomed' = Doomed \cup {h}
  <2>1. Len(bindlessCondemned) + 1 \in 1 .. Len(s) /\ s[Len(bindlessCondemned) + 1] = h
    BY <1>4
  <2>2. {s[k] : k \in 1 .. Len(s)} = {bindlessCondemned[k] : k \in 1 .. Len(bindlessCondemned)} \cup {h}
    BY <1>4, <2>1
  <2> QED
    BY <1>5, <2>2 DEF Doomed
<1>8. Held' = Held
  BY <1>1, <1>7 DEF Held
<1>9. \A p : HeldIn(p)' = HeldIn(p) /\ Vacant(p)' = Vacant(p)
  BY <1>1, <1>8 DEF HeldIn, Vacant
<1>10. DescriptorTypes'
  <2>1. bindlessLive' \subseteq Bindless!Handle /\ bindlessCondemned' \in Seq(Bindless!Handle)
    BY <1>1, <1>4, <1>5, DescriptorFacts DEF DescriptorInv
  <2> QED
    BY <1>1, <2>1 DEF DescriptorInv, DescriptorTypes, Bindless!TypeOK, Bindless!Handle, Bindless!Index, Bindless!Pool, Bindless!Binding, Bindless!Kind
<1>11. HeldOnce'
  <2>1. /\ \A i, j \in 1 .. Len(bindlessCondemned) : bindlessCondemned[i] = bindlessCondemned[j] => i = j
        /\ \A k \in 1 .. Len(bindlessCondemned) : bindlessCondemned[k] \notin bindlessLive
    BY DEF DescriptorInv, HeldOnce
  <2>2. \A i, j \in 1 .. Len(s) : s[i] = s[j] => i = j
    BY <1>4, <1>6, <2>1
  <2>3. \A k \in 1 .. Len(s) : s[k] \notin bindlessLive \ {h}
    BY <1>4, <2>1
  <2> QED
    BY <1>1, <1>5, <1>8, <2>2, <2>3 DEF DescriptorInv, HeldOnce
<1>12. IndicesKept' /\ ObjectsKept' /\ Written' /\ ReadHeld'
  BY <1>1, <1>8, <1>9 DEF DescriptorInv, IndicesKept, ObjectsKept, Written, ReadHeld
<1> QED
  BY <1>10, <1>11, <1>12 DEF DescriptorInv

(* A handle is destroyed that nothing under way reads.                     *)
LEMMA HandleGone ==
  ASSUME Sizes, DescriptorInv, NEW h \in Held, Bindless!Idle(h), Bindless!Destroy(h),
         Held' = Held \ {h}, bindlessLive' \subseteq Bindless!Handle, bindlessCondemned' \in Seq(Bindless!Handle)
  PROVE  /\ DescriptorTypes' /\ IndicesKept' /\ ObjectsKept' /\ Written' /\ ReadHeld'
         /\ \A f, g \in Held' : f.object = g.object => f = g
         /\ \A f, g \in Held' : Bindless!PoolOf(f.kind) = Bindless!PoolOf(g.kind) /\ f.index = g.index => f = g
<1>1. PICK p \in Bindless!Pool : p = Bindless!PoolOf(h.kind)
  BY DescriptorFacts DEF DescriptorInv
<1>2. /\ objects' = objects \ {h.object}
      /\ freeIndices' = [freeIndices EXCEPT ![p] = Append(@, h.index)]
      /\ bindlessNextIndex' = bindlessNextIndex /\ descriptors' = descriptors /\ made' = made /\ reads' = reads
  BY <1>1 DEF Bindless!Destroy
<1>3. h \in HeldIn(p)
  BY <1>1 DEF HeldIn
<1>4. /\ freeIndices' \in [Bindless!Pool -> Seq(Bindless!Index)]
      /\ \A q \in Bindless!Pool : q # p => freeIndices'[q] = freeIndices[q]
      /\ \A j, k \in 1 .. Len(freeIndices'[p]) : freeIndices'[p][j] = freeIndices'[p][k] => j = k
      /\ Vacant(p)' = Vacant(p) \cup {h.index}
      /\ Len(freeIndices'[p]) = Len(freeIndices[p]) + 1
  BY <1>2, <1>3, SlotReturned
<1>5. HeldIn(p)' = HeldIn(p) \ {h} /\ \A q \in Bindless!Pool : q # p => HeldIn(q)' = HeldIn(q)
  BY <1>1 DEF HeldIn
<1>6. /\ \A f, g \in Held : f.object = g.object => f = g
      /\ \A f, g \in Held : Bindless!PoolOf(f.kind) = Bindless!PoolOf(g.kind) /\ f.index = g.index => f = g
  BY DEF DescriptorInv, HeldOnce
<1>7. DescriptorTypes'
  <2>1. objects' \subseteq 1 .. MaxObjects
    BY <1>2, DescriptorFacts DEF DescriptorInv
  <2> QED
    BY <1>2, <1>4, <2>1 DEF DescriptorInv, DescriptorTypes, Bindless!TypeOK, Bindless!Handle, Bindless!Index, Bindless!Pool, Bindless!Binding, Bindless!Kind
<1>8. IndicesKept'
  <2> SUFFICES ASSUME NEW q \in Bindless!Pool
               PROVE  /\ \A j, k \in 1 .. Len(freeIndices'[q]) : freeIndices'[q][j] = freeIndices'[q][k] => j = k
                      /\ \A g \in HeldIn(q)' : g.index \notin Vacant(q)'
                      /\ Vacant(q)' \cup {g.index : g \in HeldIn(q)'} = 1 .. bindlessNextIndex'[q] - 1
                      /\ IsFiniteSet(HeldIn(q)')
                      /\ Len(freeIndices'[q]) + Cardinality(HeldIn(q)') = bindlessNextIndex'[q] - 1
    BY DEF IndicesKept
  <2>1. CASE q # p
    <3>1. HeldIn(q)' = HeldIn(q) /\ freeIndices'[q] = freeIndices[q] /\ bindlessNextIndex'[q] = bindlessNextIndex[q]
      BY <1>2, <1>4, <1>5, <2>1
    <3>2. Vacant(q)' = Vacant(q)
      BY <3>1 DEF Vacant
    <3> QED
      BY <3>1, <3>2 DEF DescriptorInv, IndicesKept
  <2>2. CASE q = p
    <3>1. /\ \A g \in HeldIn(p) : g.index \notin Vacant(p)
          /\ Vacant(p) \cup {g.index : g \in HeldIn(p)} = 1 .. bindlessNextIndex[p] - 1
          /\ IsFiniteSet(HeldIn(p))
          /\ Len(freeIndices[p]) + Cardinality(HeldIn(p)) = bindlessNextIndex[p] - 1
      BY DEF DescriptorInv, IndicesKept
    <3>2. \A g \in HeldIn(p)' : g.index # h.index
      BY <1>1, <1>5, <1>6 DEF HeldIn
    <3>3. \A g \in HeldIn(p)' : g.index \notin Vacant(p)'
      BY <1>4, <1>5, <3>1, <3>2
    <3>4. {g.index : g \in HeldIn(p)} = {g.index : g \in HeldIn(p)'} \cup {h.index}
      BY <1>3, <1>5
    <3>5. Vacant(p)' \cup {g.index : g \in HeldIn(p)'} = 1 .. bindlessNextIndex'[p] - 1
      BY <1>2, <1>4, <3>1, <3>4
    <3>6. IsFiniteSet(HeldIn(p)') /\ Cardinality(HeldIn(p)') = Cardinality(HeldIn(p)) - 1
      BY <1>3, <1>5, <3>1, FS_RemoveElement
    <3>7. Len(freeIndices'[p]) + Cardinality(HeldIn(p)') = bindlessNextIndex'[p] - 1
      <4>1. PICK a, c, d \in Nat : a = Len(freeIndices[p]) /\ c = Cardinality(HeldIn(p)) /\ d = bindlessNextIndex[p]
        BY <3>1, FS_CardinalityType, DescriptorFacts DEF DescriptorInv, Sizes
      <4>2. a + c = d - 1
        BY <3>1, <4>1
      <4>3. (a + 1) + (c - 1) = d - 1
        BY <4>2
      <4>4. bindlessNextIndex'[p] = d /\ Len(freeIndices'[p]) = a + 1 /\ Cardinality(HeldIn(p)') = c - 1
        BY <1>2, <1>4, <3>6, <4>1
      <4> QED
        BY <4>3, <4>4
    <3> QED
      BY <1>4, <2>2, <3>3, <3>5, <3>6, <3>7
  <2> QED
    BY <2>1, <2>2
<1>9. ObjectsKept'
  <2>1. objects = {g.object : g \in Held} /\ \A g \in Held : g.object <= made
    BY DEF DescriptorInv, ObjectsKept
  <2>2. objects' = {g.object : g \in Held'}
    BY <1>2, <1>6, <2>1
  <2> QED
    BY <1>2, <2>1, <2>2 DEF ObjectsKept
<1>10. Written' /\ ReadHeld'
  BY <1>2 DEF DescriptorInv, Written, ReadHeld, Bindless!Idle
<1> QED
  BY <1>6, <1>7, <1>8, <1>9, <1>10

(* A destruction at once keeps DescriptorInv.                              *)
LEMMA HandleDestroyAtOnceStep ==
  ASSUME Sizes, DescriptorInv, NEW h \in bindlessLive, Bindless!DestroyAtOnce(h) PROVE DescriptorInv'
<1>1. /\ Bindless!Idle(h) /\ bindlessLive' = bindlessLive \ {h} /\ Bindless!Destroy(h)
      /\ bindlessCondemned' = bindlessCondemned
  BY DEF Bindless!DestroyAtOnce
<1>2. h \notin Doomed /\ h \in Held
  BY DEF DescriptorInv, HeldOnce, Doomed, Held
<1>3. Held' = Held \ {h}
  BY <1>1, <1>2 DEF Held, Doomed
<1>4. bindlessLive' \subseteq Bindless!Handle /\ bindlessCondemned' \in Seq(Bindless!Handle)
  BY <1>1, DescriptorFacts DEF DescriptorInv
<1>5. /\ DescriptorTypes' /\ IndicesKept' /\ ObjectsKept' /\ Written' /\ ReadHeld'
      /\ \A f, g \in Held' : f.object = g.object => f = g
      /\ \A f, g \in Held' : Bindless!PoolOf(f.kind) = Bindless!PoolOf(g.kind) /\ f.index = g.index => f = g
  BY <1>1, <1>2, <1>3, <1>4, HandleGone
<1>6. HeldOnce'
  BY <1>1, <1>5 DEF DescriptorInv, HeldOnce
<1> QED
  BY <1>5, <1>6 DEF DescriptorInv

(* That the collector destroys the next handle keeps DescriptorInv.        *)
LEMMA HandleCollectStep ==
  ASSUME Sizes, DescriptorInv, Bindless!Collect PROVE DescriptorInv'
<1>1. PICK h : h = Head(bindlessCondemned)
  OBVIOUS
<1>2. /\ bindlessCondemned # <<>> /\ Bindless!Idle(h) /\ bindlessCondemned' = Tail(bindlessCondemned)
      /\ Bindless!Destroy(h) /\ bindlessLive' = bindlessLive
  BY <1>1 DEF Bindless!Collect
<1>3. bindlessCondemned \in Seq(Bindless!Handle)
  BY DescriptorFacts DEF DescriptorInv
<1>4. PICK s : s = Tail(bindlessCondemned)
  OBVIOUS
<1>5. /\ s \in Seq(Bindless!Handle) /\ Len(bindlessCondemned) \in Nat \ {0} /\ Len(s) = Len(bindlessCondemned) - 1
      /\ h = bindlessCondemned[1] /\ 1 \in 1 .. Len(bindlessCondemned)
      /\ \A i \in 1 .. Len(s) : i + 1 \in 1 .. Len(bindlessCondemned) /\ s[i] = bindlessCondemned[i + 1]
      /\ \A i \in 1 .. Len(bindlessCondemned) : i # 1 => i - 1 \in 1 .. Len(s) /\ s[i - 1] = bindlessCondemned[i]
  BY <1>1, <1>2, <1>3, <1>4, TailElements
<1>6. bindlessCondemned' = s
  BY <1>2, <1>4
<1>7. /\ \A i, j \in 1 .. Len(bindlessCondemned) : bindlessCondemned[i] = bindlessCondemned[j] => i = j
      /\ \A k \in 1 .. Len(bindlessCondemned) : bindlessCondemned[k] \notin bindlessLive
  BY DEF DescriptorInv, HeldOnce
<1>8. \A i \in 1 .. Len(s) : s[i] # h
  <2> SUFFICES ASSUME NEW i \in 1 .. Len(s), s[i] = h PROVE FALSE
    OBVIOUS
  <2>1. i + 1 \in 1 .. Len(bindlessCondemned) /\ bindlessCondemned[i + 1] = bindlessCondemned[1] /\ i + 1 # 1
    BY <1>5
  <2> QED
    BY <1>5, <1>7, <2>1
<1>9. Doomed' = Doomed \ {h}
  <2>1. \A i \in 1 .. Len(s) : \E j \in 1 .. Len(bindlessCondemned) : s[i] = bindlessCondemned[j]
    BY <1>5
  <2>2. \A i \in 1 .. Len(bindlessCondemned) : bindlessCondemned[i] # h => \E j \in 1 .. Len(s) : s[j] = bindlessCondemned[i]
    BY <1>5
  <2>3. {s[k] : k \in 1 .. Len(s)} = {bindlessCondemned[k] : k \in 1 .. Len(bindlessCondemned)} \ {h}
    BY <1>8, <2>1, <2>2
  <2> QED
    BY <1>6, <2>3 DEF Doomed
<1>10. h \in Held /\ h \notin bindlessLive
  BY <1>5, <1>7 DEF Held, Doomed
<1>11. Held' = Held \ {h}
  BY <1>2, <1>9, <1>10 DEF Held
<1>12. bindlessLive' \subseteq Bindless!Handle /\ bindlessCondemned' \in Seq(Bindless!Handle)
  BY <1>2, <1>5, <1>6, DescriptorFacts DEF DescriptorInv
<1>13. /\ DescriptorTypes' /\ IndicesKept' /\ ObjectsKept' /\ Written' /\ ReadHeld'
       /\ \A f, g \in Held' : f.object = g.object => f = g
       /\ \A f, g \in Held' : Bindless!PoolOf(f.kind) = Bindless!PoolOf(g.kind) /\ f.index = g.index => f = g
  BY <1>2, <1>10, <1>11, <1>12, HandleGone
<1>14. HeldOnce'
  <2>1. \A i, j \in 1 .. Len(s) : s[i] = s[j] => i = j
    <3> SUFFICES ASSUME NEW i \in 1 .. Len(s), NEW j \in 1 .. Len(s), s[i] = s[j] PROVE i = j
      OBVIOUS
    <3>1. i + 1 \in 1 .. Len(bindlessCondemned) /\ j + 1 \in 1 .. Len(bindlessCondemned) /\ bindlessCondemned[i + 1] = bindlessCondemned[j + 1]
      BY <1>5
    <3>2. i + 1 = j + 1
      BY <1>7, <3>1
    <3> QED
      BY <3>2
  <2>2. \A k \in 1 .. Len(s) : s[k] \notin bindlessLive
    BY <1>5, <1>7
  <2> QED
    BY <1>2, <1>6, <1>13, <2>1, <2>2 DEF HeldOnce
<1> QED
  BY <1>13, <1>14 DEF DescriptorInv

(* DescriptorInv holds at the start.                                       *)
LEMMA DescriptorsBegin ==
  ASSUME Sizes, Bindless!Init PROVE DescriptorInv
<1>1. /\ bindlessNextIndex = [p \in Bindless!Pool |-> 1] /\ freeIndices = [p \in Bindless!Pool |-> <<>>]
      /\ descriptors = [b \in Bindless!Binding |-> [i \in Bindless!Index |-> 0]]
      /\ objects = {} /\ made = 0 /\ bindlessLive = {} /\ bindlessCondemned = <<>> /\ reads = [w \in Work |-> {}]
  BY DEF Bindless!Init, Bindless!Unwritten
<1>2. Doomed = {} /\ Held = {} /\ (\A p : HeldIn(p) = {}) /\ \A p \in Bindless!Pool : Vacant(p) = {}
  BY <1>1 DEF Doomed, Held, HeldIn, Vacant
<1>3. DescriptorTypes
  <2>1. bindlessNextIndex \in [Bindless!Pool -> 1 .. MaxIndices] /\ made \in 0 .. MaxObjects
    BY <1>1 DEF Sizes
  <2>2. descriptors \in [Bindless!Binding -> [Bindless!Index -> 0 .. MaxObjects]]
    <3>1. 0 \in 0 .. MaxObjects
      BY DEF Sizes
    <3> QED
      BY <1>1, <3>1
  <2>3. freeIndices \in [Bindless!Pool -> Seq(Bindless!Index)] /\ bindlessCondemned \in Seq(Bindless!Handle)
    BY <1>1
  <2> QED
    BY <1>1, <2>1, <2>2, <2>3 DEF DescriptorTypes, Bindless!TypeOK
<1>4. HeldOnce /\ ObjectsKept /\ Written /\ ReadHeld
  BY <1>1, <1>2 DEF HeldOnce, ObjectsKept, Written, ReadHeld
<1>5. IndicesKept
  <2>1. \A p \in Bindless!Pool : bindlessNextIndex[p] = 1 /\ freeIndices[p] = <<>>
    BY <1>1
  <2>2. 1 .. 1 - 1 = {} /\ Len(<<>>) = 0
    OBVIOUS
  <2> SUFFICES ASSUME NEW p \in Bindless!Pool
               PROVE  /\ \A i, j \in 1 .. Len(freeIndices[p]) : freeIndices[p][i] = freeIndices[p][j] => i = j
                      /\ \A h \in HeldIn(p) : h.index \notin Vacant(p)
                      /\ Vacant(p) \cup {h.index : h \in HeldIn(p)} = 1 .. bindlessNextIndex[p] - 1
                      /\ IsFiniteSet(HeldIn(p))
                      /\ Len(freeIndices[p]) + Cardinality(HeldIn(p)) = bindlessNextIndex[p] - 1
    BY DEF IndicesKept
  <2>3. HeldIn(p) = {} /\ Vacant(p) = {} /\ Len(freeIndices[p]) = 0 /\ bindlessNextIndex[p] = 1
    BY <1>2, <2>1, <2>2
  <2>4. IsFiniteSet(HeldIn(p)) /\ Cardinality(HeldIn(p)) = 0
    BY <2>3, FS_EmptySet
  <2>5. Vacant(p) \cup {h.index : h \in HeldIn(p)} = 1 .. bindlessNextIndex[p] - 1
    BY <2>2, <2>3
  <2>6. \A i, j \in 1 .. Len(freeIndices[p]) : freeIndices[p][i] = freeIndices[p][j] => i = j
    <3>1. \A i \in 1 .. 0 : FALSE
      OBVIOUS
    <3> QED
      BY <2>3, <3>1
  <2> QED
    BY <2>3, <2>4, <2>5, <2>6
<1> QED
  BY <1>3, <1>4, <1>5 DEF DescriptorInv

(* Every step keeps DescriptorInv.                                         *)
LEMMA DescriptorStep ==
  ASSUME Sizes, DescriptorInv, [Bindless!Next]_(Bindless!vars) PROVE DescriptorInv'
<1>1. CASE Bindless!Next
  BY <1>1, CreateStep, WorkSteps, HandleDestroyDeferredStep, HandleDestroyAtOnceStep, HandleCollectStep DEF Bindless!Next
<1>2. CASE UNCHANGED Bindless!vars
  <2>1. /\ bindlessNextIndex' = bindlessNextIndex /\ freeIndices' = freeIndices /\ descriptors' = descriptors
        /\ objects' = objects /\ made' = made /\ bindlessLive' = bindlessLive /\ bindlessCondemned' = bindlessCondemned
        /\ reads' = reads
    BY <1>2 DEF Bindless!vars
  <2>2. Doomed' = Doomed /\ Held' = Held /\ \A p : HeldIn(p)' = HeldIn(p) /\ Vacant(p)' = Vacant(p)
    BY <2>1 DEF Doomed, Held, HeldIn, Vacant
  <2>3. DescriptorTypes'
    BY <2>1 DEF DescriptorInv, DescriptorTypes, Bindless!TypeOK, Bindless!Handle, Bindless!Index, Bindless!Pool, Bindless!Binding, Bindless!Kind
  <2> QED
    BY <2>1, <2>2, <2>3 DEF DescriptorInv, HeldOnce, IndicesKept, ObjectsKept, Written, ReadHeld
<1> QED
  BY <1>1, <1>2

(* What DescriptorInv says of reads, and of what is free or held.          *)
LEMMA DescriptorsTell ==
  ASSUME Sizes, DescriptorInv PROVE Bindless!ReadsFindTheirs /\ Bindless!NothingLeaks
<1>1. Bindless!Waiting = Doomed
  <2>1. DOMAIN bindlessCondemned = 1 .. Len(bindlessCondemned)
    BY DescriptorFacts, LenProperties DEF DescriptorInv
  <2> QED
    BY <2>1 DEF Bindless!Waiting, Doomed
<1>2. Bindless!ReadsFindTheirs
  <2>1. \A w \in Work : \A h \in reads[w] : h \in Held /\ h.object \in objects
    BY DEF DescriptorInv, ReadHeld, ObjectsKept
  <2>2. /\ Bindless!Bindings("buffer") = {"STORAGE_BUFFER"} /\ Bindless!Bindings("image") = {"SAMPLED_IMAGE"}
        /\ Bindless!Bindings("sampler") = {"SAMPLER"} /\ Bindless!Bindings("tlas") = {"ACCELERATION_STRUCTURE"}
    BY DEF Bindless!Bindings
  <2> QED
    BY <2>1, <2>2 DEF Bindless!ReadsFindTheirs, DescriptorInv, Written
<1>3. Bindless!NothingLeaks
  <2>1. \A S : Bindless!Cardinality(S) = Cardinality(S)
    BY DEF Bindless!Cardinality, Cardinality
  <2>2. objects = {h.object : h \in bindlessLive \cup Bindless!Waiting}
    BY <1>1 DEF DescriptorInv, ObjectsKept, Held
  <2>3. \A p \in Bindless!Pool : Bindless!Range(freeIndices[p]) = Vacant(p)
    <3> SUFFICES ASSUME NEW p \in Bindless!Pool PROVE Bindless!Range(freeIndices[p]) = Vacant(p)
      OBVIOUS
    <3>1. DOMAIN freeIndices[p] = 1 .. Len(freeIndices[p])
      BY DescriptorFacts, LenProperties DEF DescriptorInv
    <3> QED
      BY <3>1 DEF Bindless!Range, Vacant
  <2>4. \A p \in Bindless!Pool : {h \in bindlessLive \cup Bindless!Waiting : Bindless!PoolOf(h.kind) = p} = HeldIn(p)
    BY <1>1 DEF HeldIn, Held
  <2>5. \A p \in Bindless!Pool :
          /\ Len(freeIndices[p]) + Cardinality(HeldIn(p)) = bindlessNextIndex[p] - 1
          /\ Vacant(p) \cup {h.index : h \in HeldIn(p)} = 1 .. bindlessNextIndex[p] - 1
    BY DEF DescriptorInv, IndicesKept
  <2> QED
    BY <2>1, <2>2, <2>3, <2>4, <2>5 DEF Bindless!NothingLeaks
<1> QED
  BY <1>2, <1>3

(* However many submissions are under way: where a shader looks for a view,*)
(* a sampler or a structure by its index it finds that one, still there,   *)
(* and every index of the three pools is vacant once or held once.         *)
THEOREM ShadersFindTheirViews ==
  ASSUME Sizes PROVE Bindless!Spec => []SubmissionsFindTheirViews
<1>1. Bindless!Init => DescriptorInv
  BY DescriptorsBegin
<1>2. DescriptorInv /\ [Bindless!Next]_(Bindless!vars) => DescriptorInv'
  BY DescriptorStep
<1>3. DescriptorInv => SubmissionsFindTheirViews
  BY DescriptorsTell DEF SubmissionsFindTheirViews
<1> QED
  BY <1>1, <1>2, <1>3, PTL DEF Bindless!Spec

-----------------------------------------------------------------------------
(* D3DMemory *)

(* A block is a whole number of placements.                                *)
WholeHeaps ==
  Alignment \in Nat \ {0} /\ HeapSize \in Nat /\ HeapSize % Alignment = 0 /\ MaxHandle \in Nat

RoomOf(d) == Placed!Extent(d.at, Placed!Asked(d.kind, d.size))
CoverOf(d) == Placed!Extent(d.at, Placed!RoundedUp(d.size))

(* A resource has a heap of its own, or room in a block.                   *)
Fits(d) ==
  /\ d.kind \in {"buffer", "image"} /\ d.size \in Nat \ {0}
  /\ \/ d.in = Placed!Own /\ d.at = Placed!None
     \/ d.in # Placed!Own /\ d.at \in Placed!Starts /\ RoomOf(d) \subseteq 0 .. HeapSize - 1

Given == {placedCondemned[k] : k \in 1 .. Len(placedCondemned)}

PlacedTypes ==
  /\ placedCounter \in Nat \ {0} /\ placedCondemned \in Seq(Nat) /\ DOMAIN rooms = DOMAIN blocks
  /\ \A h \in DOMAIN blocks \cup DOMAIN things : h \in Nat \ {0} /\ h < placedCounter
  /\ \A m \in DOMAIN blocks : blocks[m] \in [debugRefs : Nat]
  /\ \A h \in DOMAIN things :
       Fits(things[h]) /\ (things[h].in # Placed!Own => things[h].in \in DOMAIN blocks)
(* The room of a block that is taken is that of what is placed in it.      *)
RoomsTaken ==
  \A m \in DOMAIN blocks :
    /\ \A r \in rooms[m] : \E h \in DOMAIN things : things[h].in = m /\ r = RoomOf(things[h])
    /\ \A h \in DOMAIN things : things[h].in = m => RoomOf(things[h]) \in rooms[m]
    /\ \A g, h \in DOMAIN things :
         g # h /\ things[g].in = m /\ things[h].in = m => RoomOf(things[g]) \cap RoomOf(things[h]) = {}
RoomsCounted ==
  \A m \in DOMAIN blocks :
    /\ IsFiniteSet(rooms[m]) /\ Cardinality(rooms[m]) = blocks[m].debugRefs
    /\ IsFiniteSet(Placed!PlacedIn(m)) /\ Cardinality(Placed!PlacedIn(m)) = blocks[m].debugRefs
HandlesKept ==
  /\ DOMAIN blocks \cup DOMAIN things = placedLive \cup Given
  /\ DOMAIN blocks \cap DOMAIN things = {} /\ placedLive \cap Given = {}
  /\ \A i, j \in 1 .. Len(placedCondemned) : placedCondemned[i] = placedCondemned[j] => i = j
(* What is in a condemned block is ahead of it.                            *)
BlocksGoBehind ==
  \A i \in 1 .. Len(placedCondemned) : \A h \in DOMAIN things :
    things[h].in = placedCondemned[i] =>
      \E j \in 1 .. Len(placedCondemned) : j < i /\ placedCondemned[j] = h

PlacedInv == PlacedTypes /\ RoomsTaken /\ RoomsCounted /\ HandlesKept /\ BlocksGoBehind

(* Rounding up to a multiple of the alignment.                             *)
LEMMA RoundsUp ==
  ASSUME WholeHeaps, NEW n \in Nat \ {0}
  PROVE  \E q \in Nat : Placed!RoundedUp(n) = q * Alignment /\ n <= q * Alignment /\ q * Alignment < n + Alignment
<1>1. PICK a \in Nat \ {0} : a = Alignment
  BY DEF WholeHeaps
<1>2. PICK x \in Nat : x = n + a - 1
  BY <1>1
<1>3. PICK q : q = x \div a
  OBVIOUS
<1>4. q \in Nat /\ q * a <= x /\ x < q * a + a
  BY <1>1, <1>2, <1>3
<1>5. Placed!RoundedUp(n) = q * Alignment
  BY <1>1, <1>2, <1>3 DEF Placed!RoundedUp
<1> QED
  BY <1>1, <1>2, <1>4, <1>5

(* What a resource asks for, and what it covers, begins at a multiple of   *)
(* the alignment; what it covers is the next multiple of what it asks for. *)
LEMMA Spans ==
  ASSUME WholeHeaps, NEW d, Fits(d), d.in # Placed!Own
  PROVE  \E a \in Nat \ {0}, j \in Nat, q \in Nat :
           /\ d.at = j * Alignment /\ a <= q * Alignment /\ q * Alignment < a + Alignment
           /\ RoomOf(d) = d.at .. d.at + a - 1
           /\ CoverOf(d) = d.at .. d.at + q * Alignment - 1
<1>1. PICK b \in Nat \ {0} : b = Alignment
  BY DEF WholeHeaps
<1>2. PICK n \in Nat \ {0} : n = d.size
  BY DEF Fits
<1>3. PICK q \in Nat : Placed!RoundedUp(n) = q * b /\ n <= q * b /\ q * b < n + b
  BY <1>1, <1>2, RoundsUp
<1>4. d.at \in Nat /\ d.at % b = 0
  BY <1>1 DEF Fits, Placed!Starts, WholeHeaps
<1>5. PICK j \in Nat : d.at = j * b
  BY <1>1, <1>4
<1>6. CoverOf(d) = d.at .. d.at + q * b - 1
  BY <1>2, <1>3 DEF CoverOf, Placed!Extent
<1>7. CASE d.kind = "buffer"
  <2>1. RoomOf(d) = d.at .. d.at + n - 1
    BY <1>2, <1>7 DEF RoomOf, Placed!Extent, Placed!Asked
  <2> QED
    BY <1>1, <1>3, <1>5, <1>6, <2>1
<1>8. CASE d.kind = "image"
  <2>1. RoomOf(d) = d.at .. d.at + q * b - 1
    BY <1>2, <1>3, <1>8 DEF RoomOf, Placed!Extent, Placed!Asked
  <2>2. PICK a \in Nat \ {0} : a = q * b
    BY <1>1, <1>2, <1>3
  <2>3. RoomOf(d) = d.at .. d.at + a - 1
    BY <2>1, <2>2
  <2>4. a <= q * b /\ q * b < a + b
    BY <1>1, <2>2
  <2> QED
    BY <1>1, <1>5, <1>6, <2>3, <2>4
<1> QED
  BY <1>7, <1>8 DEF Fits

(* What is placed covers no more than the heap.                            *)
LEMMA CoversInside ==
  ASSUME WholeHeaps, NEW d, Fits(d), d.in # Placed!Own
  PROVE  CoverOf(d) \subseteq 0 .. HeapSize - 1
<1>1. PICK b \in Nat \ {0} : b = Alignment
  BY DEF WholeHeaps
<1>2. PICK a \in Nat \ {0}, j \in Nat, q \in Nat :
        /\ d.at = j * b /\ a <= q * b /\ q * b < a + b
        /\ RoomOf(d) = d.at .. d.at + a - 1 /\ CoverOf(d) = d.at .. d.at + q * b - 1
  BY <1>1, Spans
<1>3. PICK k \in Nat : HeapSize = k * b
  <2>1. PICK h \in Nat : h = HeapSize
    BY DEF WholeHeaps
  <2>2. h % b = 0
    BY <1>1, <2>1 DEF WholeHeaps
  <2>3. \E k \in Nat : h = k * b
    BY <2>2
  <2> QED
    BY <2>1, <2>3
<1>4. PICK x \in Nat, y \in Nat : x = j * b /\ y = q * b
  BY <1>1
<1>5. x + a - 1 \in RoomOf(d)
  BY <1>2, <1>4
<1>6. x + a <= k * b
  <2>1. x + a - 1 \in 0 .. HeapSize - 1
    BY <1>5 DEF Fits
  <2> QED
    BY <1>3, <1>4, <2>1 DEF WholeHeaps
<1>7. j * b + q * b < k * b + b
  BY <1>1, <1>2, <1>4, <1>6
<1>8. j * b + q * b <= k * b
  BY <1>1, <1>7
<1> QED
  BY <1>2, <1>3, <1>4, <1>8 DEF WholeHeaps

(* Of two resources that are apart, the one placed lower ends before the   *)
(* other begins, rounded up.                                               *)
LEMMA EndsBefore ==
  ASSUME WholeHeaps, NEW d, NEW e, Fits(d), Fits(e), d.in # Placed!Own, e.in # Placed!Own,
         RoomOf(d) \cap RoomOf(e) = {}, d.at <= e.at
  PROVE  CoverOf(d) \cap CoverOf(e) = {}
<1>1. PICK b \in Nat \ {0} : b = Alignment
  BY DEF WholeHeaps
<1>2. PICK a \in Nat \ {0}, j \in Nat, q \in Nat :
        /\ d.at = j * b /\ a <= q * b /\ q * b < a + b
        /\ RoomOf(d) = d.at .. d.at + a - 1 /\ CoverOf(d) = d.at .. d.at + q * b - 1
  BY <1>1, Spans
<1>3. PICK c \in Nat \ {0}, k \in Nat, r \in Nat :
        /\ e.at = k * b /\ c <= r * b /\ r * b < c + b
        /\ RoomOf(e) = e.at .. e.at + c - 1 /\ CoverOf(e) = e.at .. e.at + r * b - 1
  BY <1>1, Spans
<1>4. PICK x \in Nat, y \in Nat, z \in Nat : x = j * b /\ y = q * b /\ z = k * b
  BY <1>1
<1>5. e.at \in RoomOf(e) /\ e.at \notin RoomOf(d)
  BY <1>3, <1>4
<1>6. x + a <= z
  BY <1>2, <1>3, <1>4, <1>5
<1>7. j * b + q * b < k * b + b
  BY <1>1, <1>2, <1>4, <1>6
<1>8. j * b + q * b <= k * b
  BY <1>1, <1>7
<1>9. x + y <= z
  BY <1>4, <1>8
<1> QED
  BY <1>2, <1>3, <1>4, <1>9

(* Resources whose rooms are apart are apart rounded up.                   *)
LEMMA CoversApart ==
  ASSUME WholeHeaps, NEW d, NEW e, Fits(d), Fits(e), d.in # Placed!Own, e.in # Placed!Own,
         RoomOf(d) \cap RoomOf(e) = {}
  PROVE  CoverOf(d) \cap CoverOf(e) = {}
<1>1. d.at \in Int /\ e.at \in Int
  BY DEF Fits, Placed!Starts
<1>2. d.at <= e.at \/ e.at <= d.at
  BY <1>1
<1> QED
  BY <1>2, EndsBefore

(* What the types say of what the variables hold.                          *)
LEMMA PlacedFacts ==
  ASSUME PlacedTypes
  PROVE  /\ placedCounter \in Nat \ {0} /\ placedCondemned \in Seq(Nat) /\ Len(placedCondemned) \in Nat
         /\ placedCounter \notin DOMAIN blocks /\ placedCounter \notin DOMAIN things
         /\ Placed!Own \notin DOMAIN blocks /\ placedCounter # Placed!Own
         /\ \A m \in DOMAIN blocks : blocks[m] = [debugRefs |-> blocks[m].debugRefs] /\ blocks[m].debugRefs \in Nat
         /\ \A h \in DOMAIN things : things[h].in # placedCounter
         /\ \A m \in DOMAIN blocks : \A h : h \in Placed!PlacedIn(m) <=> h \in DOMAIN things /\ things[h].in = m
<1>1. placedCounter \in Nat \ {0} /\ placedCondemned \in Seq(Nat) /\ Len(placedCondemned) \in Nat
  BY LenProperties DEF PlacedTypes
<1>2. placedCounter \notin DOMAIN blocks /\ placedCounter \notin DOMAIN things /\ 0 \notin DOMAIN blocks
  BY <1>1 DEF PlacedTypes
<1>3. Placed!Own = 0
  BY DEF Placed!Own
<1>4. \A m \in DOMAIN blocks : blocks[m] = [debugRefs |-> blocks[m].debugRefs] /\ blocks[m].debugRefs \in Nat
  BY DEF PlacedTypes
<1>5. \A h \in DOMAIN things : things[h].in # placedCounter
  BY <1>1, <1>2, <1>3 DEF PlacedTypes
<1>6. \A m \in DOMAIN blocks : \A h : h \in Placed!PlacedIn(m) <=> h \in DOMAIN things /\ things[h].in = m
  BY DEF Placed!PlacedIn
<1> QED
  BY <1>1, <1>2, <1>3, <1>4, <1>5, <1>6

(* CreateMemoryBlock keeps PlacedInv.                                      *)
LEMMA NewBlockStep ==
  ASSUME PlacedInv, Placed!CreateMemoryBlock
  PROVE  PlacedInv'
<1>1. PICK c : c = placedCounter
  OBVIOUS
<1>2. /\ placedCounter' = c + 1 /\ things' = things /\ placedCondemned' = placedCondemned
      /\ placedLive' = placedLive \cup {c}
      /\ blocks' = Placed!Put(blocks, c, [debugRefs |-> 0]) /\ rooms' = Placed!Put(rooms, c, {})
  BY <1>1 DEF Placed!CreateMemoryBlock
<1>3. /\ c \in Nat \ {0} /\ c \notin DOMAIN blocks /\ c \notin DOMAIN things /\ c # Placed!Own
      /\ \A h \in DOMAIN things : things[h].in # c
      /\ DOMAIN rooms = DOMAIN blocks
  BY <1>1, PlacedFacts DEF PlacedInv, PlacedTypes
<1>4. /\ DOMAIN blocks' = DOMAIN blocks \cup {c} /\ DOMAIN rooms' = DOMAIN blocks \cup {c}
      /\ blocks'[c] = [debugRefs |-> 0] /\ rooms'[c] = {}
      /\ \A m \in DOMAIN blocks : blocks'[m] = blocks[m] /\ rooms'[m] = rooms[m]
  <2>1. /\ DOMAIN blocks' = DOMAIN blocks \cup {c} /\ blocks'[c] = [debugRefs |-> 0]
        /\ \A m \in DOMAIN blocks : m # c => blocks'[m] = blocks[m]
    BY <1>2 DEF Placed!Put
  <2>2. /\ DOMAIN rooms' = DOMAIN rooms \cup {c} /\ rooms'[c] = {}
        /\ \A m \in DOMAIN rooms : m # c => rooms'[m] = rooms[m]
    BY <1>2 DEF Placed!Put
  <2> QED
    BY <1>3, <2>1, <2>2
<1>5. PlacedTypes'
  <2>1. /\ placedCounter' \in Nat \ {0} /\ placedCondemned' \in Seq(Nat)
        /\ \A h \in DOMAIN blocks' \cup DOMAIN things' : h \in Nat \ {0} /\ h < placedCounter'
    BY <1>1, <1>2, <1>3, <1>4 DEF PlacedInv, PlacedTypes
  <2>2. \A m \in DOMAIN blocks' : blocks'[m] \in [debugRefs : Nat]
    BY <1>4 DEF PlacedInv, PlacedTypes
  <2>3. \A h \in DOMAIN things' :
          Fits(things'[h]) /\ (things'[h].in # Placed!Own => things'[h].in \in DOMAIN blocks')
    BY <1>2, <1>4 DEF PlacedInv, PlacedTypes
  <2> QED
    BY <1>4, <2>1, <2>2, <2>3 DEF PlacedTypes
<1>6. RoomsTaken'
  BY <1>2, <1>3, <1>4 DEF PlacedInv, RoomsTaken
<1>7. RoomsCounted'
  <2>1. \A m \in DOMAIN blocks : Placed!PlacedIn(m)' = Placed!PlacedIn(m)
    BY <1>2 DEF Placed!PlacedIn
  <2>2. Placed!PlacedIn(c)' = {}
    BY <1>2, <1>3 DEF Placed!PlacedIn
  <2>3. IsFiniteSet({}) /\ Cardinality({}) = 0
    BY FS_EmptySet
  <2>4. \A m \in DOMAIN blocks' :
          /\ IsFiniteSet(rooms'[m]) /\ Cardinality(rooms'[m]) = blocks'[m].debugRefs
          /\ IsFiniteSet(Placed!PlacedIn(m)') /\ Cardinality(Placed!PlacedIn(m)') = blocks'[m].debugRefs
    <3> SUFFICES ASSUME NEW m \in DOMAIN blocks'
                 PROVE  /\ IsFiniteSet(rooms'[m]) /\ Cardinality(rooms'[m]) = blocks'[m].debugRefs
                        /\ IsFiniteSet(Placed!PlacedIn(m)') /\ Cardinality(Placed!PlacedIn(m)') = blocks'[m].debugRefs
      OBVIOUS
    <3>1. CASE m = c
      BY <1>4, <2>2, <2>3, <3>1
    <3>2. CASE m \in DOMAIN blocks
      BY <1>4, <2>1, <3>2 DEF PlacedInv, RoomsCounted
    <3> QED
      BY <1>4, <3>1, <3>2
  <2> QED
    BY <2>4 DEF RoomsCounted
<1>8. HandlesKept'
  <2>1. Given' = Given
    BY <1>2 DEF Given
  <2> QED
    BY <1>2, <1>3, <1>4, <2>1 DEF PlacedInv, HandlesKept
<1>9. BlocksGoBehind'
  BY <1>2 DEF PlacedInv, BlocksGoBehind
<1> QED
  BY <1>5, <1>6, <1>7, <1>8, <1>9 DEF PlacedInv

(* A buffer or an image with a heap of its own keeps PlacedInv.            *)
LEMMA CreateOwnStep ==
  ASSUME PlacedInv, NEW d, Fits(d), d.in = Placed!Own, things' = Placed!Put(things, placedCounter, d),
         placedLive' = placedLive \cup {placedCounter}, placedCounter' = placedCounter + 1,
         UNCHANGED <<blocks, rooms, placedCondemned>>
  PROVE  PlacedInv'
<1>1. PICK c : c = placedCounter
  OBVIOUS
<1>2. /\ placedCounter' = c + 1 /\ blocks' = blocks /\ rooms' = rooms /\ placedCondemned' = placedCondemned
      /\ placedLive' = placedLive \cup {c}
  BY <1>1
<1>3. /\ c \in Nat \ {0} /\ c \notin DOMAIN blocks /\ c \notin DOMAIN things /\ Placed!Own \notin DOMAIN blocks
      /\ DOMAIN rooms = DOMAIN blocks
  BY <1>1, PlacedFacts DEF PlacedInv, PlacedTypes
<1>4. /\ DOMAIN things' = DOMAIN things \cup {c} /\ things'[c] = d
      /\ \A h \in DOMAIN things : things'[h] = things[h]
  BY <1>1, <1>3 DEF Placed!Put
<1>5. PlacedTypes'
  <2>1. /\ placedCounter' \in Nat \ {0} /\ placedCondemned' \in Seq(Nat)
        /\ \A h \in DOMAIN blocks' \cup DOMAIN things' : h \in Nat \ {0} /\ h < placedCounter'
    BY <1>1, <1>2, <1>3, <1>4 DEF PlacedInv, PlacedTypes
  <2>2. \A m \in DOMAIN blocks' : blocks'[m] \in [debugRefs : Nat]
    BY <1>2 DEF PlacedInv, PlacedTypes
  <2>3. \A h \in DOMAIN things' :
          Fits(things'[h]) /\ (things'[h].in # Placed!Own => things'[h].in \in DOMAIN blocks')
    BY <1>2, <1>4 DEF PlacedInv, PlacedTypes
  <2> QED
    BY <1>2, <1>3, <2>1, <2>2, <2>3 DEF PlacedTypes
<1>6. RoomsTaken'
  BY <1>2, <1>3, <1>4 DEF PlacedInv, RoomsTaken
<1>7. RoomsCounted'
  <2>1. \A m \in DOMAIN blocks : Placed!PlacedIn(m)' = Placed!PlacedIn(m)
    BY <1>3, <1>4 DEF Placed!PlacedIn
  <2> QED
    BY <1>2, <2>1 DEF PlacedInv, RoomsCounted
<1>8. HandlesKept'
  <2>1. Given' = Given
    BY <1>2 DEF Given
  <2> QED
    BY <1>2, <1>3, <1>4, <2>1 DEF PlacedInv, HandlesKept
<1>9. BlocksGoBehind'
  <2> SUFFICES ASSUME NEW i \in 1 .. Len(placedCondemned), NEW h \in DOMAIN things', things'[h].in = placedCondemned[i]
               PROVE  \E j \in 1 .. Len(placedCondemned) : j < i /\ placedCondemned[j] = h
    BY <1>2 DEF BlocksGoBehind
  <2>1. h # c
    <3>1. placedCondemned[i] \in DOMAIN blocks \cup DOMAIN things
      BY DEF PlacedInv, HandlesKept, Given
    <3>2. Placed!Own = 0 /\ placedCondemned[i] # 0
      BY <3>1 DEF PlacedInv, PlacedTypes, Placed!Own
    <3> QED
      BY <1>4, <3>2
  <2> QED
    BY <1>4, <2>1 DEF PlacedInv, BlocksGoBehind
<1> QED
  BY <1>5, <1>6, <1>7, <1>8, <1>9 DEF PlacedInv

(* A buffer or an image placed in a block keeps PlacedInv.                 *)
LEMMA CreatePlacedStep ==
  ASSUME WholeHeaps, PlacedInv, NEW d, Fits(d), NEW m \in DOMAIN blocks, d.in = m, m \in placedLive,
         \A r \in rooms[m] : r \cap RoomOf(d) = {},
         things' = Placed!Put(things, placedCounter, d),
         placedLive' = placedLive \cup {placedCounter}, placedCounter' = placedCounter + 1,
         rooms' = [rooms EXCEPT ![m] = @ \cup {RoomOf(d)}],
         blocks' = [blocks EXCEPT ![m].debugRefs = @ + 1],
         UNCHANGED placedCondemned
  PROVE  PlacedInv'
<1>1. PICK c, room : c = placedCounter /\ room = RoomOf(d)
  OBVIOUS
<1>2. placedCounter' = c + 1 /\ placedCondemned' = placedCondemned /\ placedLive' = placedLive \cup {c}
  BY <1>1
<1>3. /\ c \in Nat \ {0} /\ c \notin DOMAIN blocks /\ c \notin DOMAIN things /\ Placed!Own \notin DOMAIN blocks
      /\ DOMAIN rooms = DOMAIN blocks /\ blocks[m] = [debugRefs |-> blocks[m].debugRefs] /\ blocks[m].debugRefs \in Nat
  BY <1>1, PlacedFacts DEF PlacedInv, PlacedTypes
<1>4. /\ DOMAIN things' = DOMAIN things \cup {c} /\ things'[c] = d
      /\ \A h \in DOMAIN things : things'[h] = things[h]
  BY <1>1, <1>3 DEF Placed!Put
<1>5. /\ DOMAIN blocks' = DOMAIN blocks /\ DOMAIN rooms' = DOMAIN blocks
      /\ blocks'[m] = [debugRefs |-> blocks[m].debugRefs + 1] /\ rooms'[m] = rooms[m] \cup {room}
      /\ \A k \in DOMAIN blocks : k # m => blocks'[k] = blocks[k] /\ rooms'[k] = rooms[k]
  <2>1. blocks'[m] = [blocks[m] EXCEPT !.debugRefs = @ + 1]
    OBVIOUS
  <2>2. blocks'[m] = [debugRefs |-> blocks[m].debugRefs + 1]
    BY <1>3, <2>1
  <2> QED
    BY <1>1, <1>3, <2>2
<1>6. room # {} /\ room \notin rooms[m]
  <2>1. PICK a \in Nat \ {0} : room = d.at .. d.at + a - 1
    BY <1>1, <1>3, Spans
  <2>2. d.at \in Int
    BY <1>3 DEF Fits, Placed!Starts
  <2>3. d.at \in room
    BY <2>1, <2>2
  <2> QED
    BY <1>1, <2>3
<1>7. PlacedTypes'
  <2>1. /\ placedCounter' \in Nat \ {0} /\ placedCondemned' \in Seq(Nat)
        /\ \A h \in DOMAIN blocks' \cup DOMAIN things' : h \in Nat \ {0} /\ h < placedCounter'
    BY <1>1, <1>2, <1>3, <1>4, <1>5 DEF PlacedInv, PlacedTypes
  <2>2. \A k \in DOMAIN blocks' : blocks'[k] \in [debugRefs : Nat]
    BY <1>3, <1>5 DEF PlacedInv, PlacedTypes
  <2>3. \A h \in DOMAIN things' :
          Fits(things'[h]) /\ (things'[h].in # Placed!Own => things'[h].in \in DOMAIN blocks')
    BY <1>4, <1>5 DEF PlacedInv, PlacedTypes
  <2> QED
    BY <1>5, <2>1, <2>2, <2>3 DEF PlacedTypes
<1>8. RoomsTaken'
  <2> SUFFICES ASSUME NEW k \in DOMAIN blocks
               PROVE  /\ \A r \in rooms'[k] : \E h \in DOMAIN things' : things'[h].in = k /\ r = RoomOf(things'[h])
                      /\ \A h \in DOMAIN things' : things'[h].in = k => RoomOf(things'[h]) \in rooms'[k]
                      /\ \A g, h \in DOMAIN things' : g # h /\ things'[g].in = k /\ things'[h].in = k =>
                           RoomOf(things'[g]) \cap RoomOf(things'[h]) = {}
    BY <1>5 DEF RoomsTaken
  <2>1. CASE k # m
    BY <1>3, <1>4, <1>5, <2>1 DEF PlacedInv, RoomsTaken
  <2>2. CASE k = m
    <3>1. \A r \in rooms'[m] : \E h \in DOMAIN things' : things'[h].in = m /\ r = RoomOf(things'[h])
      BY <1>1, <1>3, <1>4, <1>5 DEF PlacedInv, RoomsTaken
    <3>2. \A h \in DOMAIN things' : things'[h].in = m => RoomOf(things'[h]) \in rooms'[m]
      BY <1>1, <1>3, <1>4, <1>5 DEF PlacedInv, RoomsTaken
    <3>3. \A h \in DOMAIN things : things[h].in = m => RoomOf(things[h]) \cap room = {}
      BY <1>1 DEF PlacedInv, RoomsTaken
    <3>4. \A g, h \in DOMAIN things : g # h /\ things[g].in = m /\ things[h].in = m =>
            RoomOf(things[g]) \cap RoomOf(things[h]) = {}
      BY DEF PlacedInv, RoomsTaken
    <3>5. ASSUME NEW g \in DOMAIN things', NEW h \in DOMAIN things', g # h, things'[g].in = m, things'[h].in = m
          PROVE  RoomOf(things'[g]) \cap RoomOf(things'[h]) = {}
      <4>1. CASE g = c
        <5>1. h \in DOMAIN things /\ things'[h] = things[h] /\ things'[g] = d
          BY <1>4, <3>5, <4>1
        <5> QED
          BY <1>1, <3>3, <3>5, <5>1
      <4>2. CASE h = c
        <5>1. g \in DOMAIN things /\ things'[g] = things[g] /\ things'[h] = d
          BY <1>4, <3>5, <4>2
        <5> QED
          BY <1>1, <3>3, <3>5, <5>1
      <4>3. CASE g # c /\ h # c
        BY <1>4, <3>4, <3>5, <4>3
      <4> QED
        BY <4>1, <4>2, <4>3
    <3> QED
      BY <2>2, <3>1, <3>2, <3>5
  <2> QED
    BY <2>1, <2>2
<1>9. RoomsCounted'
  <2>1. \A k \in DOMAIN blocks : k # m => Placed!PlacedIn(k)' = Placed!PlacedIn(k)
    BY <1>4 DEF Placed!PlacedIn
  <2>2. Placed!PlacedIn(m)' = Placed!PlacedIn(m) \cup {c} /\ c \notin Placed!PlacedIn(m)
    BY <1>3, <1>4 DEF Placed!PlacedIn
  <2>3. /\ IsFiniteSet(rooms[m]) /\ Cardinality(rooms[m]) = blocks[m].debugRefs
        /\ IsFiniteSet(Placed!PlacedIn(m)) /\ Cardinality(Placed!PlacedIn(m)) = blocks[m].debugRefs
    BY DEF PlacedInv, RoomsCounted
  <2>4. /\ IsFiniteSet(rooms'[m]) /\ Cardinality(rooms'[m]) = blocks[m].debugRefs + 1
        /\ IsFiniteSet(Placed!PlacedIn(m)') /\ Cardinality(Placed!PlacedIn(m)') = blocks[m].debugRefs + 1
    <3>1. IsFiniteSet(rooms[m] \cup {room}) /\ Cardinality(rooms[m] \cup {room}) = Cardinality(rooms[m]) + 1
      BY <1>6, <2>3, FS_AddElement
    <3>2. /\ IsFiniteSet(Placed!PlacedIn(m) \cup {c})
          /\ Cardinality(Placed!PlacedIn(m) \cup {c}) = Cardinality(Placed!PlacedIn(m)) + 1
      BY <2>2, <2>3, FS_AddElement
    <3> QED
      BY <1>5, <2>2, <2>3, <3>1, <3>2
  <2>5. blocks'[m].debugRefs = blocks[m].debugRefs + 1
    BY <1>5
  <2>6. \A k \in DOMAIN blocks :
          /\ IsFiniteSet(rooms'[k]) /\ Cardinality(rooms'[k]) = blocks'[k].debugRefs
          /\ IsFiniteSet(Placed!PlacedIn(k)') /\ Cardinality(Placed!PlacedIn(k)') = blocks'[k].debugRefs
    <3> SUFFICES ASSUME NEW k \in DOMAIN blocks
                 PROVE  /\ IsFiniteSet(rooms'[k]) /\ Cardinality(rooms'[k]) = blocks'[k].debugRefs
                        /\ IsFiniteSet(Placed!PlacedIn(k)') /\ Cardinality(Placed!PlacedIn(k)') = blocks'[k].debugRefs
      OBVIOUS
    <3>1. CASE k = m
      BY <2>4, <2>5, <3>1
    <3>2. CASE k # m
      BY <1>5, <2>1, <3>2 DEF PlacedInv, RoomsCounted
    <3> QED
      BY <3>1, <3>2
  <2> QED
    BY <1>5, <2>6 DEF RoomsCounted
<1>10. HandlesKept'
  <2>1. Given' = Given
    BY <1>2 DEF Given
  <2> QED
    BY <1>2, <1>3, <1>4, <1>5, <2>1 DEF PlacedInv, HandlesKept
<1>11. BlocksGoBehind'
  <2> SUFFICES ASSUME NEW i \in 1 .. Len(placedCondemned), NEW h \in DOMAIN things', things'[h].in = placedCondemned[i]
               PROVE  \E j \in 1 .. Len(placedCondemned) : j < i /\ placedCondemned[j] = h
    BY <1>2 DEF BlocksGoBehind
  <2>1. h # c
    <3>1. placedCondemned[i] \in Given /\ m \notin Given
      BY DEF PlacedInv, HandlesKept, Given
    <3> QED
      BY <1>4, <3>1
  <2> QED
    BY <1>4, <2>1 DEF PlacedInv, BlocksGoBehind
<1> QED
  BY <1>7, <1>8, <1>9, <1>10, <1>11 DEF PlacedInv

(* CreateBuffer and CreateImage keep PlacedInv.                            *)
LEMMA CreateThingStep ==
  ASSUME WholeHeaps, PlacedInv, NEW kind \in {"buffer", "image"}, NEW m \in DOMAIN blocks \cup {Placed!Own},
         NEW n \in {1, Alignment + 1}, Placed!Create(kind, m, n)
  PROVE  PlacedInv'
<1>1. n \in Nat \ {0}
  BY DEF WholeHeaps
<1>2. CASE m = Placed!Own /\ Placed!New(kind, m, n, Placed!None) /\ UNCHANGED <<blocks, rooms>>
  <2>1. PICK d : d = [kind |-> kind, in |-> m, size |-> n, at |-> Placed!None]
    OBVIOUS
  <2>2. Fits(d) /\ d.in = Placed!Own
    BY <1>1, <1>2, <2>1 DEF Fits
  <2>3. /\ things' = Placed!Put(things, placedCounter, d) /\ placedLive' = placedLive \cup {placedCounter}
        /\ placedCounter' = placedCounter + 1 /\ placedCondemned' = placedCondemned
    BY <1>2, <2>1 DEF Placed!Create, Placed!New
  <2> QED
    BY <1>2, <2>2, <2>3, CreateOwnStep
<1>3. ASSUME m \in placedLive \cap DOMAIN blocks, NEW lo \in Placed!Starts,
             Placed!Extent(lo, Placed!Asked(kind, n)) \subseteq 0 .. HeapSize - 1,
             \A r \in rooms[m] : r \cap Placed!Extent(lo, Placed!Asked(kind, n)) = {},
             rooms' = [rooms EXCEPT ![m] = @ \cup {Placed!Extent(lo, Placed!Asked(kind, n))}],
             Placed!New(kind, m, n, lo),
             blocks' = [blocks EXCEPT ![m].debugRefs = @ + 1]
      PROVE  PlacedInv'
  <2>1. PICK d : d = [kind |-> kind, in |-> m, size |-> n, at |-> lo]
    OBVIOUS
  <2>2. d.in = m /\ d.kind = kind /\ d.size = n /\ d.at = lo
    BY <2>1
  <2>3. RoomOf(d) = Placed!Extent(lo, Placed!Asked(kind, n))
    BY <2>2 DEF RoomOf
  <2>4. m # Placed!Own
    BY <1>3, PlacedFacts DEF PlacedInv
  <2>5. Fits(d)
    BY <1>1, <1>3, <2>2, <2>3, <2>4 DEF Fits
  <2>6. /\ things' = Placed!Put(things, placedCounter, d) /\ placedLive' = placedLive \cup {placedCounter}
        /\ placedCounter' = placedCounter + 1 /\ placedCondemned' = placedCondemned
    BY <1>3, <2>1 DEF Placed!Create, Placed!New
  <2>7. /\ \A r \in rooms[m] : r \cap RoomOf(d) = {}
        /\ rooms' = [rooms EXCEPT ![m] = @ \cup {RoomOf(d)}]
    BY <1>3, <2>3
  <2> QED
    BY <1>3, <2>2, <2>5, <2>6, <2>7, CreatePlacedStep
<1> QED
  BY <1>2, <1>3 DEF Placed!Create

(* Without room the number of the handle is spent, nothing else changes.   *)
LEMMA WithoutRoomStep ==
  ASSUME PlacedInv, NEW m, Placed!CreateWithoutRoom(m)
  PROVE  PlacedInv'
<1>1. /\ placedCounter' = placedCounter + 1 /\ blocks' = blocks /\ things' = things /\ rooms' = rooms
      /\ placedLive' = placedLive /\ placedCondemned' = placedCondemned
  BY DEF Placed!CreateWithoutRoom
<1>2. PlacedTypes'
  BY <1>1 DEF PlacedInv, PlacedTypes
<1>3. RoomsTaken' /\ RoomsCounted'
  BY <1>1 DEF PlacedInv, RoomsTaken, RoomsCounted, Placed!PlacedIn
<1>4. HandlesKept' /\ BlocksGoBehind'
  BY <1>1 DEF PlacedInv, HandlesKept, BlocksGoBehind, Given
<1> QED
  BY <1>2, <1>3, <1>4 DEF PlacedInv

(* A deferred destruction keeps PlacedInv.                                 *)
LEMMA ThingDestroyDeferredStep ==
  ASSUME PlacedInv, NEW h \in placedLive, Placed!DestroyDeferred(h)
  PROVE  PlacedInv'
<1>1. /\ placedLive' = placedLive \ {h} /\ placedCondemned' = Append(placedCondemned, h)
      /\ placedCounter' = placedCounter /\ blocks' = blocks /\ things' = things /\ rooms' = rooms
      /\ \A x \in placedLive \cap DOMAIN things : things[x].in # h
  BY DEF Placed!DestroyDeferred, Placed!MayGiveUp
<1>2. h \in Nat /\ h \in DOMAIN blocks \cup DOMAIN things /\ h \notin Given
  BY DEF PlacedInv, PlacedTypes, HandlesKept
<1>3. PICK s \in Seq(Nat) : s = placedCondemned /\ placedCondemned' = Append(s, h)
  BY <1>1 DEF PlacedInv, PlacedTypes
<1>4. /\ placedCondemned' \in Seq(Nat) /\ Len(s) \in Nat /\ Len(placedCondemned') = Len(s) + 1
      /\ \A i \in 1 .. Len(s) : i \in 1 .. Len(placedCondemned') /\ placedCondemned'[i] = s[i]
      /\ \A i \in 1 .. Len(placedCondemned') :
           \/ i \in 1 .. Len(s) /\ placedCondemned'[i] = s[i]
           \/ i = Len(s) + 1 /\ placedCondemned'[i] = h
  BY <1>2, <1>3, AppendElements
<1>5. Given' = Given \cup {h}
  <2>1. Len(s) + 1 \in 1 .. Len(placedCondemned') /\ placedCondemned'[Len(s) + 1] = h
    BY <1>4
  <2> QED
    BY <1>3, <1>4, <2>1 DEF Given
<1>6. PlacedTypes'
  BY <1>1, <1>4 DEF PlacedInv, PlacedTypes
<1>7. RoomsTaken' /\ RoomsCounted'
  <2>1. \A m : Placed!PlacedIn(m)' = Placed!PlacedIn(m)
    BY <1>1 DEF Placed!PlacedIn
  <2>2. RoomsTaken'
    BY <1>1 DEF PlacedInv, RoomsTaken
  <2>3. RoomsCounted'
    BY <1>1, <2>1 DEF PlacedInv, RoomsCounted
  <2> QED
    BY <2>2, <2>3
<1>8. HandlesKept'
  <2>1. DOMAIN blocks' \cup DOMAIN things' = placedLive' \cup Given'
    BY <1>1, <1>5 DEF PlacedInv, HandlesKept
  <2>2. DOMAIN blocks' \cap DOMAIN things' = {} /\ placedLive' \cap Given' = {}
    BY <1>1, <1>5 DEF PlacedInv, HandlesKept
  <2>3. \A i \in 1 .. Len(s) : s[i] # h /\ s[i] \in Given
    BY <1>2, <1>3 DEF Given
  <2>4. \A i, j \in 1 .. Len(s) : s[i] = s[j] => i = j
    BY <1>3 DEF PlacedInv, HandlesKept
  <2>5. \A i, j \in 1 .. Len(placedCondemned') : placedCondemned'[i] = placedCondemned'[j] => i = j
    BY <1>4, <2>3, <2>4
  <2> QED
    BY <2>1, <2>2, <2>5 DEF HandlesKept
<1>9. BlocksGoBehind'
  <2> SUFFICES ASSUME NEW i \in 1 .. Len(placedCondemned'), NEW x \in DOMAIN things, things[x].in = placedCondemned'[i]
               PROVE  \E j \in 1 .. Len(placedCondemned') : j < i /\ placedCondemned'[j] = x
    BY <1>1 DEF BlocksGoBehind
  <2>1. CASE i \in 1 .. Len(s) /\ placedCondemned'[i] = s[i]
    <3>1. PICK j \in 1 .. Len(s) : j < i /\ s[j] = x
      BY <1>3, <2>1 DEF PlacedInv, BlocksGoBehind
    <3> QED
      BY <1>4, <3>1
  <2>2. CASE i = Len(s) + 1 /\ placedCondemned'[i] = h
    <3>1. x \in Given
      BY <1>1, <2>2 DEF PlacedInv, HandlesKept
    <3>2. PICK j \in 1 .. Len(s) : s[j] = x
      BY <1>3, <3>1 DEF Given
    <3>3. j < i
      BY <1>4, <2>2
    <3> QED
      BY <1>4, <3>2, <3>3
  <2> QED
    BY <1>4, <2>1, <2>2
<1> QED
  BY <1>6, <1>7, <1>8, <1>9 DEF PlacedInv

(* What is left when a handle's data goes, and nothing is placed in it.    *)
LEMMA DestroyLeaves ==
  ASSUME WholeHeaps, PlacedInv, NEW h \in DOMAIN blocks \cup DOMAIN things,
         \A x \in DOMAIN things : things[x].in # h, Placed!Destroy(h),
         placedCounter' = placedCounter, placedCondemned' \in Seq(Nat)
  PROVE  /\ PlacedTypes' /\ RoomsTaken' /\ RoomsCounted'
         /\ DOMAIN blocks' = DOMAIN blocks \ {h} /\ DOMAIN things' = DOMAIN things \ {h}
         /\ \A x \in DOMAIN things' : things'[x] = things[x]
<1>1. /\ DOMAIN rooms = DOMAIN blocks /\ DOMAIN blocks \cap DOMAIN things = {}
      /\ placedCounter \in Nat \ {0}
  BY DEF PlacedInv, PlacedTypes, HandlesKept
<1>2. CASE h \in DOMAIN things
  <2>1. PICK d : d = things[h]
    OBVIOUS
  <2>2. Placed!DestroyThing(h) /\ Fits(d) /\ (d.in # Placed!Own => d.in \in DOMAIN blocks)
    BY <1>2, <2>1 DEF Placed!Destroy, PlacedInv, PlacedTypes
  <2>3. /\ DOMAIN things' = DOMAIN things \ {h}
        /\ \A x \in DOMAIN things' : things'[x] = things[x]
    BY <2>2 DEF Placed!DestroyThing, Placed!Without
  <2>4. h \notin DOMAIN blocks
    BY <1>1, <1>2
  <2>5. CASE d.in = Placed!Own
    <3>1. d.at = Placed!None
      BY <2>2, <2>5 DEF Fits
    <3>2. rooms' = rooms /\ blocks' = blocks
      BY <2>1, <2>2, <3>1 DEF Placed!DestroyThing
    <3>3. PlacedTypes'
      BY <2>3, <3>2 DEF PlacedInv, PlacedTypes
    <3>4. Placed!Own \notin DOMAIN blocks
      BY PlacedFacts DEF PlacedInv
    <3>5. RoomsTaken'
      BY <2>1, <2>3, <2>5, <3>2, <3>4 DEF PlacedInv, RoomsTaken
    <3>6. \A m \in DOMAIN blocks : Placed!PlacedIn(m)' = Placed!PlacedIn(m)
      BY <2>1, <2>3, <2>5, <3>4 DEF Placed!PlacedIn
    <3>7. RoomsCounted'
      BY <3>2, <3>6 DEF PlacedInv, RoomsCounted
    <3> QED
      BY <2>3, <2>4, <3>2, <3>3, <3>5, <3>7
  <2>6. CASE d.in # Placed!Own
    <3>1. PICK m \in DOMAIN blocks : m = d.in
      BY <2>2, <2>6
    <3>2. PICK room : room = RoomOf(d)
      OBVIOUS
    <3>3. d.at # Placed!None
      BY <2>2, <2>6 DEF Fits, Placed!Starts, Placed!None
    <3>4. rooms' = [rooms EXCEPT ![m] = @ \ {room}] /\ blocks' = [blocks EXCEPT ![m].debugRefs = @ - 1]
      BY <2>1, <2>2, <3>1, <3>2, <3>3 DEF Placed!DestroyThing, RoomOf
    <3>5. room \in rooms[m] /\ h \in Placed!PlacedIn(m)
      BY <1>2, <2>1, <3>1, <3>2 DEF PlacedInv, RoomsTaken, Placed!PlacedIn
    <3>6. /\ IsFiniteSet(rooms[m]) /\ Cardinality(rooms[m]) = blocks[m].debugRefs
          /\ IsFiniteSet(Placed!PlacedIn(m)) /\ Cardinality(Placed!PlacedIn(m)) = blocks[m].debugRefs
          /\ blocks[m] = [debugRefs |-> blocks[m].debugRefs] /\ blocks[m].debugRefs \in Nat
      BY PlacedFacts DEF PlacedInv, RoomsCounted
    <3>7. /\ IsFiniteSet(rooms[m] \ {room}) /\ Cardinality(rooms[m] \ {room}) = blocks[m].debugRefs - 1
          /\ IsFiniteSet(Placed!PlacedIn(m) \ {h})
          /\ Cardinality(Placed!PlacedIn(m) \ {h}) = blocks[m].debugRefs - 1
      <4>1. Cardinality(rooms[m] \ {room}) = Cardinality(rooms[m]) - 1 /\ IsFiniteSet(rooms[m] \ {room})
        BY <3>5, <3>6, FS_RemoveElement
      <4>2. /\ Cardinality(Placed!PlacedIn(m) \ {h}) = Cardinality(Placed!PlacedIn(m)) - 1
            /\ IsFiniteSet(Placed!PlacedIn(m) \ {h})
        BY <3>5, <3>6, FS_RemoveElement
      <4> QED
        BY <3>6, <4>1, <4>2
    <3>8. blocks[m].debugRefs - 1 \in Nat
      <4>1. Cardinality(rooms[m] \ {room}) \in Nat
        BY <3>7, FS_CardinalityType
      <4> QED
        BY <3>7, <4>1
    <3>9. /\ DOMAIN blocks' = DOMAIN blocks /\ DOMAIN rooms' = DOMAIN blocks
          /\ blocks'[m] = [debugRefs |-> blocks[m].debugRefs - 1] /\ rooms'[m] = rooms[m] \ {room}
          /\ \A k \in DOMAIN blocks : k # m => blocks'[k] = blocks[k] /\ rooms'[k] = rooms[k]
      <4>1. blocks'[m] = [blocks[m] EXCEPT !.debugRefs = @ - 1]
        BY <3>4
      <4>2. blocks'[m] = [debugRefs |-> blocks[m].debugRefs - 1]
        BY <3>6, <4>1
      <4> QED
        BY <1>1, <3>4, <4>2
    <3>10. PlacedTypes'
      <4>1. \A k \in DOMAIN blocks' : blocks'[k] \in [debugRefs : Nat]
        <5>1. blocks'[m] \in [debugRefs : Nat]
          BY <3>8, <3>9
        <5>2. \A k \in DOMAIN blocks : k # m => blocks'[k] \in [debugRefs : Nat]
          BY <3>9 DEF PlacedInv, PlacedTypes
        <5> QED
          BY <3>9, <5>1, <5>2
      <4>2. \A x \in DOMAIN things' :
              Fits(things'[x]) /\ (things'[x].in # Placed!Own => things'[x].in \in DOMAIN blocks')
        BY <2>3, <3>9 DEF PlacedInv, PlacedTypes
      <4> QED
        BY <2>3, <3>9, <4>1, <4>2 DEF PlacedInv, PlacedTypes
    <3>11. RoomsTaken'
      <4> SUFFICES ASSUME NEW k \in DOMAIN blocks
                   PROVE  /\ \A r \in rooms'[k] : \E x \in DOMAIN things' : things'[x].in = k /\ r = RoomOf(things'[x])
                          /\ \A x \in DOMAIN things' : things'[x].in = k => RoomOf(things'[x]) \in rooms'[k]
                          /\ \A x, y \in DOMAIN things' : x # y /\ things'[x].in = k /\ things'[y].in = k =>
                               RoomOf(things'[x]) \cap RoomOf(things'[y]) = {}
        BY <3>9 DEF RoomsTaken
      <4>1. CASE k # m
        BY <2>1, <2>3, <3>1, <3>9, <4>1 DEF PlacedInv, RoomsTaken
      <4>2. CASE k = m
        <5>1. room # {}
          <6>1. PICK a \in Nat \ {0} : room = d.at .. d.at + a - 1
            BY <2>2, <2>6, <3>2, Spans
          <6>2. d.at \in Int
            BY <2>2, <2>6 DEF Fits, Placed!Starts
          <6> QED
            BY <6>1, <6>2
        <5>2. \A x \in DOMAIN things' : things'[x].in = m => RoomOf(things'[x]) # room
          BY <1>2, <2>1, <2>3, <3>1, <3>2, <5>1 DEF PlacedInv, RoomsTaken
        <5>3. \A r \in rooms'[m] : \E x \in DOMAIN things' : things'[x].in = m /\ r = RoomOf(things'[x])
          BY <2>1, <2>3, <3>2, <3>9 DEF PlacedInv, RoomsTaken
        <5>4. \A x \in DOMAIN things' : things'[x].in = m => RoomOf(things'[x]) \in rooms'[m]
          BY <2>3, <3>9, <5>2 DEF PlacedInv, RoomsTaken
        <5>5. \A x, y \in DOMAIN things' : x # y /\ things'[x].in = m /\ things'[y].in = m =>
                RoomOf(things'[x]) \cap RoomOf(things'[y]) = {}
          BY <2>3 DEF PlacedInv, RoomsTaken
        <5> QED
          BY <4>2, <5>3, <5>4, <5>5
      <4> QED
        BY <4>1, <4>2
    <3>12. RoomsCounted'
      <4>1. \A k \in DOMAIN blocks : k # m => Placed!PlacedIn(k)' = Placed!PlacedIn(k)
        BY <2>1, <2>3, <3>1 DEF Placed!PlacedIn
      <4>2. Placed!PlacedIn(m)' = Placed!PlacedIn(m) \ {h}
        BY <2>3 DEF Placed!PlacedIn
      <4>3. blocks'[m].debugRefs = blocks[m].debugRefs - 1
        BY <3>9
      <4>4. \A k \in DOMAIN blocks :
              /\ IsFiniteSet(rooms'[k]) /\ Cardinality(rooms'[k]) = blocks'[k].debugRefs
              /\ IsFiniteSet(Placed!PlacedIn(k)') /\ Cardinality(Placed!PlacedIn(k)') = blocks'[k].debugRefs
        <5> SUFFICES ASSUME NEW k \in DOMAIN blocks
                     PROVE  /\ IsFiniteSet(rooms'[k]) /\ Cardinality(rooms'[k]) = blocks'[k].debugRefs
                            /\ IsFiniteSet(Placed!PlacedIn(k)') /\ Cardinality(Placed!PlacedIn(k)') = blocks'[k].debugRefs
          OBVIOUS
        <5>1. CASE k = m
          BY <3>7, <3>9, <4>2, <4>3, <5>1
        <5>2. CASE k # m
          BY <3>9, <4>1, <5>2 DEF PlacedInv, RoomsCounted
        <5> QED
          BY <5>1, <5>2
      <4> QED
        BY <3>9, <4>4 DEF RoomsCounted
    <3> QED
      BY <2>3, <2>4, <3>9, <3>10, <3>11, <3>12
  <2> QED
    BY <2>5, <2>6
<1>3. CASE h \notin DOMAIN things
  <2>1. /\ things' = things
        /\ DOMAIN blocks' = DOMAIN blocks \ {h} /\ DOMAIN rooms' = DOMAIN rooms \ {h}
        /\ \A m \in DOMAIN blocks : m # h => blocks'[m] = blocks[m]
        /\ \A m \in DOMAIN rooms : m # h => rooms'[m] = rooms[m]
    BY <1>3 DEF Placed!Destroy, Placed!Without
  <2>2. PlacedTypes'
    BY <1>1, <2>1 DEF PlacedInv, PlacedTypes
  <2>3. RoomsTaken'
    BY <1>1, <2>1 DEF PlacedInv, RoomsTaken
  <2>4. RoomsCounted'
    <3>1. \A m \in DOMAIN blocks' : Placed!PlacedIn(m)' = Placed!PlacedIn(m)
      BY <2>1 DEF Placed!PlacedIn
    <3> QED
      BY <1>1, <2>1, <3>1 DEF PlacedInv, RoomsCounted
  <2> QED
    BY <1>3, <2>1, <2>2, <2>3, <2>4
<1> QED
  BY <1>2, <1>3

(* A destruction at once keeps PlacedInv.                                  *)
LEMMA ThingDestroyAtOnceStep ==
  ASSUME WholeHeaps, PlacedInv, NEW h \in placedLive, Placed!DestroyAtOnce(h)
  PROVE  PlacedInv'
<1>1. /\ placedLive' = placedLive \ {h} /\ placedCondemned' = placedCondemned /\ placedCounter' = placedCounter
      /\ \A x \in DOMAIN things : things[x].in # h
  BY DEF Placed!DestroyAtOnce
<1>2. h \in DOMAIN blocks \cup DOMAIN things /\ h \notin Given
  BY DEF PlacedInv, HandlesKept
<1>3. placedCondemned' \in Seq(Nat)
  BY <1>1 DEF PlacedInv, PlacedTypes
<1>4. /\ PlacedTypes' /\ RoomsTaken' /\ RoomsCounted'
      /\ DOMAIN blocks' = DOMAIN blocks \ {h} /\ DOMAIN things' = DOMAIN things \ {h}
      /\ \A x \in DOMAIN things' : things'[x] = things[x]
  BY <1>1, <1>2, <1>3, DestroyLeaves DEF Placed!DestroyAtOnce
<1>5. Given' = Given
  BY <1>1 DEF Given
<1>6. HandlesKept'
  BY <1>1, <1>2, <1>4, <1>5 DEF PlacedInv, HandlesKept
<1>7. BlocksGoBehind'
  BY <1>1, <1>4 DEF PlacedInv, BlocksGoBehind
<1> QED
  BY <1>4, <1>6, <1>7 DEF PlacedInv

(* That the collector destroys the oldest handle keeps PlacedInv.          *)
LEMMA ThingCollectStep ==
  ASSUME WholeHeaps, PlacedInv, Placed!Collect
  PROVE  PlacedInv'
<1>1. PICK s \in Seq(Nat) : s = placedCondemned
  BY DEF PlacedInv, PlacedTypes
<1>2. PICK h : h = Head(s)
  OBVIOUS
<1>3. /\ s # <<>> /\ placedCondemned' = Tail(s) /\ Placed!Destroy(h)
      /\ placedCounter' = placedCounter /\ placedLive' = placedLive
  BY <1>1, <1>2 DEF Placed!Collect
<1>4. /\ Tail(s) \in Seq(Nat) /\ Len(s) \in Nat \ {0} /\ Len(Tail(s)) = Len(s) - 1
      /\ h = s[1] /\ 1 \in 1 .. Len(s)
      /\ \A i \in 1 .. Len(Tail(s)) : i + 1 \in 1 .. Len(s) /\ Tail(s)[i] = s[i + 1]
      /\ \A i \in 1 .. Len(s) : i # 1 => i - 1 \in 1 .. Len(Tail(s)) /\ Tail(s)[i - 1] = s[i]
  BY <1>2, <1>3, TailElements
<1>5. \A i, j \in 1 .. Len(s) : s[i] = s[j] => i = j
  BY <1>1 DEF PlacedInv, HandlesKept
<1>6. h \in Given /\ h \in DOMAIN blocks \cup DOMAIN things
  <2>1. h \in Given
    BY <1>1, <1>4 DEF Given
  <2> QED
    BY <2>1 DEF PlacedInv, HandlesKept
<1>7. \A x \in DOMAIN things : things[x].in # h
  <2> SUFFICES ASSUME NEW x \in DOMAIN things, things[x].in = h PROVE FALSE
    OBVIOUS
  <2>1. PICK j \in 1 .. Len(s) : j < 1
    BY <1>1, <1>4 DEF PlacedInv, BlocksGoBehind
  <2> QED
    BY <2>1
<1>8. /\ PlacedTypes' /\ RoomsTaken' /\ RoomsCounted'
      /\ DOMAIN blocks' = DOMAIN blocks \ {h} /\ DOMAIN things' = DOMAIN things \ {h}
      /\ \A x \in DOMAIN things' : things'[x] = things[x]
  <2>1. placedCondemned' \in Seq(Nat)
    BY <1>3, <1>4
  <2> QED
    BY <1>3, <1>6, <1>7, <2>1, DestroyLeaves
<1>9. Given' = Given \ {h}
  <2>1. \A k \in 1 .. Len(Tail(s)) : Tail(s)[k] \in Given /\ Tail(s)[k] # h
    BY <1>1, <1>4, <1>5 DEF Given
  <2>2. \A x \in Given : x # h => \E k \in 1 .. Len(Tail(s)) : Tail(s)[k] = x
    BY <1>1, <1>4 DEF Given
  <2>3. Given' = {Tail(s)[k] : k \in 1 .. Len(Tail(s))}
    BY <1>3 DEF Given
  <2> QED
    BY <2>1, <2>2, <2>3
<1>10. HandlesKept'
  <2>1. \A i, j \in 1 .. Len(Tail(s)) : Tail(s)[i] = Tail(s)[j] => i = j
    <3> SUFFICES ASSUME NEW i \in 1 .. Len(Tail(s)), NEW j \in 1 .. Len(Tail(s)), Tail(s)[i] = Tail(s)[j] PROVE i = j
      OBVIOUS
    <3>1. i + 1 = j + 1
      BY <1>4, <1>5
    <3> QED
      BY <3>1
  <2>2. \A i, j \in 1 .. Len(placedCondemned') : placedCondemned'[i] = placedCondemned'[j] => i = j
    BY <1>3, <2>1
  <2>3. DOMAIN blocks' \cup DOMAIN things' = placedLive' \cup Given'
    BY <1>3, <1>6, <1>8, <1>9 DEF PlacedInv, HandlesKept
  <2>4. DOMAIN blocks' \cap DOMAIN things' = {} /\ placedLive' \cap Given' = {}
    BY <1>3, <1>8, <1>9 DEF PlacedInv, HandlesKept
  <2> QED
    BY <2>2, <2>3, <2>4 DEF HandlesKept
<1>11. BlocksGoBehind'
  <2> SUFFICES ASSUME NEW i \in 1 .. Len(Tail(s)), NEW x \in DOMAIN things', things'[x].in = Tail(s)[i]
               PROVE  \E j \in 1 .. Len(Tail(s)) : j < i /\ Tail(s)[j] = x
    BY <1>3 DEF BlocksGoBehind
  <2>1. x \in DOMAIN things /\ x # h /\ things[x].in = s[i + 1] /\ i + 1 \in 1 .. Len(s)
    BY <1>4, <1>8
  <2>2. PICK j \in 1 .. Len(s) : j < i + 1 /\ s[j] = x
    BY <1>1, <2>1 DEF PlacedInv, BlocksGoBehind
  <2>3. j # 1
    BY <1>4, <2>1, <2>2
  <2>4. j - 1 \in 1 .. Len(Tail(s)) /\ Tail(s)[j - 1] = x
    BY <1>4, <2>2, <2>3
  <2> QED
    BY <2>2, <2>4
<1> QED
  BY <1>8, <1>10, <1>11 DEF PlacedInv

(* What PlacedInv says of what Direct3D places, of the counts and of the   *)
(* handles.                                                                *)
LEMMA PlacedTells ==
  ASSUME WholeHeaps, PlacedInv
  PROVE  Placed!PlacedApart /\ Placed!CountsResidents /\ Placed!DataFollowsHandles
<1>1. \A S : Placed!Cardinality(S) = Cardinality(S)
  BY DEF Placed!Cardinality, Cardinality
<1>2. ASSUME NEW m \in DOMAIN blocks, NEW h \in Placed!PlacedIn(m)
      PROVE  /\ h \in DOMAIN things /\ things[h].in = m /\ Fits(things[h]) /\ things[h].in # Placed!Own
             /\ Placed!Covers(h) = CoverOf(things[h])
  <2>1. h \in DOMAIN things /\ things[h].in = m /\ Placed!Own \notin DOMAIN blocks
    BY <1>2, PlacedFacts DEF PlacedInv
  <2>2. Fits(things[h])
    BY <2>1 DEF PlacedInv, PlacedTypes
  <2> QED
    BY <2>1, <2>2 DEF Placed!Covers, CoverOf
<1>3. Placed!PlacedApart
  <2>1. ASSUME NEW m \in DOMAIN blocks, NEW h \in Placed!PlacedIn(m)
        PROVE  Placed!Covers(h) \subseteq 0 .. HeapSize - 1
    BY <1>2, <2>1, CoversInside
  <2>2. ASSUME NEW m \in DOMAIN blocks, NEW g \in Placed!PlacedIn(m), NEW h \in Placed!PlacedIn(m), g # h
        PROVE  Placed!Covers(g) \cap Placed!Covers(h) = {}
    <3>1. RoomOf(things[g]) \cap RoomOf(things[h]) = {}
      BY <1>2, <2>2 DEF PlacedInv, RoomsTaken
    <3> QED
      BY <1>2, <2>2, <3>1, CoversApart
  <2> QED
    BY <2>1, <2>2 DEF Placed!PlacedApart
<1>4. Placed!CountsResidents
  BY <1>1 DEF Placed!CountsResidents, PlacedInv, RoomsCounted
<1>5. Placed!DataFollowsHandles
  <2>1. PICK n \in Nat : n = Len(placedCondemned)
    BY PlacedFacts DEF PlacedInv
  <2>2. DOMAIN placedCondemned = 1 .. n
    BY <2>1, LenProperties DEF PlacedInv, PlacedTypes
  <2>3. Given = {placedCondemned[k] : k \in DOMAIN placedCondemned}
    BY <2>1, <2>2 DEF Given
  <2>4. Cardinality(Given) = n
    <3>1. PICK f : f = [k \in 1 .. n |-> placedCondemned[k]]
      OBVIOUS
    <3>2. f \in Bijection(1 .. n, Given)
      <4>1. f \in [1 .. n -> Given]
        BY <2>1, <3>1 DEF Given
      <4>2. \A i, j \in 1 .. n : f[i] = f[j] => i = j
        BY <2>1, <3>1 DEF PlacedInv, HandlesKept
      <4>3. \A x \in Given : \E k \in 1 .. n : f[k] = x
        BY <2>1, <3>1 DEF Given
      <4> QED
        BY <4>1, <4>2, <4>3 DEF Bijection, Injection, Surjection, IsInjective
    <3>3. ExistsBijection(1 .. n, Given)
      BY <3>2 DEF ExistsBijection
    <3> QED
      BY <3>3, FS_CountingElements
  <2>5. Placed!Cardinality(Given) = Len(placedCondemned)
    BY <1>1, <2>1, <2>4
  <2>6. /\ DOMAIN blocks \cup DOMAIN things = placedLive \cup Given
        /\ DOMAIN blocks \cap DOMAIN things = {} /\ placedLive \cap Given = {}
    BY DEF PlacedInv, HandlesKept
  <2> QED
    BY <2>3, <2>5, <2>6 DEF Placed!DataFollowsHandles
<1> QED
  BY <1>3, <1>4, <1>5

(* A block that is a whole number of placements: what Direct3D places in   *)
(* it, rounded up, is inside and apart, though a buffer asks the virtual   *)
(* block for less, for any alignment, size of the heaps and number of      *)
(* resources; the assertions of DestroyMemoryBlock and of Get and Release  *)
(* hold.                                                                   *)
THEOREM PlacedApartAndCounted ==
  ASSUME WholeHeaps
  PROVE  Placed!Spec => []PlacedAreApartAndCounted
<1>1. Placed!Init => PlacedInv
  <2> SUFFICES ASSUME Placed!Init PROVE PlacedInv
    OBVIOUS
  <2>1. /\ placedCounter = 1 /\ DOMAIN blocks = {} /\ DOMAIN things = {} /\ DOMAIN rooms = {} /\ placedLive = {}
        /\ placedCondemned = <<>> /\ placedCondemned \in Seq(Nat) /\ Len(placedCondemned) = 0
    BY EmptySeq DEF Placed!Init
  <2>2. Given = {}
    BY <2>1 DEF Given
  <2> QED
    BY <2>1, <2>2 DEF PlacedInv, PlacedTypes, RoomsTaken, RoomsCounted, HandlesKept, BlocksGoBehind
<1>2. PlacedInv /\ [Placed!Next]_Placed!vars => PlacedInv'
  <2> SUFFICES ASSUME PlacedInv, [Placed!Next]_Placed!vars PROVE PlacedInv'
    OBVIOUS
  <2>1. CASE UNCHANGED Placed!vars
    <3>1. /\ placedCounter' = placedCounter /\ blocks' = blocks /\ things' = things /\ rooms' = rooms
          /\ placedLive' = placedLive /\ placedCondemned' = placedCondemned
      BY <2>1 DEF Placed!vars
    <3>2. PlacedTypes' /\ RoomsTaken'
      BY <3>1 DEF PlacedInv, PlacedTypes, RoomsTaken
    <3>3. \A m : Placed!PlacedIn(m)' = Placed!PlacedIn(m)
      BY <3>1 DEF Placed!PlacedIn
    <3>4. RoomsCounted'
      BY <3>1, <3>3 DEF PlacedInv, RoomsCounted
    <3>5. HandlesKept' /\ BlocksGoBehind'
      BY <3>1 DEF PlacedInv, HandlesKept, BlocksGoBehind, Given
    <3> QED
      BY <3>2, <3>4, <3>5 DEF PlacedInv
  <2>2. CASE Placed!Next
    BY <2>2, NewBlockStep, CreateThingStep, WithoutRoomStep, ThingDestroyAtOnceStep, ThingDestroyDeferredStep,
       ThingCollectStep DEF Placed!Next
  <2> QED
    BY <2>1, <2>2
<1>3. PlacedInv => PlacedAreApartAndCounted
  BY PlacedTells DEF PlacedAreApartAndCounted
<1> QED
  BY <1>1, <1>2, <1>3, PTL DEF Placed!Spec

-----------------------------------------------------------------------------
(* D3DUploadBuffers *)

(* The members of a set of indices, in order, are as many as it has.       *)
LEMMA Ranks ==
  ASSUME NEW n \in Nat, NEW K \in SUBSET (1 .. n)
  PROVE  /\ Uploads!Cardinality(K) \in 0 .. n
         /\ \A k \in K : Uploads!Rank(K, k) \in 1 .. Uploads!Cardinality(K)
         /\ \A k, l \in K : Uploads!Rank(K, k) = Uploads!Rank(K, l) => k = l
         /\ \A i \in 1 .. Uploads!Cardinality(K) : \E k \in K : Uploads!Rank(K, k) = i
<1> DEFINE Upto(k) == {j \in K : j <= k}
           rank == [k \in K |-> Uploads!Rank(K, k)]
           size == Cardinality(K)
<1>0. \A T : Uploads!Cardinality(T) = Cardinality(T)
  BY DEF Uploads!Cardinality, Cardinality
<1>00. \A k : Uploads!Rank(K, k) = Cardinality(Upto(k))
  BY <1>0 DEF Uploads!Rank
<1>1. IsFiniteSet(K) /\ size \in 0 .. n
  <2>1. IsFiniteSet(1 .. n) /\ Cardinality(1 .. n) = n
    BY FS_Interval
  <2>2. IsFiniteSet(K) /\ size <= Cardinality(1 .. n)
    BY <2>1, FS_Subset
  <2>3. size \in Nat
    BY <2>2, FS_CardinalityType
  <2> QED
    BY <2>1, <2>2, <2>3
<1>2. ASSUME NEW k \in K PROVE IsFiniteSet(Upto(k)) /\ Cardinality(Upto(k)) \in 1 .. size
  <2>1. Upto(k) \in SUBSET K /\ k \in Upto(k)
    OBVIOUS
  <2>2. IsFiniteSet(Upto(k)) /\ Cardinality(Upto(k)) \in Nat /\ Cardinality(Upto(k)) <= size
    BY <1>1, <2>1, FS_Subset, FS_CardinalityType
  <2>3. Cardinality(Upto(k)) # 0
    BY <2>1, <2>2, FS_EmptySet
  <2> QED
    BY <1>1, <2>2, <2>3
<1>3. ASSUME NEW k \in K, NEW l \in K, k < l PROVE Cardinality(Upto(k)) # Cardinality(Upto(l))
  <2>1. l \in Upto(l) /\ l \notin Upto(k)
    BY <1>3
  <2>2. \A j \in K : j \in Nat
    OBVIOUS
  <2>3. \A j \in K : j <= k => j <= l
    BY <1>3, <2>2
  <2>4. Upto(k) \in SUBSET Upto(l)
    BY <2>3
  <2> QED
    BY <1>2, <2>1, <2>4, FS_Subset
<1>4. ASSUME NEW k \in K, NEW l \in K, Cardinality(Upto(k)) = Cardinality(Upto(l)) PROVE k = l
  <2>1. k \in Nat /\ l \in Nat
    OBVIOUS
  <2> QED
    BY <1>3, <1>4, <2>1
<1> HIDE DEF Upto, size
<1>5. /\ \A k \in K : Uploads!Rank(K, k) \in 1 .. size
      /\ \A k, l \in K : Uploads!Rank(K, k) = Uploads!Rank(K, l) => k = l
  BY <1>00, <1>2, <1>4
<1>6. rank \in Injection(K, 1 .. size)
  BY <1>5 DEF Injection, IsInjective
<1>7. IsFiniteSet(1 .. size) /\ Cardinality(1 .. size) = size
  BY <1>1, FS_Interval
<1>8. rank \in Surjection(K, 1 .. size)
  BY <1>6, <1>7, FS_Injection DEF size
<1>9. \A i \in 1 .. size : \E k \in K : Uploads!Rank(K, k) = i
  BY <1>8 DEF Surjection
<1> QED
  BY <1>0, <1>1, <1>5, <1>9 DEF size

(* What Only leaves: each element at the indices given, once.              *)
Selects(t, s, K) ==
  /\ \A k \in K : \E i \in DOMAIN t : t[i] = s[k]
  /\ \E f \in [DOMAIN t -> K] :
       /\ \A i \in DOMAIN t : t[i] = s[f[i]]
       /\ \A i, j \in DOMAIN t : f[i] = f[j] => i = j
(* Only is such a selection, of the same kind of elements.                *)
LEMMA OnlyElements ==
  ASSUME NEW S, NEW s \in Seq(S), NEW K \in SUBSET DOMAIN s
  PROVE  Uploads!Only(s, K) \in Seq(S) /\ Selects(Uploads!Only(s, K), s, K)
<1> DEFINE n == Uploads!Cardinality(K)
           Pick(i) == CHOOSE k \in K : Uploads!Rank(K, k) = i
           f == [i \in 1 .. n |-> Pick(i)]
           t == [i \in 1 .. n |-> s[Pick(i)]]
<1>1. Len(s) \in Nat /\ DOMAIN s = 1 .. Len(s) /\ \A k \in DOMAIN s : s[k] \in S
  BY LenProperties, ElementOfSeq
<1>2. Uploads!Only(s, K) = t
  BY DEF Uploads!Only
<1>3. /\ n \in Nat
      /\ \A k, l \in K : Uploads!Rank(K, k) = Uploads!Rank(K, l) => k = l
      /\ \A k \in K : Uploads!Rank(K, k) \in 1 .. n
      /\ \A i \in 1 .. n : \E k \in K : Uploads!Rank(K, k) = i
  BY <1>1, Ranks
<1>4. \A i \in 1 .. n : Pick(i) \in K /\ Uploads!Rank(K, Pick(i)) = i
  BY <1>3
<1>5. \A k \in K : Pick(Uploads!Rank(K, k)) = k
  BY <1>3
<1> HIDE DEF Pick, n
<1>6. f \in [1 .. n -> K] /\ \A i, j \in 1 .. n : f[i] = f[j] => i = j
  BY <1>4
<1>7. t \in [1 .. n -> S]
  BY <1>1, <1>4
<1>8. t \in Seq(S)
  BY <1>3, <1>7, SeqDef
<1>9. \A k \in K : \E i \in 1 .. n : t[i] = s[k]
  BY <1>3, <1>5
<1>10. DOMAIN t = 1 .. n /\ \A i \in 1 .. n : t[i] = s[f[i]]
  OBVIOUS
<1> HIDE DEF t, f
<1>11. Selects(t, s, K)
  <2>1. \A k \in K : \E i \in DOMAIN t : t[i] = s[k]
    BY <1>9, <1>10
  <2>2. /\ f \in [DOMAIN t -> K]
        /\ \A i \in DOMAIN t : t[i] = s[f[i]]
        /\ \A i, j \in DOMAIN t : f[i] = f[j] => i = j
    BY <1>6, <1>10
  <2> QED
    BY <2>1, <2>2 DEF Selects
<1> QED
  BY <1>2, <1>8, <1>11

(* The buffers of a queue, and that it has none twice.                     *)
Buffers(s) == {s[i].buffer : i \in DOMAIN s}
Distinct(s) == \A i, j \in DOMAIN s : s[i].buffer = s[j].buffer => i = j

(* A selection has the buffers of its indices, none twice if none was.     *)
LEMMA OnlyBuffers ==
  ASSUME NEW S, NEW s \in Seq(S), NEW K \in SUBSET DOMAIN s
  PROVE  /\ Buffers(Uploads!Only(s, K)) = {s[k].buffer : k \in K}
         /\ Distinct(s) => Distinct(Uploads!Only(s, K))
<1>1. PICK t : t = Uploads!Only(s, K)
  OBVIOUS
<1>2. Selects(t, s, K)
  BY <1>1, OnlyElements
<1>3. PICK f \in [DOMAIN t -> K] :
        /\ \A i \in DOMAIN t : t[i] = s[f[i]]
        /\ \A i, j \in DOMAIN t : f[i] = f[j] => i = j
  BY <1>2 DEF Selects
<1>4. Buffers(t) = {s[k].buffer : k \in K}
  <2>1. \A b \in Buffers(t) : b \in {s[k].buffer : k \in K}
    BY <1>3 DEF Buffers
  <2>2. ASSUME NEW k \in K PROVE s[k].buffer \in Buffers(t)
    <3>1. PICK i \in DOMAIN t : t[i] = s[k]
      BY <1>2 DEF Selects
    <3> QED
      BY <3>1 DEF Buffers
  <2> QED
    BY <2>1, <2>2
<1>5. ASSUME Distinct(s) PROVE Distinct(t)
  BY <1>3, <1>5 DEF Distinct
<1> QED
  BY <1>1, <1>4, <1>5

(* Two queues with no buffer in common, one behind the other.              *)
LEMMA JoinedBuffers ==
  ASSUME NEW S, NEW s \in Seq(S), NEW t \in Seq(S)
  PROVE  /\ s \o t \in Seq(S)
         /\ Buffers(s \o t) = Buffers(s) \cup Buffers(t)
         /\ Distinct(s) /\ Distinct(t) /\ Buffers(s) \cap Buffers(t) = {} => Distinct(s \o t)
<1>1. PICK m \in Nat, n \in Nat : m = Len(s) /\ n = Len(t)
  BY LenProperties
<1>2. PICK u : u = s \o t
  OBVIOUS
<1>3. /\ u \in Seq(S) /\ DOMAIN s = 1 .. m /\ DOMAIN t = 1 .. n /\ DOMAIN u = 1 .. m + n
      /\ \A i \in 1 .. m + n : u[i] = IF i <= m THEN s[i] ELSE t[i - m]
  <2>1. u \in Seq(S) /\ Len(u) = m + n
        /\ \A i \in 1 .. m + n : u[i] = IF i <= m THEN s[i] ELSE t[i - m]
    BY <1>1, <1>2, ConcatProperties
  <2> QED
    BY <1>1, <2>1, LenProperties
<1>4. \A i \in 1 .. m : i \in 1 .. m + n /\ u[i] = s[i]
  BY <1>3
<1>5. \A i \in 1 .. n : m + i \in 1 .. m + n /\ u[m + i] = t[i]
  <2> SUFFICES ASSUME NEW i \in 1 .. n PROVE m + i \in 1 .. m + n /\ u[m + i] = t[i]
    OBVIOUS
  <2>1. m + i \in 1 .. m + n /\ ~(m + i <= m) /\ (m + i) - m = i
    OBVIOUS
  <2> QED
    BY <1>3, <2>1
<1>6. \A i \in 1 .. m + n : \/ i \in 1 .. m /\ u[i] = s[i]
                            \/ i - m \in 1 .. n /\ u[i] = t[i - m]
  BY <1>3
<1>7. Buffers(u) = Buffers(s) \cup Buffers(t)
  <2>1. \A b : b \in Buffers(u) => b \in Buffers(s) \/ b \in Buffers(t)
    BY <1>3, <1>6 DEF Buffers
  <2>2. \A b : b \in Buffers(s) => b \in Buffers(u)
    BY <1>3, <1>4 DEF Buffers
  <2>3. \A b : b \in Buffers(t) => b \in Buffers(u)
    <3> SUFFICES ASSUME NEW i \in 1 .. n PROVE t[i].buffer \in Buffers(u)
      BY <1>3 DEF Buffers
    <3>1. m + i \in DOMAIN u /\ u[m + i] = t[i]
      BY <1>3, <1>5
    <3> QED
      BY <3>1 DEF Buffers
  <2> QED
    BY <2>1, <2>2, <2>3
<1>8. ASSUME Distinct(s), Distinct(t), Buffers(s) \cap Buffers(t) = {} PROVE Distinct(u)
  <2> SUFFICES ASSUME NEW i \in 1 .. m + n, NEW j \in 1 .. m + n, u[i].buffer = u[j].buffer PROVE i = j
    BY <1>3 DEF Distinct
  <2>1. CASE i \in 1 .. m /\ u[i] = s[i] /\ j \in 1 .. m /\ u[j] = s[j]
    BY <1>3, <1>8, <2>1 DEF Distinct
  <2>2. CASE i - m \in 1 .. n /\ u[i] = t[i - m] /\ j - m \in 1 .. n /\ u[j] = t[j - m]
    <3>1. i - m = j - m
      BY <1>3, <1>8, <2>2 DEF Distinct
    <3> QED
      BY <3>1
  <2>3. CASE i \in 1 .. m /\ u[i] = s[i] /\ j - m \in 1 .. n /\ u[j] = t[j - m]
    <3>1. u[i].buffer \in Buffers(s) /\ u[j].buffer \in Buffers(t)
      BY <1>3, <2>3 DEF Buffers
    <3> QED
      BY <1>8, <3>1
  <2>4. CASE i - m \in 1 .. n /\ u[i] = t[i - m] /\ j \in 1 .. m /\ u[j] = s[j]
    <3>1. u[i].buffer \in Buffers(t) /\ u[j].buffer \in Buffers(s)
      BY <1>3, <2>4 DEF Buffers
    <3> QED
      BY <1>8, <3>1
  <2> QED
    BY <1>6, <2>1, <2>2, <2>3, <2>4
<1> QED
  BY <1>2, <1>3, <1>7, <1>8

(* One list uploads no more than a buffer holds: LinearUploadBuffer starts *)
(* over when its end is reached, and d3d_upload_wrap shows what comes of   *)
(* a list that uploads more.                                               *)
OneBufferEach == UploadSize \in Nat \ {0} /\ PerList \in 0 .. UploadSize

UploadTypes ==
  /\ offset \in Seq(Nat)
  /\ list \in [List -> [state : {"closed", "open", "completed"}, current : Nat,
                        returning : Seq(Nat), copies : SUBSET Uploads!Copy, used : Nat]]
  /\ gpu \in Seq([submit : Nat, copies : SUBSET Uploads!Copy])
  /\ submits \in Nat
  /\ deferred \in Seq([buffer : Nat, submit : Nat])
  /\ available \in Seq([buffer : Nat, unused : Nat])
  /\ uploadsDevice \in {"alive", "destroyed"}

(* The buffer a list copies from, 0 for none.                              *)
Mine(l) ==
  IF l.current # 0 THEN l.current ELSE IF l.returning = <<>> THEN 0 ELSE l.returning[1]
CopiesApart(copies) == \A p, q \in copies : p # q => ~Uploads!Overlap(p, q)

(* A list takes one buffer at most, and fills it from its start.           *)
ListForm(l) ==
  /\ l.state = "closed" => l = Uploads!Blank
  /\ l.state = "open" =>
       /\ l.returning = <<>> /\ l.used <= PerList
       /\ l.current = 0 => l.used = 0
       /\ \A p \in l.copies : p.first + p.size <= l.used
  /\ l.state = "completed" =>
       l.current = 0 /\ (l.returning = <<>> \/ \E b \in Nat \ {0} : l.returning = <<b>>)
  /\ \A p \in l.copies : p.buffer # 0 /\ p.buffer = Mine(l)
  /\ CopiesApart(l.copies) /\ IsFiniteSet(l.copies)
FilledSoFar ==
  \A c \in List : list[c].state = "open" /\ list[c].current # 0 =>
    offset[list[c].current] = list[c].used

(* A buffer is with one list, or deferred once, available once or deleted. *)
Hands(l) == {Mine(l[c]) : c \in List} \ {0}
HeldByOne(l) == \A c, e \in List : Mine(l[c]) = Mine(l[e]) /\ Mine(l[c]) # 0 => c = e
Parted(h, d, a, x, n) ==
  /\ h \cap d = {} /\ h \cap a = {} /\ h \cap x = {} /\ d \cap a = {} /\ d \cap x = {} /\ a \cap x = {}
  /\ h \cup d \cup a \cup x = 1 .. n
InOnePlace ==
  /\ HeldByOne(list) /\ Distinct(deferred) /\ Distinct(available)
  /\ Parted(Hands(list), Buffers(deferred), Buffers(available), deleted, Len(offset))

(* What the GPU copies from comes back with the submission it is part of.  *)
GpuForm ==
  /\ \A i \in DOMAIN gpu : gpu[i].submit <= submits /\ CopiesApart(gpu[i].copies)
  /\ \A i, j \in DOMAIN gpu : gpu[i].submit = gpu[j].submit => i = j
  /\ \A i \in DOMAIN gpu : \A p \in gpu[i].copies : \E k \in DOMAIN deferred :
       deferred[k].buffer = p.buffer /\ deferred[k].submit = gpu[i].submit

NothingAfterwards ==
  uploadsDevice = "destroyed" =>
    /\ \A c \in List : list[c].state = "closed"
    /\ gpu = <<>> /\ deferred = <<>> /\ available = <<>>

UploadInv ==
  /\ UploadTypes /\ FilledSoFar /\ InOnePlace /\ GpuForm /\ NothingAfterwards
  /\ \A c \in List : ListForm(list[c])

(* No list, buffer or submission: nothing to be wrong.                     *)
LEMMA UploadsStart == ASSUME OneBufferEach, Uploads!Init PROVE UploadInv
<1> USE DEF Uploads!Init, Uploads!Blank, Uploads!None
<1>0. \A c \in List : list[c] = Uploads!Blank
  OBVIOUS
<1>1. UploadTypes
  <2>1. \A S : <<>> \in Seq(S)
    OBVIOUS
  <2>2. Uploads!Blank \in [state : {"closed", "open", "completed"}, current : Nat,
                           returning : Seq(Nat), copies : SUBSET Uploads!Copy, used : Nat]
    BY <2>1
  <2> QED
    BY <2>1, <2>2 DEF UploadTypes
<1>2. FilledSoFar
  BY <1>0 DEF FilledSoFar
<1>3. InOnePlace
  <2>1. \A c \in List : Mine(list[c]) = 0
    BY <1>0 DEF Mine
  <2>2. Hands(list) = {} /\ HeldByOne(list)
    BY <2>1 DEF Hands, HeldByOne
  <2>3. Buffers(<<>>) = {} /\ Distinct(<<>>)
    BY DEF Buffers, Distinct
  <2>4. deleted = {} /\ 1 .. Len(offset) = {}
    OBVIOUS
  <2> QED
    BY <2>2, <2>3, <2>4 DEF InOnePlace, Parted
<1>4. GpuForm
  BY DEF GpuForm
<1>5. NothingAfterwards
  BY DEF NothingAfterwards
<1>6. ListForm(Uploads!Blank)
  BY FS_EmptySet DEF ListForm, CopiesApart
<1> QED
  BY <1>0, <1>1, <1>2, <1>3, <1>4, <1>5, <1>6 DEF UploadInv

(* What one list gives up or takes, the others do not see.                 *)
LEMMA HandsAfter ==
  ASSUME NEW f, NEW g, NEW c \in List, HeldByOne(f), \A e \in List : e # c => g[e] = f[e]
  PROVE  /\ Mine(g[c]) = Mine(f[c]) => HeldByOne(g) /\ Hands(g) = Hands(f)
         /\ Mine(f[c]) = 0 /\ Mine(g[c]) # 0 /\ Mine(g[c]) \notin Hands(f) =>
              HeldByOne(g) /\ Hands(g) = Hands(f) \cup {Mine(g[c])}
         /\ Mine(g[c]) = 0 => HeldByOne(g) /\ Hands(g) = Hands(f) \ {Mine(f[c])}
<1>1. ASSUME Mine(g[c]) = Mine(f[c]) PROVE HeldByOne(g) /\ Hands(g) = Hands(f)
  <2>1. \A e \in List : Mine(g[e]) = Mine(f[e])
    BY <1>1
  <2> QED
    BY <2>1 DEF HeldByOne, Hands
<1>2. ASSUME Mine(f[c]) = 0, Mine(g[c]) # 0, Mine(g[c]) \notin Hands(f)
      PROVE  HeldByOne(g) /\ Hands(g) = Hands(f) \cup {Mine(g[c])}
  <2>1. \A e \in List : e # c => Mine(g[e]) = Mine(f[e]) /\ Mine(g[e]) # Mine(g[c])
    BY <1>2 DEF Hands
  <2>2. HeldByOne(g)
    BY <1>2, <2>1 DEF HeldByOne
  <2>3. ASSUME NEW b \in Hands(g) PROVE b \in Hands(f) \cup {Mine(g[c])}
    BY <1>2, <2>1, <2>3 DEF Hands
  <2>4. ASSUME NEW b \in Hands(f) PROVE b \in Hands(g)
    BY <1>2, <2>1, <2>4 DEF Hands
  <2>5. Mine(g[c]) \in Hands(g)
    BY <1>2 DEF Hands
  <2> QED
    BY <2>2, <2>3, <2>4, <2>5
<1>3. ASSUME Mine(g[c]) = 0 PROVE HeldByOne(g) /\ Hands(g) = Hands(f) \ {Mine(f[c])}
  <2>1. \A e \in List : e # c => Mine(g[e]) = Mine(f[e])
    OBVIOUS
  <2>2. HeldByOne(g)
    BY <1>3, <2>1 DEF HeldByOne
  <2>3. ASSUME NEW b \in Hands(g) PROVE b \in Hands(f) \ {Mine(f[c])}
    <3>1. PICK e \in List : b = Mine(g[e]) /\ b # 0
      BY DEF Hands
    <3>2. e # c /\ b = Mine(f[e])
      BY <1>3, <2>1, <3>1
    <3>3. b \in Hands(f)
      BY <3>1, <3>2 DEF Hands
    <3>4. b # Mine(f[c])
      BY <3>1, <3>2 DEF HeldByOne
    <3> QED
      BY <3>3, <3>4
  <2>4. ASSUME NEW b \in Hands(f) \ {Mine(f[c])} PROVE b \in Hands(g)
    BY <2>1, <2>4 DEF Hands
  <2> QED
    BY <2>2, <2>3, <2>4
<1> QED
  BY <1>1, <1>2, <1>3

UploadRecord == [state : {"closed", "open", "completed"}, current : Nat,
                 returning : Seq(Nat), copies : SUBSET Uploads!Copy, used : Nat]

(* A list starts with no buffer.                                           *)
LEMMA GetUploadListStep ==
  ASSUME OneBufferEach, UploadInv, NEW c \in List, Uploads!GetCommandBuffer(c)
  PROVE  UploadInv'
<1>0. /\ list[c].state = "closed" /\ list[c] = Uploads!Blank /\ uploadsDevice = "alive"
      /\ list' = [list EXCEPT ![c].state = "open"]
  BY DEF Uploads!GetCommandBuffer, UploadInv, ListForm
<1>00. offset' = offset /\ gpu' = gpu /\ submits' = submits /\ deferred' = deferred
       /\ available' = available /\ deleted' = deleted /\ uploadsDevice' = uploadsDevice
  BY DEF Uploads!GetCommandBuffer
<1>1. PICK l : l = [Uploads!Blank EXCEPT !.state = "open"]
  OBVIOUS
<1>2. /\ list' = [list EXCEPT ![c] = l] /\ list \in [List -> UploadRecord]
      /\ l \in UploadRecord /\ l.state = "open" /\ l.current = 0 /\ l.returning = <<>>
      /\ l.copies = {} /\ l.used = 0
  BY <1>0, <1>1 DEF UploadInv, UploadTypes, UploadRecord, Uploads!Blank, Uploads!None
<1>3. list' \in [List -> UploadRecord] /\ list'[c] = l /\ \A e \in List : e # c => list'[e] = list[e]
  BY <1>2
<1>4. ListForm(l) /\ Mine(l) = 0 /\ Mine(list[c]) = 0
  BY <1>0, <1>2, FS_EmptySet DEF ListForm, Mine, CopiesApart, Uploads!Blank, Uploads!None, OneBufferEach
<1>5. UploadTypes'
  BY <1>00, <1>3 DEF UploadInv, UploadTypes, UploadRecord
<1>6. FilledSoFar'
  BY <1>00, <1>2, <1>3 DEF UploadInv, FilledSoFar
<1>7. InOnePlace'
  <2>1. HeldByOne(list)
    BY DEF UploadInv, InOnePlace
  <2>2. HeldByOne(list') /\ Hands(list') = Hands(list)
    BY <1>3, <1>4, <2>1, HandsAfter
  <2> QED
    BY <1>00, <2>2 DEF UploadInv, InOnePlace
<1>8. GpuForm'
  BY <1>00 DEF UploadInv, GpuForm
<1>9. NothingAfterwards'
  BY <1>0, <1>00 DEF NothingAfterwards
<1>10. \A e \in List : ListForm(list'[e])
  BY <1>3, <1>4 DEF UploadInv
<1> QED
  BY <1>5, <1>6, <1>7, <1>8, <1>9, <1>10 DEF UploadInv

(* The buffer stays with the list, now among those it returns.             *)
LEMMA CompleteUploadsStep ==
  ASSUME OneBufferEach, UploadInv, NEW c \in List, Uploads!Complete(c)
  PROVE  UploadInv'
<1>0. /\ list[c].state = "open" /\ ListForm(list[c]) /\ uploadsDevice = "alive"
  BY DEF Uploads!Complete, UploadInv, NothingAfterwards, UploadTypes
<1>00. offset' = offset /\ gpu' = gpu /\ submits' = submits /\ deferred' = deferred
       /\ available' = available /\ deleted' = deleted /\ uploadsDevice' = uploadsDevice
  BY DEF Uploads!Complete
<1>1. PICK l : l = [list[c] EXCEPT !.state = "completed", !.current = 0,
                      !.returning = IF list[c].current = 0 THEN @ ELSE Append(@, list[c].current)]
  OBVIOUS
<1>2. list' = [list EXCEPT ![c] = l] /\ list \in [List -> UploadRecord] /\ list[c] \in UploadRecord
  BY <1>1 DEF Uploads!Complete, UploadInv, UploadTypes, UploadRecord, Uploads!None
<1>3. PICK b \in Nat : b = list[c].current
  BY <1>2 DEF UploadRecord
<1>4. /\ l.state = "completed" /\ l.current = 0 /\ l.copies = list[c].copies /\ l.used = list[c].used
      /\ l.returning = IF b = 0 THEN <<>> ELSE <<b>>
  <2>1. list[c].returning = <<>> /\ Append(<<>>, b) = <<b>>
    BY <1>0 DEF ListForm
  <2> QED
    BY <1>1, <1>2, <1>3, <2>1 DEF UploadRecord
<1>5. l \in UploadRecord
  <2>1. <<b>> \in Seq(Nat) /\ <<>> \in Seq(Nat)
    OBVIOUS
  <2> QED
    BY <1>1, <1>2, <1>3, <1>4, <2>1 DEF UploadRecord
<1>6. list' \in [List -> UploadRecord] /\ list'[c] = l /\ \A e \in List : e # c => list'[e] = list[e]
  BY <1>2, <1>5
<1>7. Mine(l) = Mine(list[c])
  <2>1. list[c].returning = <<>>
    BY <1>0 DEF ListForm
  <2>2. b # 0 => <<b>> # <<>> /\ <<b>>[1] = b
    OBVIOUS
  <2> QED
    BY <1>3, <1>4, <2>1, <2>2 DEF Mine
<1>8. ListForm(l)
  BY <1>0, <1>3, <1>4, <1>7 DEF ListForm
<1>9. UploadTypes'
  BY <1>00, <1>6 DEF UploadInv, UploadTypes, UploadRecord
<1>10. FilledSoFar'
  BY <1>00, <1>4, <1>6 DEF UploadInv, FilledSoFar
<1>11. InOnePlace'
  <2>1. HeldByOne(list)
    BY DEF UploadInv, InOnePlace
  <2>2. HeldByOne(list') /\ Hands(list') = Hands(list)
    BY <1>6, <1>7, <2>1, HandsAfter
  <2> QED
    BY <1>00, <2>2 DEF UploadInv, InOnePlace
<1>12. GpuForm'
  BY <1>00 DEF UploadInv, GpuForm
<1>13. NothingAfterwards'
  BY <1>0, <1>00 DEF NothingAfterwards
<1>14. \A e \in List : ListForm(list'[e])
  BY <1>6, <1>8 DEF UploadInv
<1> QED
  BY <1>9, <1>10, <1>11, <1>12, <1>13, <1>14 DEF UploadInv

(* The buffer an upload goes into, as it stands before it: taken already,  *)
(* or the last one available, started over, or a new one.                  *)
LEMMA BufferForUpload ==
  ASSUME UploadInv, NEW c \in List, list[c].state = "open",
         NEW got,
         got = IF list[c].current = 0 THEN Uploads!GetLinearBufferAllocation
                 ELSE [buffer |-> list[c].current, offset |-> offset, available |-> available]
  PROVE  /\ got.offset \in Seq(Nat) /\ got.buffer \in 1 .. Len(got.offset)
         /\ got.offset[got.buffer] = list[c].used
         /\ \A k \in 1 .. Len(offset) : k \in 1 .. Len(got.offset) /\ (k # got.buffer => got.offset[k] = offset[k])
         /\ got.available \in Seq([buffer : Nat, unused : Nat]) /\ Distinct(got.available)
         /\ \/ Mine(list[c]) = got.buffer /\ got.available = available /\ got.offset = offset
            \/ /\ Mine(list[c]) = 0 /\ got.buffer \notin Hands(list)
               /\ Parted(Hands(list) \cup {got.buffer}, Buffers(deferred), Buffers(got.available),
                         deleted, Len(got.offset))
<1>1. /\ list[c].returning = <<>> /\ list[c].current \in Nat
      /\ list[c].current = 0 => list[c].used = 0
      /\ list[c].current # 0 => offset[list[c].current] = list[c].used
  BY DEF UploadInv, UploadTypes, ListForm, FilledSoFar
<1>2. Mine(list[c]) = list[c].current
  BY <1>1 DEF Mine
<1>3. PICK n \in Nat : n = Len(offset) /\ DOMAIN offset = 1 .. n /\ offset \in Seq(Nat)
  BY LenProperties DEF UploadInv, UploadTypes
<1>4. /\ available \in Seq([buffer : Nat, unused : Nat]) /\ Distinct(available)
      /\ Parted(Hands(list), Buffers(deferred), Buffers(available), deleted, n)
  BY <1>3 DEF UploadInv, UploadTypes, InOnePlace
<1>5. CASE list[c].current # 0
  <2>1. got.buffer = list[c].current /\ got.offset = offset /\ got.available = available
    BY <1>5
  <2>2. list[c].current \in Hands(list)
    BY <1>2, <1>5 DEF Hands
  <2>3. list[c].current \in 1 .. n
    BY <1>4, <2>2 DEF Parted
  <2> QED
    BY <1>1, <1>2, <1>3, <1>4, <1>5, <2>1, <2>3
<1>6. CASE list[c].current = 0 /\ available = <<>>
  <2>1. got.buffer = n + 1 /\ got.offset = Append(offset, 0) /\ got.available = <<>>
    BY <1>3, <1>6 DEF Uploads!GetLinearBufferAllocation
  <2>2. /\ Append(offset, 0) \in Seq(Nat) /\ Len(Append(offset, 0)) = n + 1
        /\ \A k \in 1 .. n : Append(offset, 0)[k] = offset[k]
        /\ Append(offset, 0)[n + 1] = 0
    BY <1>3, AppendProperties
  <2>3. n + 1 \notin Hands(list) /\ 1 .. n + 1 = (1 .. n) \cup {n + 1}
        /\ n + 1 \notin Buffers(deferred) /\ n + 1 \notin deleted /\ n + 1 \notin Buffers(available)
    BY <1>4 DEF Parted
  <2>4. Parted(Hands(list) \cup {n + 1}, Buffers(deferred), Buffers(available), deleted, n + 1)
    BY <1>4, <2>3 DEF Parted
  <2> QED
    BY <1>1, <1>2, <1>3, <1>4, <1>6, <2>1, <2>2, <2>3, <2>4
<1>7. CASE list[c].current = 0 /\ available # <<>>
  <2>1. PICK b, rest : b = Last(available).buffer /\ rest = Front(available)
    OBVIOUS
  <2>2. got.buffer = b /\ got.offset = [offset EXCEPT ![b] = 0] /\ got.available = rest
    BY <1>7, <2>1 DEF Uploads!GetLinearBufferAllocation, Uploads!Last, Last, Uploads!Front, Front
  <2>3. PICK m \in Nat \ {0} : m = Len(available)
    BY <1>4, <1>7, FrontLastElements
  <2>4. /\ b = available[m].buffer /\ Len(rest) = m - 1 /\ rest \in Seq([buffer : Nat, unused : Nat])
        /\ \A i \in 1 .. m - 1 : rest[i] = available[i]
    BY <1>4, <1>7, <2>1, <2>3, FrontLastElements, FrontLastType
  <2>5. DOMAIN available = 1 .. m /\ DOMAIN rest = 1 .. m - 1
    BY <1>4, <2>3, <2>4, LenProperties
  <2>6. Distinct(rest) /\ b \notin Buffers(rest) /\ Buffers(available) = Buffers(rest) \cup {b}
    <3>0. \A i \in DOMAIN rest : i \in DOMAIN available /\ i # m /\ rest[i] = available[i]
      BY <2>4, <2>5
    <3>1. Distinct(rest)
      BY <1>4, <3>0 DEF Distinct
    <3>2. b \notin Buffers(rest)
      <4>1. m \in DOMAIN available
        BY <2>5
      <4>2. \A i \in DOMAIN rest : rest[i].buffer # b
        BY <1>4, <2>4, <3>0, <4>1 DEF Distinct
      <4> QED
        BY <4>2 DEF Buffers
    <3>3. ASSUME NEW x \in Buffers(available) PROVE x \in Buffers(rest) \cup {b}
      <4>1. PICK i \in 1 .. m : x = available[i].buffer
        BY <2>5 DEF Buffers
      <4>2. i = m \/ i \in 1 .. m - 1
        OBVIOUS
      <4> QED
        BY <2>4, <2>5, <4>1, <4>2 DEF Buffers
    <3>4. Buffers(rest) \subseteq Buffers(available)
      BY <3>0 DEF Buffers
    <3>5. b \in Buffers(available)
      BY <2>4, <2>5 DEF Buffers
    <3> QED
      BY <3>1, <3>2, <3>3, <3>4, <3>5
  <2>7. b \in 1 .. n /\ b \notin Hands(list)
        /\ Parted(Hands(list) \cup {b}, Buffers(deferred), Buffers(rest), deleted, n)
    BY <1>4, <2>6 DEF Parted
  <2>8. PICK o : o = [offset EXCEPT ![b] = 0]
    OBVIOUS
  <2>9. o \in Seq(Nat) /\ Len(o) = n /\ o[b] = 0 /\ \A k \in 1 .. n : k # b => o[k] = offset[k]
    <3>1. offset \in [1 .. n -> Nat]
      BY <1>3, ElementOfSeq
    <3>2. o \in [1 .. n -> Nat]
      BY <2>8, <3>1
    <3>3. o \in Seq(Nat)
      BY <3>2, SeqDef
    <3>4. Len(o) = n
      BY <3>2, <3>3, LenProperties
    <3> QED
      BY <2>7, <2>8, <3>1, <3>3, <3>4
  <2>10. got.offset = o /\ got.buffer = b /\ got.available = rest
    BY <2>2, <2>8
  <2>11. Mine(list[c]) = 0 /\ list[c].used = 0
    BY <1>1, <1>2, <1>7
  <2> HIDE DEF Parted
  <2> QED
    BY <1>3, <2>4, <2>6, <2>7, <2>9, <2>10, <2>11
<1> QED
  BY <1>5, <1>6, <1>7

(* A copy is behind the earlier ones of its list, in the same buffer.      *)
LEMMA UpdateBufferStep ==
  ASSUME OneBufferEach, UploadInv, NEW c \in List, NEW size \in 1 .. UploadSize,
         Uploads!UpdateBuffer(c, size)
  PROVE  UploadInv'
<1>1. PICK got : got = IF list[c].current = 0 THEN Uploads!GetLinearBufferAllocation
                 ELSE [buffer |-> list[c].current, offset |-> offset, available |-> available]
  OBVIOUS
<1>2. PICK b, o : b = got.buffer /\ o = got.offset
  OBVIOUS
<1>3. PICK first : first = Uploads!Allocate(o[b], size)
  OBVIOUS
<1>4. PICK copy : copy = [buffer |-> b, first |-> first, size |-> size,
                          no |-> Uploads!Cardinality(list[c].copies)]
  OBVIOUS
<1>5. /\ list[c].state = "open" /\ list[c].used + size <= PerList
      /\ available' = got.available /\ offset' = [o EXCEPT ![b] = first + size]
      /\ list' = [list EXCEPT ![c].current = b, ![c].copies = @ \cup {copy}, ![c].used = @ + size]
      /\ gpu' = gpu /\ submits' = submits /\ deferred' = deferred /\ deleted' = deleted
      /\ uploadsDevice' = uploadsDevice
  BY <1>1, <1>2, <1>3, <1>4 DEF Uploads!UpdateBuffer, Uploads!None
<1>6. ListForm(list[c]) /\ list \in [List -> UploadRecord] /\ list[c] \in UploadRecord
  BY DEF UploadInv, UploadTypes, UploadRecord
<1>7. PICK used \in Nat : used = list[c].used
  BY <1>6 DEF UploadRecord
<1>8. /\ o \in Seq(Nat) /\ b \in 1 .. Len(o) /\ o[b] = used
      /\ \A k \in 1 .. Len(offset) : k \in 1 .. Len(o) /\ (k # b => o[k] = offset[k])
      /\ available' \in Seq([buffer : Nat, unused : Nat]) /\ Distinct(available')
      /\ \/ Mine(list[c]) = b /\ available' = available /\ o = offset
         \/ /\ Mine(list[c]) = 0 /\ b \notin Hands(list)
            /\ Parted(Hands(list) \cup {b}, Buffers(deferred), Buffers(available'), deleted, Len(o))
  BY <1>1, <1>2, <1>5, <1>7, BufferForUpload
<1>9. first = used /\ used + size <= PerList
  BY <1>3, <1>5, <1>7, <1>8 DEF Uploads!Allocate, OneBufferEach
<1>10. /\ offset' \in Seq(Nat) /\ Len(offset') = Len(o) /\ Len(o) \in Nat /\ offset'[b] = used + size
       /\ \A k \in 1 .. Len(o) : k # b => offset'[k] = o[k]
  <2>1. Len(o) \in Nat /\ o \in [1 .. Len(o) -> Nat]
    BY <1>8, LenProperties, ElementOfSeq
  <2>2. first + size \in Nat
    BY <1>9
  <2>3. offset' \in [1 .. Len(o) -> Nat]
    BY <1>5, <2>1, <2>2
  <2>4. offset' \in Seq(Nat)
    BY <2>1, <2>3, SeqDef
  <2>5. Len(offset') = Len(o)
    BY <2>1, <2>3, <2>4, LenProperties
  <2> QED
    BY <1>5, <1>8, <1>9, <2>1, <2>4, <2>5
<1>11. b \in Nat \ {0}
  BY <1>8, <1>10
<1>12. IsFiniteSet(list[c].copies) /\ Uploads!Cardinality(list[c].copies) \in Nat
  <2>1. \A S : Uploads!Cardinality(S) = Cardinality(S)
    BY DEF Uploads!Cardinality, Cardinality
  <2> QED
    BY <1>6, <2>1, FS_CardinalityType DEF ListForm
<1>13. copy \in Uploads!Copy
  BY <1>4, <1>7, <1>9, <1>11, <1>12 DEF Uploads!Copy
<1>14. PICK l : l = [list[c] EXCEPT !.current = b, !.copies = @ \cup {copy}, !.used = @ + size]
  OBVIOUS
<1>15. /\ l \in UploadRecord /\ l.state = "open" /\ l.current = b /\ l.used = used + size
       /\ l.copies = list[c].copies \cup {copy} /\ l.returning = list[c].returning
  BY <1>5, <1>6, <1>7, <1>11, <1>13, <1>14 DEF UploadRecord
<1>16. list' = [list EXCEPT ![c] = l]
  BY <1>5, <1>14
<1>17. list' \in [List -> UploadRecord] /\ list'[c] = l /\ \A e \in List : e # c => list'[e] = list[e]
  BY <1>6, <1>15, <1>16
<1>18. Mine(l) = b
  BY <1>11, <1>15 DEF Mine
<1>19. ListForm(l)
  <2>1. \A p \in list[c].copies : /\ p.first \in Nat /\ p.size \in Nat /\ p.first + p.size <= used
                                  /\ p.buffer # 0 /\ p.buffer = Mine(list[c])
    BY <1>5, <1>6, <1>7 DEF ListForm, UploadRecord, Uploads!Copy
  <2>2. copy.first = used /\ copy.size = size /\ copy.buffer = b
    BY <1>4, <1>9
  <2>3. \A p \in l.copies : p.first + p.size <= used + size
    BY <1>15, <2>1, <2>2
  <2>4. \A p \in l.copies : p.buffer # 0 /\ p.buffer = b
    BY <1>8, <1>11, <1>15, <2>1, <2>2
  <2>5. CopiesApart(l.copies)
    <3> SUFFICES ASSUME NEW p \in l.copies, NEW q \in l.copies, p # q PROVE ~Uploads!Overlap(p, q)
      BY DEF CopiesApart
    <3>1. CASE p = copy
      BY <1>15, <2>1, <2>2, <3>1 DEF Uploads!Overlap
    <3>2. CASE q = copy
      BY <1>15, <2>1, <2>2, <3>2 DEF Uploads!Overlap
    <3>3. CASE p # copy /\ q # copy
      BY <1>6, <1>15, <3>3 DEF ListForm, CopiesApart
    <3> QED
      BY <3>1, <3>2, <3>3
  <2>6. IsFiniteSet(l.copies)
    BY <1>12, <1>15, FS_AddElement
  <2>7. l.returning = <<>>
    BY <1>5, <1>6, <1>15 DEF ListForm
  <2> QED
    BY <1>9, <1>11, <1>15, <1>18, <2>3, <2>4, <2>5, <2>6, <2>7 DEF ListForm
<1>20. UploadTypes'
  BY <1>5, <1>8, <1>10, <1>17 DEF UploadInv, UploadTypes, UploadRecord
<1>21. HeldByOne(list) /\ Distinct(deferred)
       /\ Parted(Hands(list), Buffers(deferred), Buffers(available), deleted, Len(offset))
  BY DEF UploadInv, InOnePlace
<1>22. /\ HeldByOne(list') /\ Hands(list') = Hands(list) \cup {b}
       /\ Parted(Hands(list) \cup {b}, Buffers(deferred), Buffers(available'), deleted, Len(o))
  <2>1. CASE Mine(list[c]) = b /\ available' = available /\ o = offset
    <3>1. HeldByOne(list') /\ Hands(list') = Hands(list)
      BY <1>17, <1>18, <1>21, <2>1, HandsAfter
    <3>2. b \in Hands(list)
      BY <1>11, <2>1 DEF Hands
    <3>3. Hands(list) \cup {b} = Hands(list)
      BY <3>2
    <3> QED
      BY <1>21, <2>1, <3>1, <3>3
  <2>2. CASE /\ Mine(list[c]) = 0 /\ b \notin Hands(list)
             /\ Parted(Hands(list) \cup {b}, Buffers(deferred), Buffers(available'), deleted, Len(o))
    <3>1. HeldByOne(list') /\ Hands(list') = Hands(list) \cup {b}
      BY <1>11, <1>17, <1>18, <1>21, <2>2, HandsAfter
    <3> QED
      BY <2>2, <3>1
  <2> QED
    BY <1>8, <2>1, <2>2
<1>23. InOnePlace'
  BY <1>5, <1>8, <1>10, <1>21, <1>22 DEF InOnePlace
<1>24. FilledSoFar'
  <2> SUFFICES ASSUME NEW e \in List, list'[e].state = "open", list'[e].current # 0
               PROVE  offset'[list'[e].current] = list'[e].used
    BY DEF FilledSoFar
  <2>1. CASE e = c
    BY <1>10, <1>15, <1>17, <2>1
  <2>2. CASE e # c
    <3>1. list'[e] = list[e] /\ offset[list[e].current] = list[e].used
      BY <1>17, <2>2 DEF UploadInv, FilledSoFar
    <3>2. Mine(list[e]) = list[e].current
      BY <3>1 DEF Mine
    <3>3. list[e].current \in Hands(list)
      BY <3>1, <3>2 DEF Hands
    <3>4. list[e].current \in 1 .. Len(offset)
      BY <1>21, <3>3 DEF Parted
    <3>5. list[e].current # b
      BY <1>17, <1>18, <1>22, <2>2, <3>1, <3>2 DEF HeldByOne
    <3> QED
      BY <1>8, <1>10, <3>1, <3>4, <3>5
  <2> QED
    BY <2>1, <2>2
<1>25. GpuForm'
  BY <1>5 DEF UploadInv, GpuForm
<1>26. NothingAfterwards'
  <2>1. uploadsDevice = "alive"
    BY <1>5 DEF UploadInv, UploadTypes, NothingAfterwards
  <2> QED
    BY <1>5, <2>1 DEF NothingAfterwards
<1>27. \A e \in List : ListForm(list'[e])
  BY <1>17, <1>19 DEF UploadInv
<1> QED
  BY <1>20, <1>23, <1>24, <1>25, <1>26, <1>27 DEF UploadInv

(* The buffer goes from the list to the deferred ones, with the number the *)
(* work of the GPU has.                                                    *)
LEMMA SubmitUploadsStep ==
  ASSUME OneBufferEach, UploadInv, NEW c \in List, Uploads!SubmitQueue(c)
  PROVE  UploadInv'
<1> DEFINE Entry == [buffer : Nat, submit : Nat]
<1>1. PICK r : r = [i \in DOMAIN list[c].returning |->
                      [buffer |-> list[c].returning[i], submit |-> submits + 1]]
  OBVIOUS
<1>2. PICK g : g = [submit |-> submits + 1, copies |-> list[c].copies]
  OBVIOUS
<1>3. /\ list[c].state = "completed" /\ submits' = submits + 1
      /\ gpu' = Append(gpu, g) /\ deferred' = deferred \o r
      /\ list' = [list EXCEPT ![c] = Uploads!Blank]
      /\ offset' = offset /\ available' = available /\ deleted' = deleted
      /\ uploadsDevice' = uploadsDevice
  BY <1>1, <1>2 DEF Uploads!SubmitQueue
<1>4. ListForm(list[c]) /\ list \in [List -> UploadRecord] /\ list[c] \in UploadRecord
      /\ submits \in Nat /\ deferred \in Seq(Entry)
      /\ gpu \in Seq([submit : Nat, copies : SUBSET Uploads!Copy])
  BY DEF UploadInv, UploadTypes, UploadRecord
<1>5. PICK b : b = Mine(list[c])
  OBVIOUS
<1>6. \/ b = 0 /\ list[c].returning = <<>>
      \/ b \in Nat \ {0} /\ list[c].returning = <<b>>
  <2>1. CASE list[c].returning = <<>>
    BY <1>3, <1>4, <1>5, <2>1 DEF ListForm, Mine
  <2>2. CASE \E x \in Nat \ {0} : list[c].returning = <<x>>
    <3>1. PICK x \in Nat \ {0} : list[c].returning = <<x>>
      BY <2>2
    <3>2. <<x>> # <<>> /\ <<x>>[1] = x
      OBVIOUS
    <3>3. b = x
      BY <1>3, <1>4, <1>5, <3>1, <3>2 DEF ListForm, Mine
    <3> QED
      BY <3>1, <3>3
  <2> QED
    BY <1>3, <1>4, <2>1, <2>2 DEF ListForm
<1>7. /\ r \in Seq(Entry) /\ Distinct(r) /\ Buffers(r) = {b} \ {0}
      /\ b # 0 => 1 \in DOMAIN r /\ r[1].buffer = b /\ r[1].submit = submits + 1
  <2>1. CASE b = 0 /\ list[c].returning = <<>>
    <3>1. r = <<>>
      BY <1>1, <2>1
    <3> QED
      BY <2>1, <3>1 DEF Distinct, Buffers
  <2>2. CASE b \in Nat \ {0} /\ list[c].returning = <<b>>
    <3>1. DOMAIN <<b>> = 1 .. 1 /\ <<b>>[1] = b
      OBVIOUS
    <3>2. r = [i \in 1 .. 1 |-> [buffer |-> b, submit |-> submits + 1]]
      BY <1>1, <2>2, <3>1
    <3>3. r \in [1 .. 1 -> Entry]
      BY <1>4, <2>2, <3>2
    <3>4. r \in Seq(Entry)
      BY <3>3, SeqDef
    <3>5. DOMAIN r = {1} /\ r[1] = [buffer |-> b, submit |-> submits + 1]
      BY <3>2
    <3>6. Distinct(r) /\ Buffers(r) = {b}
      BY <3>5 DEF Distinct, Buffers
    <3> QED
      BY <2>2, <3>4, <3>5, <3>6
  <2> QED
    BY <1>6, <2>1, <2>2
<1>8. /\ HeldByOne(list) /\ Distinct(deferred) /\ Distinct(available)
      /\ Parted(Hands(list), Buffers(deferred), Buffers(available), deleted, Len(offset))
  BY DEF UploadInv, InOnePlace
<1>9. b # 0 => b \in Hands(list)
  BY <1>5 DEF Hands
<1>10. 0 \notin Hands(list)
  BY DEF Hands
<1>11. /\ deferred' \in Seq(Entry) /\ Distinct(deferred')
       /\ Buffers(deferred') = Buffers(deferred) \cup ({b} \ {0})
  <2>1. Buffers(deferred) \cap Buffers(r) = {}
    BY <1>7, <1>8, <1>9 DEF Parted
  <2> QED
    BY <1>3, <1>4, <1>7, <1>8, <2>1, JoinedBuffers
<1>12. /\ ListForm(Uploads!Blank) /\ Mine(Uploads!Blank) = 0 /\ Uploads!Blank \in UploadRecord
       /\ Uploads!Blank.state = "closed"
  <2>1. <<>> \in Seq(Nat)
    OBVIOUS
  <2>2. Uploads!Blank = [state |-> "closed", current |-> 0, returning |-> <<>>, copies |-> {}, used |-> 0]
    BY DEF Uploads!Blank, Uploads!None
  <2>3. IsFiniteSet({})
    BY FS_EmptySet
  <2> QED
    BY <2>1, <2>2, <2>3 DEF ListForm, CopiesApart, Mine, UploadRecord
<1>13. /\ list' \in [List -> UploadRecord] /\ list'[c] = Uploads!Blank
       /\ \A e \in List : e # c => list'[e] = list[e]
  BY <1>3, <1>4, <1>12
<1>14. HeldByOne(list') /\ Hands(list') = Hands(list) \ {b}
  <2>1. Mine(list'[c]) = 0
    BY <1>12, <1>13
  <2>2. HeldByOne(list') /\ Hands(list') = Hands(list) \ {Mine(list[c])}
    BY <1>8, <1>13, <2>1, HandsAfter
  <2> QED
    BY <1>5, <2>2
<1>15. InOnePlace'
  <2>1. Parted(Hands(list) \ {b}, Buffers(deferred) \cup ({b} \ {0}), Buffers(available), deleted, Len(offset))
    BY <1>8, <1>9, <1>10 DEF Parted
  <2> QED
    BY <1>3, <1>8, <1>11, <1>14, <2>1 DEF InOnePlace
<1>16. g \in [submit : Nat, copies : SUBSET Uploads!Copy]
  BY <1>2, <1>4 DEF UploadRecord
<1>17. UploadTypes'
  <2>1. gpu' \in Seq([submit : Nat, copies : SUBSET Uploads!Copy])
    BY <1>3, <1>4, <1>16, AppendElements
  <2>2. submits' \in Nat
    BY <1>3, <1>4
  <2> QED
    BY <1>3, <1>11, <1>13, <2>1, <2>2 DEF UploadInv, UploadTypes, UploadRecord
<1>18. FilledSoFar'
  BY <1>3, <1>12, <1>13 DEF UploadInv, FilledSoFar
<1>19. /\ \A k \in DOMAIN deferred : k \in DOMAIN deferred' /\ deferred'[k] = deferred[k]
       /\ b # 0 => \E k \in DOMAIN deferred' : deferred'[k].buffer = b /\ deferred'[k].submit = submits + 1
  <2>1. PICK m \in Nat, n \in Nat : m = Len(deferred) /\ n = Len(r)
    BY <1>4, <1>7, LenProperties
  <2>2. PICK u : u = deferred \o r
    OBVIOUS
  <2>3. /\ u \in Seq(Entry) /\ Len(u) = m + n
        /\ \A i \in 1 .. m + n : u[i] = IF i <= m THEN deferred[i] ELSE r[i - m]
    BY <1>4, <1>7, <2>1, <2>2, ConcatProperties
  <2>4. DOMAIN u = 1 .. m + n /\ DOMAIN deferred = 1 .. m /\ DOMAIN r = 1 .. n
    BY <1>4, <1>7, <2>1, <2>3, LenProperties
  <2>5. \A k \in 1 .. m : k \in 1 .. m + n /\ k <= m
    OBVIOUS
  <2>6. ASSUME b # 0 PROVE m + 1 \in DOMAIN u /\ u[m + 1] = r[1]
    <3>1. 1 \in 1 .. n
      BY <1>7, <2>4, <2>6
    <3>2. m + 1 \in 1 .. m + n /\ ~(m + 1 <= m) /\ (m + 1) - m = 1
      BY <3>1
    <3> QED
      BY <2>3, <2>4, <3>2
  <2> QED
    BY <1>3, <1>7, <2>2, <2>3, <2>4, <2>5, <2>6
<1>20. GpuForm'
  <2>1. /\ \A i \in DOMAIN gpu : gpu[i].submit <= submits /\ CopiesApart(gpu[i].copies) /\ gpu[i].submit \in Nat
        /\ \A i, j \in DOMAIN gpu : gpu[i].submit = gpu[j].submit => i = j
        /\ \A i \in DOMAIN gpu : \A p \in gpu[i].copies : \E k \in DOMAIN deferred :
             deferred[k].buffer = p.buffer /\ deferred[k].submit = gpu[i].submit
    <3>1. \A i \in DOMAIN gpu : gpu[i] \in [submit : Nat, copies : SUBSET Uploads!Copy]
      BY <1>4, ElementOfSeq, LenProperties
    <3> QED
      BY <3>1 DEF UploadInv, GpuForm
  <2>2. PICK n \in Nat : n = Len(gpu) /\ DOMAIN gpu = 1 .. n
    BY <1>4, LenProperties
  <2>3. /\ DOMAIN gpu' = 1 .. n + 1 /\ gpu'[n + 1] = g
        /\ \A i \in 1 .. n : i \in 1 .. n + 1 /\ gpu'[i] = gpu[i]
        /\ \A i \in 1 .. n + 1 : i \in 1 .. n \/ i = n + 1
    <3>1. gpu' \in Seq([submit : Nat, copies : SUBSET Uploads!Copy]) /\ Len(gpu') = n + 1
          /\ \A i \in 1 .. n : gpu'[i] = gpu[i]
      BY <1>3, <1>4, <1>16, <2>2, AppendProperties
    <3>6. gpu'[n + 1] = g
      BY <1>3, <1>4, <1>16, <2>2, AppendProperties
    <3>2. DOMAIN gpu' = 1 .. n + 1
      BY <3>1, LenProperties
    <3>3. \A i \in 1 .. n : i \in 1 .. n + 1
      OBVIOUS
    <3>4. \A i \in 1 .. n + 1 : i \in 1 .. n \/ i = n + 1
      OBVIOUS
    <3>5. \A i \in 1 .. n : i \in 1 .. n + 1 /\ gpu'[i] = gpu[i]
      BY <3>1, <3>3
    <3> QED
      BY <3>2, <3>4, <3>5, <3>6, Zenon
  <2>4. g.submit = submits + 1 /\ g.copies = list[c].copies
    BY <1>2
  <2>5. CopiesApart(list[c].copies) /\ \A p \in list[c].copies : p.buffer # 0 /\ p.buffer = b
    BY <1>4, <1>5 DEF ListForm
  <2>6. \A i \in DOMAIN gpu' : gpu'[i].submit <= submits' /\ CopiesApart(gpu'[i].copies)
    <3>1. ASSUME NEW i \in 1 .. n PROVE gpu'[i].submit <= submits' /\ CopiesApart(gpu'[i].copies)
      <4>1. gpu'[i] = gpu[i] /\ i \in DOMAIN gpu
        BY <2>2, <2>3
      <4>2. gpu[i].submit <= submits /\ gpu[i].submit \in Nat /\ CopiesApart(gpu[i].copies)
        BY <2>1, <4>1
      <4>3. gpu[i].submit <= submits'
        BY <1>3, <1>4, <4>2
      <4> QED
        BY <4>1, <4>2, <4>3
    <3>2. gpu'[n + 1].submit <= submits' /\ CopiesApart(gpu'[n + 1].copies)
      BY <1>3, <1>4, <2>3, <2>4, <2>5
    <3> QED
      BY <2>3, <3>1, <3>2
  <2>7. \A i, j \in DOMAIN gpu' : gpu'[i].submit = gpu'[j].submit => i = j
    <3>1. \A i \in 1 .. n : gpu'[i].submit # gpu'[n + 1].submit
      <4> SUFFICES ASSUME NEW i \in 1 .. n PROVE gpu'[i].submit # gpu'[n + 1].submit
        OBVIOUS
      <4>1. gpu'[i] = gpu[i] /\ i \in DOMAIN gpu
        BY <2>2, <2>3
      <4>2. gpu[i].submit <= submits /\ gpu[i].submit \in Nat
        BY <2>1, <4>1
      <4>3. gpu[i].submit # submits + 1
        BY <1>4, <4>2
      <4> QED
        BY <2>3, <2>4, <4>1, <4>3
    <3>2. \A i, j \in 1 .. n : gpu'[i].submit = gpu'[j].submit => i = j
      BY <2>1, <2>2, <2>3
    <3> QED
      BY <2>3, <3>1, <3>2
  <2>8. ASSUME NEW i \in DOMAIN gpu', NEW p \in gpu'[i].copies
        PROVE  \E k \in DOMAIN deferred' : deferred'[k].buffer = p.buffer /\ deferred'[k].submit = gpu'[i].submit
    <3>1. CASE i \in 1 .. n
      <4>1. PICK k \in DOMAIN deferred : deferred[k].buffer = p.buffer /\ deferred[k].submit = gpu[i].submit
        BY <2>1, <2>2, <2>3, <3>1
      <4> QED
        BY <1>19, <2>3, <3>1, <4>1
    <3>2. CASE i = n + 1
      BY <1>19, <2>3, <2>4, <2>5, <3>2
    <3> QED
      BY <2>3, <3>1, <3>2
  <2> QED
    BY <2>6, <2>7, <2>8 DEF GpuForm
<1>21. NothingAfterwards'
  <2>1. uploadsDevice = "alive"
    BY <1>3 DEF UploadInv, UploadTypes, NothingAfterwards
  <2> QED
    BY <1>3, <2>1 DEF NothingAfterwards
<1>22. \A e \in List : ListForm(list'[e])
  BY <1>12, <1>13 DEF UploadInv
<1> QED
  BY <1>15, <1>17, <1>18, <1>20, <1>21, <1>22 DEF UploadInv

(* Work that is done needs its buffer no more.                             *)
LEMMA GpuCompleteStep ==
  ASSUME UploadInv, Uploads!GpuComplete
  PROVE  UploadInv'
<1>1. /\ gpu # <<>> /\ gpu' = Tail(gpu) /\ offset' = offset /\ list' = list /\ submits' = submits
      /\ deferred' = deferred /\ available' = available /\ deleted' = deleted
      /\ uploadsDevice' = uploadsDevice
  BY DEF Uploads!GpuComplete
<1>2. gpu \in Seq([submit : Nat, copies : SUBSET Uploads!Copy])
  BY DEF UploadInv, UploadTypes
<1>3. gpu' \in Seq([submit : Nat, copies : SUBSET Uploads!Copy])
      /\ \A i \in 1 .. Len(gpu') : i \in Nat /\ i + 1 \in 1 .. Len(gpu) /\ gpu'[i] = gpu[i + 1]
  BY <1>1, <1>2, TailElements
<1>4. DOMAIN gpu' = 1 .. Len(gpu') /\ DOMAIN gpu = 1 .. Len(gpu)
  BY <1>2, <1>3, LenProperties
<1>5. \A i \in DOMAIN gpu' : i \in Nat /\ i + 1 \in DOMAIN gpu /\ gpu'[i] = gpu[i + 1]
  BY <1>3, <1>4
<1>6. \A i, j \in Nat : i + 1 = j + 1 => i = j
  OBVIOUS
<1>7. GpuForm'
  BY <1>1, <1>5, <1>6 DEF UploadInv, GpuForm
<1>8. UploadTypes'
  BY <1>1, <1>3 DEF UploadInv, UploadTypes
<1>9. FilledSoFar'
  BY <1>1 DEF UploadInv, FilledSoFar
<1>10. InOnePlace'
  BY <1>1 DEF UploadInv, InOnePlace
<1>11. NothingAfterwards'
  BY <1>1 DEF UploadInv, NothingAfterwards
<1> QED
  BY <1>1, <1>7, <1>8, <1>9, <1>10, <1>11 DEF UploadInv

(* Only buffers no work has are taken back, and each goes to one place.    *)
LEMMA CollectUploadsStep ==
  ASSUME UploadInv, Uploads!CollectGarbage
  PROVE  UploadInv'
<1> DEFINE Entry == [buffer : Nat, submit : Nat]
           Free == [buffer : Nat, unused : Nat]
<1>1. PICK latest \in 0 .. submits :
        LET ready == {i \in DOMAIN deferred : deferred[i].submit <= latest /\ Uploads!Finished(deferred[i])}
            back == Uploads!Only(deferred, ready)
            all == available \o [i \in DOMAIN back |-> [buffer |-> back[i].buffer, unused |-> 0]]
            kept == {i \in DOMAIN all : Uploads!Kept(all[i])}
        IN
        /\ uploadsDevice = "alive"
        /\ deferred' = Uploads!Only(deferred, DOMAIN deferred \ ready)
        /\ available' = Uploads!Only([i \in DOMAIN all |-> [all[i] EXCEPT !.unused = @ + 1]], kept)
        /\ deleted' = deleted \cup {all[i].buffer : i \in DOMAIN all \ kept}
  BY DEF Uploads!CollectGarbage
<1> DEFINE ready == {i \in DOMAIN deferred : deferred[i].submit <= latest /\ Uploads!Finished(deferred[i])}
           back == Uploads!Only(deferred, ready)
           fresh == [i \in DOMAIN back |-> [buffer |-> back[i].buffer, unused |-> 0]]
           all == available \o fresh
           kept == {i \in DOMAIN all : Uploads!Kept(all[i])}
           aged == [i \in DOMAIN all |-> [all[i] EXCEPT !.unused = @ + 1]]
           gone == {all[i].buffer : i \in DOMAIN all \ kept}
<1>2. \A i : i \in ready <=> i \in DOMAIN deferred /\ deferred[i].submit <= latest /\ Uploads!Finished(deferred[i])
  OBVIOUS
<1>3. back = Uploads!Only(deferred, ready)
  OBVIOUS
<1>4. fresh = [i \in DOMAIN back |-> [buffer |-> back[i].buffer, unused |-> 0]]
  OBVIOUS
<1>5. all = available \o fresh
  OBVIOUS
<1>6. \A i : i \in kept => i \in DOMAIN all
  OBVIOUS
<1>7. aged = [i \in DOMAIN all |-> [all[i] EXCEPT !.unused = @ + 1]]
  OBVIOUS
<1>20. gone = {all[i].buffer : i \in DOMAIN all \ kept}
  OBVIOUS
<1>8. /\ uploadsDevice = "alive"
      /\ deferred' = Uploads!Only(deferred, DOMAIN deferred \ ready)
      /\ available' = Uploads!Only(aged, kept)
      /\ deleted' = deleted \cup gone
  BY <1>1, Zenon
<1> HIDE DEF ready, back, fresh, all, kept, aged, gone
<1>9. offset' = offset /\ list' = list /\ gpu' = gpu /\ submits' = submits /\ uploadsDevice' = uploadsDevice
  BY DEF Uploads!CollectGarbage
<1>10. /\ deferred \in Seq(Entry) /\ available \in Seq(Free)
       /\ HeldByOne(list) /\ Distinct(deferred) /\ Distinct(available)
       /\ Parted(Hands(list), Buffers(deferred), Buffers(available), deleted, Len(offset))
  BY DEF UploadInv, UploadTypes, InOnePlace
<1>11. ready \in SUBSET DOMAIN deferred /\ kept \in SUBSET DOMAIN all
       /\ DOMAIN deferred \ ready \in SUBSET DOMAIN deferred
  BY <1>2, <1>6
<1>12. /\ back \in Seq(Entry) /\ Distinct(back) /\ Buffers(back) = {deferred[k].buffer : k \in ready}
  BY <1>3, <1>10, <1>11, OnlyElements, OnlyBuffers
<1>13. /\ deferred' \in Seq(Entry) /\ Distinct(deferred')
       /\ Buffers(deferred') = {deferred[k].buffer : k \in DOMAIN deferred \ ready}
       /\ Selects(deferred', deferred, DOMAIN deferred \ ready)
  BY <1>8, <1>10, <1>11, OnlyElements, OnlyBuffers
<1>14. Buffers(back) \cap Buffers(deferred') = {} /\ Buffers(back) \cup Buffers(deferred') = Buffers(deferred)
  <2>1. \A i \in ready : \A j \in DOMAIN deferred \ ready : deferred[i].buffer # deferred[j].buffer
    BY <1>10, <1>11 DEF Distinct
  <2>2. Buffers(back) \cap Buffers(deferred') = {}
    BY <1>12, <1>13, <2>1
  <2>3. \A i \in DOMAIN deferred : i \in ready \/ i \in DOMAIN deferred \ ready
    OBVIOUS
  <2>4. Buffers(back) \cup Buffers(deferred') = Buffers(deferred)
    BY <1>11, <1>12, <1>13, <2>3 DEF Buffers
  <2> QED
    BY <2>2, <2>4
<1>15. fresh \in Seq(Free) /\ Distinct(fresh) /\ Buffers(fresh) = Buffers(back)
  <2>1. DOMAIN back = 1 .. Len(back) /\ Len(back) \in Nat /\ \A i \in DOMAIN back : back[i] \in Entry
    BY <1>12, LenProperties, ElementOfSeq
  <2>2. PICK n \in Nat : n = Len(back)
    BY <2>1
  <2>2a. fresh \in [1 .. n -> Free]
    BY <1>4, <2>1, <2>2
  <2>3. fresh \in Seq(Free)
    BY <2>2a, SeqDef
  <2>4. DOMAIN fresh = DOMAIN back /\ \A i \in DOMAIN back : fresh[i].buffer = back[i].buffer
    BY <1>4
  <2>5. Distinct(fresh) /\ Buffers(fresh) = Buffers(back)
    BY <1>12, <2>4 DEF Distinct, Buffers
  <2> QED
    BY <2>3, <2>5
<1>16. /\ all \in Seq(Free) /\ Distinct(all) /\ Buffers(all) = Buffers(available) \cup Buffers(back)
  <2>1. Buffers(back) \subseteq Buffers(deferred)
    BY <1>14
  <2>2. Buffers(available) \cap Buffers(fresh) = {}
    BY <1>10, <1>15, <2>1 DEF Parted
  <2> QED
    BY <1>5, <1>10, <1>15, <2>2, JoinedBuffers
<1>17. /\ aged \in Seq(Free) /\ DOMAIN aged = DOMAIN all
       /\ \A i \in DOMAIN all : aged[i].buffer = all[i].buffer
  <2>1. DOMAIN all = 1 .. Len(all) /\ Len(all) \in Nat /\ \A i \in DOMAIN all : all[i] \in Free
    BY <1>16, LenProperties, ElementOfSeq
  <2>2. aged \in [1 .. Len(all) -> Free]
    BY <1>7, <2>1
  <2>3. aged \in Seq(Free)
    BY <2>1, <2>2, SeqDef
  <2> QED
    BY <1>7, <2>1, <2>3
<1>18. Distinct(aged)
  BY <1>16, <1>17 DEF Distinct
<1>19. /\ available' \in Seq(Free) /\ Distinct(available')
       /\ Buffers(available') = {all[k].buffer : k \in kept}
  <2>1. kept \in SUBSET DOMAIN aged
    BY <1>11, <1>17
  <2>2. {aged[k].buffer : k \in kept} = {all[k].buffer : k \in kept}
    BY <1>11, <1>17
  <2> QED
    BY <1>8, <1>17, <1>18, <2>1, <2>2, OnlyElements, OnlyBuffers
<1>21. Buffers(available') \cap gone = {} /\ Buffers(available') \cup gone = Buffers(available) \cup Buffers(back)
  <2>1. Buffers(available') \cap gone = {}
    <3>1. \A i \in kept : \A j \in DOMAIN all \ kept : all[i].buffer # all[j].buffer
      BY <1>11, <1>16 DEF Distinct
    <3> QED
      BY <1>19, <1>20, <3>1
  <2>2. Buffers(available') \cup gone = Buffers(all)
    BY <1>11, <1>19, <1>20 DEF Buffers
  <2> QED
    BY <1>16, <2>1, <2>2
<1>22. InOnePlace'
  <2>1. deleted' = deleted \cup gone
    BY <1>8
  <2>2. Parted(Hands(list), Buffers(deferred'), Buffers(available'), deleted \cup gone, Len(offset))
    BY <1>10, <1>14, <1>21 DEF Parted
  <2> QED
    BY <1>9, <1>10, <1>13, <1>19, <2>1, <2>2 DEF InOnePlace
<1>23. UploadTypes'
  BY <1>9, <1>13, <1>19 DEF UploadInv, UploadTypes
<1>24. FilledSoFar'
  BY <1>9 DEF UploadInv, FilledSoFar
<1>25. GpuForm'
  <2> SUFFICES ASSUME NEW i \in DOMAIN gpu, NEW p \in gpu[i].copies
               PROVE  \E k \in DOMAIN deferred' : deferred'[k].buffer = p.buffer /\ deferred'[k].submit = gpu[i].submit
    BY <1>9 DEF UploadInv, GpuForm
  <2>1. PICK k \in DOMAIN deferred : deferred[k].buffer = p.buffer /\ deferred[k].submit = gpu[i].submit
    BY DEF UploadInv, GpuForm
  <2>2. k \notin ready
    BY <1>2, <2>1 DEF Uploads!Finished
  <2>3. PICK j \in DOMAIN deferred' : deferred'[j] = deferred[k]
    BY <1>13, <2>1, <2>2 DEF Selects
  <2> QED
    BY <2>1, <2>3
<1>26. NothingAfterwards'
  BY <1>8, <1>9 DEF NothingAfterwards
<1> QED
  BY <1>9, <1>22, <1>23, <1>24, <1>25, <1>26 DEF UploadInv

(* With nothing open or deferred, the available buffers are all there are. *)
LEMMA DestroyUploadsStep ==
  ASSUME UploadInv, Uploads!DestroyUploadBuffers
  PROVE  UploadInv'
<1>1. /\ gpu = <<>> /\ deferred = <<>> /\ uploadsDevice' = "destroyed"
      /\ deleted' = deleted \cup {available[i].buffer : i \in DOMAIN available} /\ available' = <<>>
      /\ offset' = offset /\ list' = list /\ gpu' = gpu /\ submits' = submits /\ deferred' = deferred
      /\ \A c \in List : list[c].state = "closed"
  BY DEF Uploads!DestroyUploadBuffers, Uploads!Busy
<1>2. Buffers(<<>>) = {} /\ Distinct(<<>>) /\ deleted' = deleted \cup Buffers(available)
  BY <1>1 DEF Buffers, Distinct
<1>3. InOnePlace'
  <2>1. Parted(Hands(list), Buffers(deferred), {}, deleted \cup Buffers(available), Len(offset))
    BY DEF UploadInv, InOnePlace, Parted
  <2> QED
    BY <1>1, <1>2, <2>1 DEF UploadInv, InOnePlace
<1>4. UploadTypes'
  BY <1>1 DEF UploadInv, UploadTypes
<1>5. FilledSoFar'
  BY <1>1 DEF UploadInv, FilledSoFar
<1>6. GpuForm'
  BY <1>1 DEF UploadInv, GpuForm
<1>7. NothingAfterwards'
  BY <1>1 DEF NothingAfterwards
<1> QED
  BY <1>1, <1>3, <1>4, <1>5, <1>6, <1>7 DEF UploadInv

(* Every step keeps the invariant.                                         *)
LEMMA UploadsHold ==
  ASSUME OneBufferEach, UploadInv, [Uploads!Next]_(Uploads!vars)
  PROVE  UploadInv'
<1>1. ASSUME NEW c \in List, Uploads!GetCommandBuffer(c) PROVE UploadInv'
  BY <1>1, GetUploadListStep
<1>2. ASSUME NEW c \in List, NEW size \in 1 .. UploadSize, Uploads!UpdateBuffer(c, size) PROVE UploadInv'
  BY <1>2, UpdateBufferStep
<1>3. ASSUME NEW c \in List, Uploads!Complete(c) PROVE UploadInv'
  BY <1>3, CompleteUploadsStep
<1>4. ASSUME NEW c \in List, Uploads!SubmitQueue(c) PROVE UploadInv'
  BY <1>4, SubmitUploadsStep
<1>5. CASE Uploads!GpuComplete
  BY <1>5, GpuCompleteStep
<1>6. CASE Uploads!CollectGarbage
  BY <1>6, CollectUploadsStep
<1>7. CASE Uploads!DestroyUploadBuffers
  BY <1>7, DestroyUploadsStep
<1>8. CASE UNCHANGED Uploads!vars
  BY <1>8 DEF Uploads!vars, UploadInv, UploadTypes, FilledSoFar, InOnePlace, GpuForm, NothingAfterwards
<1> QED
  BY <1>1, <1>2, <1>3, <1>4, <1>5, <1>6, <1>7, <1>8 DEF Uploads!Next, Uploads!Terminated

(* The copies of a list are in its own buffer, and those of a submission   *)
(* in buffers deferred with it, so that two of different work cannot meet. *)
LEMMA UploadsApart == ASSUME UploadInv PROVE Uploads!UploadsIntact
<1>1. /\ Distinct(deferred) /\ HeldByOne(list)
      /\ Hands(list) \cap Buffers(deferred) = {}
  BY DEF UploadInv, InOnePlace, Parted
<1>2. ASSUME NEW c \in List
      PROVE  CopiesApart(list[c].copies) /\ \A p \in list[c].copies : p.buffer # 0 /\ p.buffer = Mine(list[c])
  BY DEF UploadInv, ListForm
<1>3. /\ \A i \in DOMAIN gpu : CopiesApart(gpu[i].copies)
      /\ \A i, j \in DOMAIN gpu : gpu[i].submit = gpu[j].submit => i = j
      /\ \A i \in DOMAIN gpu : \A p \in gpu[i].copies : \E k \in DOMAIN deferred :
           deferred[k].buffer = p.buffer /\ deferred[k].submit = gpu[i].submit
  BY DEF UploadInv, GpuForm
<1>4. ASSUME NEW c \in List, NEW p \in list[c].copies, NEW i \in DOMAIN gpu, NEW q \in gpu[i].copies
      PROVE  p.buffer # q.buffer
  <2>1. p.buffer \in Hands(list)
    BY <1>2 DEF Hands
  <2>2. q.buffer \in Buffers(deferred)
    BY <1>3 DEF Buffers
  <2> QED
    BY <1>1, <2>1, <2>2
<1>5. ASSUME NEW c \in List, NEW p \in list[c].copies, NEW e \in List, NEW q \in list[e].copies,
             p.buffer = q.buffer, <<c, p>> # <<e, q>>
      PROVE  ~Uploads!Overlap(p, q)
  <2>1. c = e
    BY <1>1, <1>2, <1>5 DEF HeldByOne
  <2> QED
    BY <1>2, <1>5, <2>1 DEF CopiesApart
<1>6. ASSUME NEW i \in DOMAIN gpu, NEW p \in gpu[i].copies, NEW j \in DOMAIN gpu, NEW q \in gpu[j].copies,
             p.buffer = q.buffer, <<gpu[i].submit, p>> # <<gpu[j].submit, q>>
      PROVE  ~Uploads!Overlap(p, q)
  <2>1. PICK k \in DOMAIN deferred, l \in DOMAIN deferred :
          /\ deferred[k].buffer = p.buffer /\ deferred[k].submit = gpu[i].submit
          /\ deferred[l].buffer = q.buffer /\ deferred[l].submit = gpu[j].submit
    BY <1>3
  <2>2. k = l
    BY <1>1, <1>6, <2>1 DEF Distinct
  <2>3. i = j
    BY <1>3, <2>1, <2>2
  <2> QED
    BY <1>3, <1>6, <2>3 DEF CopiesApart
<1> SUFFICES ASSUME NEW x \in Uploads!Unread, NEW y \in Uploads!Unread, x # y
             PROVE  ~Uploads!Overlap(x[2], y[2])
  BY DEF Uploads!UploadsIntact
<1> DEFINE OfList(z) == \E c \in List : \E p \in list[c].copies : z = <<c, p>>
           OfGpu(z) == \E i \in DOMAIN gpu : \E p \in gpu[i].copies : z = <<gpu[i].submit, p>>
<1>7. \A z \in Uploads!Unread : OfList(z) \/ OfGpu(z)
  <2> SUFFICES ASSUME NEW z \in Uploads!Unread PROVE OfList(z) \/ OfGpu(z)
    OBVIOUS
  <2>1. \/ z \in UNION {{<<c, p>> : p \in list[c].copies} : c \in List}
        \/ z \in UNION {{<<gpu[i].submit, p>> : p \in gpu[i].copies} : i \in DOMAIN gpu}
    <3> DEFINE lists == UNION {{<<c, p>> : p \in list[c].copies} : c \in List}
               work == UNION {{<<gpu[i].submit, p>> : p \in gpu[i].copies} : i \in DOMAIN gpu}
    <3>1. Uploads!Unread = lists \cup work
      BY DEF Uploads!Unread
    <3> HIDE DEF lists, work
    <3>2. z \in lists \/ z \in work
      BY <3>1
    <3> QED
      BY <3>2 DEF lists, work
  <2>2. CASE z \in UNION {{<<c, p>> : p \in list[c].copies} : c \in List}
    <3>1. PICK c \in List : z \in {<<c, p>> : p \in list[c].copies}
      BY <2>2
    <3> QED
      BY <3>1
  <2>3. CASE z \in UNION {{<<gpu[i].submit, p>> : p \in gpu[i].copies} : i \in DOMAIN gpu}
    <3>1. PICK i \in DOMAIN gpu : z \in {<<gpu[i].submit, p>> : p \in gpu[i].copies}
      BY <2>3
    <3> QED
      BY <3>1
  <2> QED
    BY <2>1, <2>2, <2>3
<1>8. CASE x[2].buffer # y[2].buffer
  BY <1>8 DEF Uploads!Overlap
<1>9. CASE OfList(x) /\ OfList(y)
  <2>1. PICK c \in List : \E p \in list[c].copies : x = <<c, p>>
    BY <1>9
  <2>2. PICK p \in list[c].copies : x = <<c, p>>
    BY <2>1
  <2>3. PICK e \in List : \E q \in list[e].copies : y = <<e, q>>
    BY <1>9
  <2>4. PICK q \in list[e].copies : y = <<e, q>>
    BY <2>3
  <2>5. x[2] = p /\ y[2] = q /\ <<c, p>> # <<e, q>>
    BY <2>2, <2>4
  <2> QED
    BY <1>5, <1>8, <2>5
<1>10. CASE OfGpu(x) /\ OfGpu(y)
  <2>1. PICK i \in DOMAIN gpu : \E p \in gpu[i].copies : x = <<gpu[i].submit, p>>
    BY <1>10
  <2>2. PICK p \in gpu[i].copies : x = <<gpu[i].submit, p>>
    BY <2>1
  <2>3. PICK j \in DOMAIN gpu : \E q \in gpu[j].copies : y = <<gpu[j].submit, q>>
    BY <1>10
  <2>4. PICK q \in gpu[j].copies : y = <<gpu[j].submit, q>>
    BY <2>3
  <2>5. x[2] = p /\ y[2] = q /\ <<gpu[i].submit, p>> # <<gpu[j].submit, q>>
    BY <2>2, <2>4
  <2> QED
    BY <1>6, <1>8, <2>5
<1>11. CASE OfList(x) /\ OfGpu(y)
  <2>1. PICK c \in List : \E p \in list[c].copies : x = <<c, p>>
    BY <1>11
  <2>2. PICK i \in DOMAIN gpu : \E q \in gpu[i].copies : y = <<gpu[i].submit, q>>
    BY <1>11
  <2>1p. PICK p \in list[c].copies : x = <<c, p>>
    BY <2>1
  <2>2q. PICK q \in gpu[i].copies : y = <<gpu[i].submit, q>>
    BY <2>2
  <2>3. x[2] = p /\ y[2] = q
    BY <2>1p, <2>2q
  <2> QED
    BY <1>4, <1>8, <2>3
<1>12. CASE OfGpu(x) /\ OfList(y)
  <2>1. PICK c \in List : \E p \in list[c].copies : y = <<c, p>>
    BY <1>12
  <2>2. PICK i \in DOMAIN gpu : \E q \in gpu[i].copies : x = <<gpu[i].submit, q>>
    BY <1>12
  <2>1p. PICK p \in list[c].copies : y = <<c, p>>
    BY <2>1
  <2>2q. PICK q \in gpu[i].copies : x = <<gpu[i].submit, q>>
    BY <2>2
  <2>3. y[2] = p /\ x[2] = q
    BY <2>1p, <2>2q
  <2> QED
    BY <1>4, <1>8, <2>3
<1> QED
  BY <1>7, <1>9, <1>10, <1>11, <1>12

(* Each buffer is counted once, where it is.                               *)
LEMMA BuffersCounted == ASSUME UploadInv PROVE Uploads!BuffersConserved
<1> SUFFICES ASSUME NEW b \in 1 .. Len(offset) PROVE Uploads!Places(b) = 1
  BY DEF Uploads!BuffersConserved, Uploads!Buffer
<1> DEFINE current == {c \in List : list[c].current = b}
           back == {x \in List \X (1 .. Len(offset)) :
                      x[2] \in DOMAIN list[x[1]].returning /\ list[x[1]].returning[x[2]] = b}
           later == {i \in DOMAIN deferred : deferred[i].buffer = b}
           free == {i \in DOMAIN available : available[i].buffer = b}
           gone == IF b \in deleted THEN 1 ELSE 0
<1>1. /\ HeldByOne(list) /\ Distinct(deferred) /\ Distinct(available)
      /\ Parted(Hands(list), Buffers(deferred), Buffers(available), deleted, Len(offset))
  BY DEF UploadInv, InOnePlace
<1>2. Len(offset) \in Nat /\ b \in Nat \ {0} /\ 1 \in 1 .. Len(offset)
  BY LenProperties DEF UploadInv, UploadTypes
<1>3. \A S : Uploads!Cardinality(S) = Cardinality(S)
  BY DEF Uploads!Cardinality, Cardinality
<1>4. Uploads!Places(b) = Cardinality(current) + Cardinality(back) + Cardinality(later) + Cardinality(free) + gone
  BY <1>3 DEF Uploads!Places
<1>5. ASSUME NEW c \in List
      PROVE  \/ list[c].returning = <<>> /\ Mine(list[c]) = list[c].current
             \/ list[c].current = 0 /\ list[c].returning = <<Mine(list[c])>>
  <2>1. ListForm(list[c]) /\ list[c].state \in {"closed", "open", "completed"}
    BY DEF UploadInv, UploadTypes
  <2>2. CASE list[c].returning = <<>>
    <3>1. list[c].current = 0 => Mine(list[c]) = 0
      BY <2>2 DEF Mine
    <3> QED
      BY <2>2, <3>1 DEF Mine
  <2>3. CASE list[c].returning # <<>>
    <3>1. list[c].state = "completed"
      BY <2>1, <2>3 DEF ListForm, Uploads!Blank
    <3>2. PICK x \in Nat \ {0} : list[c].returning = <<x>>
      BY <2>1, <2>3, <3>1 DEF ListForm
    <3>3. list[c].current = 0
      BY <2>1, <3>1 DEF ListForm
    <3>4. <<x>> # <<>> /\ <<x>>[1] = x
      OBVIOUS
    <3> QED
      BY <3>2, <3>3, <3>4 DEF Mine
  <2> QED
    BY <2>2, <2>3
<1>6. \A c \in current : b = Mine(list[c])
  BY <1>2, <1>5
<1>7. \A x \in back : x[1] \in List /\ x[2] = 1 /\ x = <<x[1], x[2]>> /\ b = Mine(list[x[1]])
                      /\ list[x[1]].current = 0
  <2> SUFFICES ASSUME NEW x \in back
               PROVE  x[2] = 1 /\ b = Mine(list[x[1]]) /\ list[x[1]].current = 0
    OBVIOUS
  <2>1. PICK c \in List : c = x[1]
    OBVIOUS
  <2>2. x[2] \in DOMAIN list[c].returning /\ list[c].returning[x[2]] = b
    BY <2>1
  <2>3. DOMAIN <<>> = {} /\ \A m : DOMAIN <<m>> = {1} /\ <<m>>[1] = m
    OBVIOUS
  <2> QED
    BY <1>5, <2>1, <2>2, <2>3
<1>8. b \in Hands(list) <=> current # {} \/ back # {}
  <2>1. current # {} \/ back # {} => b \in Hands(list)
    BY <1>2, <1>6, <1>7 DEF Hands
  <2>2. ASSUME b \in Hands(list) PROVE current # {} \/ back # {}
    <3>1. PICK c \in List : b = Mine(list[c])
      BY <2>2 DEF Hands
    <3>2. CASE list[c].current = b
      BY <3>2
    <3>3. CASE list[c].returning = <<b>>
      <4>1. DOMAIN <<b>> = {1} /\ <<b>>[1] = b
        OBVIOUS
      <4>2. <<c, 1>> \in back
        BY <1>2, <3>3, <4>1
      <4> QED
        BY <4>2
    <3> QED
      BY <1>2, <1>5, <3>1, <3>2, <3>3
  <2> QED
    BY <2>1, <2>2
<1>9. /\ \A c, e \in current : c = e
      /\ \A x, y \in back : x = y
      /\ current = {} \/ back = {}
  <2>1. \A c, e \in List : Mine(list[c]) = b /\ Mine(list[e]) = b => c = e
    BY <1>1, <1>2 DEF HeldByOne
  <2>2. \A c, e \in current : c = e
    BY <1>6, <2>1
  <2>3. \A x, y \in back : x = y
    BY <1>7, <2>1
  <2>4. \A c \in current : \A x \in back : FALSE
    <3> SUFFICES ASSUME NEW c \in current, NEW x \in back PROVE FALSE
      OBVIOUS
    <3>1. c = x[1]
      BY <1>6, <1>7, <2>1
    <3> QED
      BY <1>2, <1>7, <3>1
  <2> QED
    BY <2>2, <2>3, <2>4
<1>10. (later # {} <=> b \in Buffers(deferred)) /\ (\A i, j \in later : i = j)
  BY <1>1 DEF Buffers, Distinct
<1>11. (free # {} <=> b \in Buffers(available)) /\ (\A i, j \in free : i = j)
  BY <1>1 DEF Buffers, Distinct
<1> HIDE DEF current, back, later, free
<1>12. ASSUME NEW S, \A x, y \in S : x = y PROVE Cardinality(S) = IF S = {} THEN 0 ELSE 1
  <2>1. CASE S = {}
    BY <2>1, FS_EmptySet
  <2>2. CASE S # {}
    <3>0. PICK x \in S : TRUE
      BY <2>2
    <3>1. S = {x}
      BY <1>12
    <3> QED
      BY <2>2, <3>1, FS_Singleton
  <2> QED
    BY <2>1, <2>2
<1>13. /\ Cardinality(current) = IF current = {} THEN 0 ELSE 1
       /\ Cardinality(back) = IF back = {} THEN 0 ELSE 1
       /\ Cardinality(later) = IF later = {} THEN 0 ELSE 1
       /\ Cardinality(free) = IF free = {} THEN 0 ELSE 1
  BY <1>9, <1>10, <1>11, <1>12
<1>14. /\ b \in Hands(list) \/ b \in Buffers(deferred) \/ b \in Buffers(available) \/ b \in deleted
       /\ ~(b \in Hands(list) /\ b \in Buffers(deferred)) /\ ~(b \in Hands(list) /\ b \in Buffers(available))
       /\ ~(b \in Hands(list) /\ b \in deleted) /\ ~(b \in Buffers(deferred) /\ b \in Buffers(available))
       /\ ~(b \in Buffers(deferred) /\ b \in deleted) /\ ~(b \in Buffers(available) /\ b \in deleted)
  BY <1>1 DEF Parted
<1> QED
  BY <1>4, <1>8, <1>9, <1>10, <1>11, <1>13, <1>14

(* What is deleted is in nobody's work, and in the end everything is.      *)
LEMMA DeletedUploads == ASSUME UploadInv PROVE Uploads!DeletedAreIdleAndAll
<1>1. ASSUME NEW i \in DOMAIN gpu, NEW p \in gpu[i].copies PROVE p.buffer \notin deleted
  <2>1. p.buffer \in Buffers(deferred)
    BY DEF UploadInv, GpuForm, Buffers
  <2> QED
    BY <2>1 DEF UploadInv, InOnePlace, Parted
<1>2. ASSUME uploadsDevice = "destroyed" PROVE deleted = 1 .. Len(offset)
  <2>1. /\ \A c \in List : list[c] = Uploads!Blank
        /\ deferred = <<>> /\ available = <<>>
    BY <1>2 DEF UploadInv, NothingAfterwards, ListForm
  <2>2. Hands(list) = {}
    BY <2>1 DEF Hands, Mine, Uploads!Blank, Uploads!None
  <2>3. Buffers(<<>>) = {}
    BY DEF Buffers
  <2> QED
    BY <2>1, <2>2, <2>3 DEF UploadInv, InOnePlace, Parted
<1> QED
  BY <1>1, <1>2 DEF Uploads!DeletedAreIdleAndAll, Uploads!Buffer

(* LinearUploadBuffer and the queues of the device: whatever lists are     *)
(* recorded, submitted and collected, in any order, the bytes given to     *)
(* UpdateBuffer are there until their copy is done, no buffer is lost or   *)
(* in two places, and none is deleted under the GPU or left at the end,    *)
(* as long as a list uploads no more than a buffer holds.                  *)
THEOREM UploadsArrive == ASSUME OneBufferEach PROVE Uploads!Spec => []UploadsReachTheGpu
<1>1. Uploads!Init => UploadInv
  BY UploadsStart
<1>2. UploadInv /\ [Uploads!Next]_(Uploads!vars) => UploadInv'
  BY UploadsHold
<1>3. UploadInv => UploadsReachTheGpu
  BY UploadsApart, BuffersCounted, DeletedUploads DEF UploadsReachTheGpu
<1> QED
  BY <1>1, <1>2, <1>3, PTL DEF Uploads!Spec

-----------------------------------------------------------------------------
(* Subranges *)

(* There is room for a range.                                              *)
Wide == Modulus \in Nat /\ Modulus >= 2

(* A range inside the numbers is its first index and its end.              *)
LEMMA RangeForm ==
  ASSUME Wide, NEW r \in Slices!Range
  PROVE  /\ r[1] \in Nat /\ r[2] \in Nat \ {0} /\ r = <<r[1], r[2]>>
         /\ Slices!End(r) = r[1] + r[2] /\ Slices!End(r) \in Nat /\ Slices!End(r) <= Modulus - 1
         /\ Slices!Cells(r) \subseteq Nat
         /\ \A x \in Nat : x \in Slices!Cells(r) <=> r[1] <= x /\ x < Slices!End(r)
<1>1. /\ r[1] \in 0 .. Modulus - 1 /\ r[2] \in 1 .. Modulus - 1 /\ r = <<r[1], r[2]>>
      /\ r[1] + r[2] <= Modulus - 1
  BY DEF Slices!Range, Slices!Max
<1>2. \A x \in 0 .. Modulus - 1 : x % Modulus = x
  BY DEF Wide
<1>3. Slices!End(r) = r[1] + r[2]
  BY <1>1, <1>2 DEF Slices!End, Wide
<1> QED
  BY <1>1, <1>3 DEF Slices!Cells, Wide

(* Two limits make a range if one is below the other.                      *)
LEMMA RangeMade ==
  ASSUME Wide, NEW a \in Nat, NEW e \in Nat, a < e, e <= Modulus - 1
  PROVE  /\ <<a, e - a>> \in Slices!Range
         /\ \A x \in Nat : x \in Slices!Cells(<<a, e - a>>) <=> a <= x /\ x < e
         /\ Slices!Cells(<<a, e - a>>) \subseteq Nat
  BY DEF Wide, Slices!Range, Slices!Max, Slices!Cells

(* The predicates say of ranges what sets say of their cells.              *)
LEMMA PredicatesOfRanges ==
  ASSUME Wide, NEW r \in Slices!Range, NEW q \in Slices!Range
  PROVE  /\ Slices!Contains(r, q) <=> Slices!Cells(q) \subseteq Slices!Cells(r)
         /\ Slices!Intersects(r, q) <=> Slices!Cells(q) \cap Slices!Cells(r) # {}
         /\ Slices!Cells(Slices!Intersect(r, q)) = Slices!Cells(q) \cap Slices!Cells(r)
         /\ Slices!Intersects(r, q) =>
              /\ Slices!Intersect(r, q) \in Slices!Range
              /\ r[1] <= Slices!Intersect(r, q)[1]
              /\ Slices!End(Slices!Intersect(r, q)) <= Slices!End(r)
<1>1. PICK a \in Nat, e \in Nat, b \in Nat, f \in Nat :
        /\ a = r[1] /\ e = Slices!End(r) /\ b = q[1] /\ f = Slices!End(q) /\ a < e /\ b < f
        /\ e <= Modulus - 1 /\ f <= Modulus - 1
  BY RangeForm
<1>2. /\ Slices!Cells(r) \subseteq Nat /\ \A x \in Nat : x \in Slices!Cells(r) <=> a <= x /\ x < e
      /\ Slices!Cells(q) \subseteq Nat /\ \A x \in Nat : x \in Slices!Cells(q) <=> b <= x /\ x < f
  BY <1>1, RangeForm
<1>3. Slices!Contains(r, q) <=> Slices!Cells(q) \subseteq Slices!Cells(r)
  <2>1. Slices!Contains(r, q) <=> a <= b /\ f <= e
    BY <1>1 DEF Slices!Contains
  <2>2. b \in Slices!Cells(q) /\ f - 1 \in Slices!Cells(q)
    BY <1>1, <1>2
  <2>3. Slices!Cells(q) \subseteq Slices!Cells(r) => a <= b /\ f <= e
    BY <1>1, <1>2, <2>2
  <2>4. a <= b /\ f <= e => Slices!Cells(q) \subseteq Slices!Cells(r)
    BY <1>1, <1>2
  <2> QED
    BY <2>1, <2>3, <2>4
<1>4. Slices!Intersects(r, q) <=> b < e /\ a < f
  BY <1>1 DEF Slices!Intersects
<1>5. Slices!Intersects(r, q) <=> Slices!Cells(q) \cap Slices!Cells(r) # {}
  <2>1. ASSUME b < e, a < f PROVE Slices!Cells(q) \cap Slices!Cells(r) # {}
    <3>1. CASE a <= b
      <4>1. b \in Slices!Cells(q) /\ b \in Slices!Cells(r)
        BY <1>1, <1>2, <2>1, <3>1
      <4> QED
        BY <4>1
    <3>2. CASE b <= a
      <4>1. a \in Slices!Cells(q) /\ a \in Slices!Cells(r)
        BY <1>1, <1>2, <2>1, <3>2
      <4> QED
        BY <4>1
    <3> QED
      BY <1>1, <3>1, <3>2
  <2>2. ASSUME NEW x \in Slices!Cells(q), x \in Slices!Cells(r) PROVE b < e /\ a < f
    <3>1. x \in Nat
      BY <1>2
    <3>2. b <= x /\ x < f /\ a <= x /\ x < e
      BY <1>2, <2>2, <3>1
    <3> QED
      BY <3>1, <3>2
  <2> QED
    BY <1>4, <2>1, <2>2
<1>6. CASE ~Slices!Intersects(r, q)
  <2>1. Slices!Intersect(r, q) = <<0, 0>>
    BY <1>6 DEF Slices!Intersect
  <2>2. Slices!Cells(<<0, 0>>) = {}
    BY DEF Slices!Cells
  <2> QED
    BY <1>3, <1>5, <1>6, <2>1, <2>2
<1>7. CASE Slices!Intersects(r, q)
  <2>1. PICK c \in Nat, d \in Nat :
          /\ c = Slices!Greater(a, b) /\ d = Slices!Lesser(e, f) /\ c < d /\ d <= Modulus - 1
          /\ a <= c /\ b <= c /\ (c = a \/ c = b) /\ d <= e /\ d <= f /\ (d = e \/ d = f)
    BY <1>1, <1>4, <1>7 DEF Slices!Greater, Slices!Lesser
  <2>2. Slices!Intersect(r, q) = <<c, d - c>>
    BY <1>1, <1>7, <2>1 DEF Slices!Intersect
  <2>3. /\ <<c, d - c>> \in Slices!Range /\ Slices!Cells(<<c, d - c>>) \subseteq Nat
        /\ \A x \in Nat : x \in Slices!Cells(<<c, d - c>>) <=> c <= x /\ x < d
    BY <2>1, RangeMade
  <2>4. \A x \in Nat : x \in Slices!Cells(<<c, d - c>>) <=> x \in Slices!Cells(q) /\ x \in Slices!Cells(r)
    BY <1>2, <2>1, <2>3
  <2>5. Slices!Cells(<<c, d - c>>) = Slices!Cells(q) \cap Slices!Cells(r)
    BY <1>2, <2>3, <2>4
  <2>6. Slices!End(<<c, d - c>>) = d
    <3>1. Slices!End(<<c, d - c>>) = c + (d - c)
      BY <2>3, RangeForm
    <3> QED
      BY <2>1, <3>1
  <2> QED
    BY <1>1, <1>3, <1>5, <2>1, <2>2, <2>3, <2>5, <2>6
<1> QED
  BY <1>6, <1>7

(* What is before a range and after it is the rest, in pieces apart.       *)
LEMMA AroundARange ==
  ASSUME Wide, NEW r \in Slices!Range, NEW q \in Slices!Range, Slices!Intersects(r, q)
  PROVE  /\ Slices!Before(r, q) \cup Slices!After(r, q) \subseteq Slices!Range
         /\ UNION {Slices!Cells(p) : p \in Slices!Before(r, q) \cup Slices!After(r, q)}
              = Slices!Cells(r) \ Slices!Cells(q)
         /\ \A p, o \in Slices!Before(r, q) \cup Slices!After(r, q) :
              p # o => Slices!Cells(p) \cap Slices!Cells(o) = {}
<1> DEFINE pieces == Slices!Before(r, q) \cup Slices!After(r, q)
<1>1. PICK a \in Nat, e \in Nat, b \in Nat, f \in Nat :
        /\ a = r[1] /\ e = Slices!End(r) /\ b = q[1] /\ f = Slices!End(q) /\ a < e /\ b < f
        /\ e <= Modulus - 1 /\ f <= Modulus - 1
  BY RangeForm
<1>2. /\ Slices!Cells(r) \subseteq Nat /\ \A x \in Nat : x \in Slices!Cells(r) <=> a <= x /\ x < e
      /\ Slices!Cells(q) \subseteq Nat /\ \A x \in Nat : x \in Slices!Cells(q) <=> b <= x /\ x < f
  BY <1>1, RangeForm
<1>3. b < e /\ a < f
  BY <1>1 DEF Slices!Intersects
<1>4. Slices!Before(r, q) = IF b > a THEN {<<a, b - a>>} ELSE {}
  BY <1>1 DEF Slices!Before
<1>5. Slices!After(r, q) = IF f < e THEN {<<f, e - f>>} ELSE {}
  BY <1>1 DEF Slices!After
<1>6. b > a => /\ <<a, b - a>> \in Slices!Range /\ Slices!Cells(<<a, b - a>>) \subseteq Nat
               /\ \A x \in Nat : x \in Slices!Cells(<<a, b - a>>) <=> a <= x /\ x < b
  <2>1. b <= Modulus - 1
    BY <1>1 DEF Wide
  <2> QED
    BY <1>1, <1>3, <2>1, RangeMade
<1>7. f < e => /\ <<f, e - f>> \in Slices!Range /\ Slices!Cells(<<f, e - f>>) \subseteq Nat
               /\ \A x \in Nat : x \in Slices!Cells(<<f, e - f>>) <=> f <= x /\ x < e
  BY <1>1, <1>3, RangeMade
<1>8. \A p \in pieces : \/ p = <<a, b - a>> /\ b > a
                        \/ p = <<f, e - f>> /\ f < e
  BY <1>4, <1>5
<1>9. pieces \subseteq Slices!Range
  BY <1>6, <1>7, <1>8
<1>10. ASSUME NEW p \in pieces, NEW o \in pieces, p # o
       PROVE  Slices!Cells(p) \cap Slices!Cells(o) = {}
  <2>1. SUFFICES ASSUME NEW x \in Slices!Cells(p), x \in Slices!Cells(o) PROVE FALSE
    OBVIOUS
  <2>2. x \in Nat
    BY <1>6, <1>7, <1>8
  <2>3. \/ p = <<a, b - a>> /\ o = <<f, e - f>> /\ b > a /\ f < e
        \/ o = <<a, b - a>> /\ p = <<f, e - f>> /\ b > a /\ f < e
    BY <1>8, <1>10
  <2>4. x < b /\ f <= x
    BY <1>6, <1>7, <2>1, <2>2, <2>3
  <2> QED
    BY <1>1, <2>2, <2>4
<1>11. UNION {Slices!Cells(p) : p \in pieces} = Slices!Cells(r) \ Slices!Cells(q)
  <2>1. ASSUME NEW p \in pieces, NEW x \in Slices!Cells(p) PROVE x \in Slices!Cells(r) \ Slices!Cells(q)
    <3>1. x \in Nat
      BY <1>6, <1>7, <1>8, <2>1
    <3>2. CASE p = <<a, b - a>> /\ b > a
      BY <1>1, <1>2, <1>3, <1>6, <2>1, <3>1, <3>2
    <3>3. CASE p = <<f, e - f>> /\ f < e
      BY <1>1, <1>2, <1>3, <1>7, <2>1, <3>1, <3>3
    <3> QED
      BY <1>8, <3>2, <3>3
  <2>2. ASSUME NEW x \in Slices!Cells(r), x \notin Slices!Cells(q)
        PROVE  \E p \in pieces : x \in Slices!Cells(p)
    <3>1. x \in Nat /\ a <= x /\ x < e /\ (x < b \/ f <= x)
      BY <1>1, <1>2, <2>2
    <3>2. CASE x < b
      <4>1. b > a /\ x \in Slices!Cells(<<a, b - a>>)
        BY <1>1, <1>6, <3>1, <3>2
      <4>2. <<a, b - a>> \in pieces
        BY <1>4, <4>1
      <4> QED
        BY <4>1, <4>2
    <3>3. CASE f <= x
      <4>1. f < e /\ x \in Slices!Cells(<<f, e - f>>)
        BY <1>1, <1>7, <3>1, <3>3
      <4>2. <<f, e - f>> \in pieces
        BY <1>5, <4>1
      <4> QED
        BY <4>1, <4>2
    <3> QED
      BY <3>1, <3>2, <3>3
  <2> QED
    BY <2>1, <2>2
<1> QED
  BY <1>9, <1>10, <1>11

(* Subtract, of ranges of bytes.                                           *)
LEMMA RegionsSubtract ==
  ASSUME Wide, NEW r \in Slices!Range, NEW q \in Slices!Range
  PROVE  /\ Slices!RegionSubtract(r, q) \subseteq Slices!Range
         /\ UNION {Slices!Cells(p) : p \in Slices!RegionSubtract(r, q)} = Slices!Cells(r) \ Slices!Cells(q)
         /\ \A p, o \in Slices!RegionSubtract(r, q) : p # o => Slices!Cells(p) \cap Slices!Cells(o) = {}
<1>1. CASE Slices!Intersects(r, q)
  BY <1>1, AroundARange DEF Slices!RegionSubtract
<1>2. CASE ~Slices!Intersects(r, q)
  <2>1. Slices!RegionSubtract(r, q) = {r}
    BY <1>2 DEF Slices!RegionSubtract
  <2>2. Slices!Cells(q) \cap Slices!Cells(r) = {}
    BY <1>2, PredicatesOfRanges
  <2> QED
    BY <2>1, <2>2
<1> QED
  BY <1>1, <1>2

Slice == Slices!Range \X Slices!Range

(* The subresources of a slice.                                            *)
LEMMA SliceForm ==
  ASSUME Wide, NEW s \in Slice
  PROVE  /\ s[1] \in Slices!Range /\ s[2] \in Slices!Range /\ s = <<s[1], s[2]>>
         /\ Slices!Cells(s[1]) # {} /\ Slices!Cells(s[2]) # {}
         /\ Slices!Covers(s) \subseteq Nat \X Nat
         /\ \A x, y \in Nat : <<x, y>> \in Slices!Covers(s) <=> x \in Slices!Cells(s[1]) /\ y \in Slices!Cells(s[2])
<1>1. s[1] \in Slices!Range /\ s[2] \in Slices!Range /\ s = <<s[1], s[2]>>
  BY DEF Slice
<1>2. \A r \in Slices!Range : r[1] \in Slices!Cells(r) /\ Slices!Cells(r) \subseteq Nat
  <2> SUFFICES ASSUME NEW r \in Slices!Range PROVE r[1] \in Slices!Cells(r) /\ Slices!Cells(r) \subseteq Nat
    OBVIOUS
  <2>1. r[1] < Slices!End(r)
    BY RangeForm
  <2> QED
    BY <2>1, RangeForm
<1>3. Slices!Covers(s) = Slices!Cells(s[1]) \X Slices!Cells(s[2])
  BY DEF Slices!Covers
<1> QED
  BY <1>1, <1>2, <1>3

(* Subtract, of slices: all layers of the levels around, and the layers    *)
(* around of the levels between.                                           *)
LEMMA SlicesSubtract ==
  ASSUME Wide, NEW s \in Slice, NEW t \in Slice
  PROVE  /\ Slices!SliceSubtract(s, t) \subseteq Slice
         /\ UNION {Slices!Covers(p) : p \in Slices!SliceSubtract(s, t)} = Slices!Covers(s) \ Slices!Covers(t)
         /\ \A p, o \in Slices!SliceSubtract(s, t) : p # o => Slices!Covers(p) \cap Slices!Covers(o) = {}
<1>1. /\ s[1] \in Slices!Range /\ s[2] \in Slices!Range /\ t[1] \in Slices!Range /\ t[2] \in Slices!Range
  BY SliceForm
<1>2. PICK A, B, C, D : /\ A = Slices!Cells(s[1]) /\ B = Slices!Cells(s[2])
                        /\ C = Slices!Cells(t[1]) /\ D = Slices!Cells(t[2])
  OBVIOUS
<1>3. Slices!Covers(s) = A \X B /\ Slices!Covers(t) = C \X D
  BY <1>2 DEF Slices!Covers
<1>4. CASE ~Slices!SliceIntersects(s, t)
  <2>1. Slices!SliceSubtract(s, t) = {s}
    BY <1>4 DEF Slices!SliceSubtract
  <2>2. A \cap C = {} \/ B \cap D = {}
    BY <1>1, <1>2, <1>4, PredicatesOfRanges DEF Slices!SliceIntersects
  <2>3. (A \X B) \ (C \X D) = A \X B
    BY <2>2
  <2> QED
    BY <1>3, <2>1, <2>3
<1>5. CASE Slices!SliceIntersects(s, t)
  <2>1. PICK i, j : i = Slices!Intersect(s[1], t[1]) /\ j = Slices!Intersect(s[2], t[2])
    OBVIOUS
  <2>2. Slices!Intersects(s[1], t[1]) /\ Slices!Intersects(s[2], t[2])
    BY <1>5 DEF Slices!SliceIntersects
  <2>3. i \in Slices!Range /\ j \in Slices!Range /\ Slices!Cells(i) = C \cap A /\ Slices!Cells(j) = D \cap B
    BY <1>1, <1>2, <2>1, <2>2, PredicatesOfRanges
  <2>4. C \cap A # {} /\ D \cap B # {}
    BY <1>1, <1>2, <2>2, PredicatesOfRanges
  <2>5. Slices!Intersects(s[1], i) /\ Slices!Intersects(s[2], j)
    BY <1>1, <1>2, <2>3, <2>4, PredicatesOfRanges
  <2>6. PICK P, Q : /\ P = Slices!Before(s[1], i) \cup Slices!After(s[1], i)
                    /\ Q = Slices!Before(s[2], j) \cup Slices!After(s[2], j)
    OBVIOUS
  <2>7. /\ P \subseteq Slices!Range /\ UNION {Slices!Cells(p) : p \in P} = A \ (C \cap A)
        /\ \A p, o \in P : p # o => Slices!Cells(p) \cap Slices!Cells(o) = {}
    BY <1>1, <1>2, <2>3, <2>5, <2>6, AroundARange
  <2>8. /\ Q \subseteq Slices!Range /\ UNION {Slices!Cells(p) : p \in Q} = B \ (D \cap B)
        /\ \A p, o \in Q : p # o => Slices!Cells(p) \cap Slices!Cells(o) = {}
    BY <1>1, <1>2, <2>3, <2>5, <2>6, AroundARange
  <2>9. Slices!SliceSubtract(s, t) = (P \X {s[2]}) \cup ({i} \X Q)
    <3>1. Slices!SliceIntersect(s, t) = <<i, j>>
      BY <1>5, <2>1 DEF Slices!SliceIntersect
    <3> QED
      BY <1>5, <2>6, <3>1 DEF Slices!SliceSubtract
  <2>10. \A p \in P, q \in Q : /\ Slices!Covers(<<p, s[2]>>) = Slices!Cells(p) \X B
                                /\ Slices!Covers(<<i, q>>) = (C \cap A) \X Slices!Cells(q)
    BY <1>2, <2>3 DEF Slices!Covers
  <2>11. \A p \in P : Slices!Cells(p) \subseteq A \ C
    BY <2>7
  <2>12. \A q \in Q : Slices!Cells(q) \subseteq B \ D
    BY <2>8
  <2>13. \A x : x \in Slices!SliceSubtract(s, t) =>
            \/ \E p \in P : x = <<p, s[2]>> /\ Slices!Covers(x) = Slices!Cells(p) \X B
            \/ \E q \in Q : x = <<i, q>> /\ Slices!Covers(x) = (C \cap A) \X Slices!Cells(q)
    BY <1>2, <2>3, <2>9 DEF Slices!Covers
  <2>14. Slices!SliceSubtract(s, t) \subseteq Slice
    BY <1>1, <2>3, <2>7, <2>8, <2>9 DEF Slice
  <2>15. ASSUME NEW x \in Slices!SliceSubtract(s, t), NEW y \in Slices!SliceSubtract(s, t), x # y
         PROVE  Slices!Covers(x) \cap Slices!Covers(y) = {}
    <3>1. CASE \E p, o \in P : /\ x = <<p, s[2]>> /\ Slices!Covers(x) = Slices!Cells(p) \X B
                               /\ y = <<o, s[2]>> /\ Slices!Covers(y) = Slices!Cells(o) \X B
      BY <2>7, <2>15, <3>1
    <3>2. CASE \E p, o \in Q : /\ x = <<i, p>> /\ Slices!Covers(x) = (C \cap A) \X Slices!Cells(p)
                               /\ y = <<i, o>> /\ Slices!Covers(y) = (C \cap A) \X Slices!Cells(o)
      BY <2>8, <2>15, <3>2
    <3>3. CASE \E p \in P, q \in Q :
                  \/ Slices!Covers(x) = Slices!Cells(p) \X B /\ Slices!Covers(y) = (C \cap A) \X Slices!Cells(q)
                  \/ Slices!Covers(y) = Slices!Cells(p) \X B /\ Slices!Covers(x) = (C \cap A) \X Slices!Cells(q)
      BY <2>11, <3>3
    <3> QED
      BY <2>13, <3>1, <3>2, <3>3
  <2>16. ASSUME NEW x \in Slices!SliceSubtract(s, t), NEW z \in Slices!Covers(x)
         PROVE  z \in (A \X B) \ (C \X D)
    BY <2>11, <2>12, <2>13, <2>16
  <2>17. ASSUME NEW a \in A, NEW b \in B, <<a, b>> \notin C \X D
         PROVE  \E x \in Slices!SliceSubtract(s, t) : <<a, b>> \in Slices!Covers(x)
    <3>1. CASE a \notin C
      <4>1. PICK p \in P : a \in Slices!Cells(p)
        BY <2>7, <3>1
      <4>2. <<p, s[2]>> \in Slices!SliceSubtract(s, t) /\ <<a, b>> \in Slices!Covers(<<p, s[2]>>)
        BY <1>2, <2>9, <4>1 DEF Slices!Covers
      <4> QED
        BY <4>2
    <3>2. CASE a \in C
      <4>1. b \notin D
        BY <2>17, <3>2
      <4>2. PICK q \in Q : b \in Slices!Cells(q)
        BY <2>8, <4>1
      <4>3. <<i, q>> \in Slices!SliceSubtract(s, t) /\ <<a, b>> \in Slices!Covers(<<i, q>>)
        BY <2>3, <2>9, <3>2, <4>2 DEF Slices!Covers
      <4> QED
        BY <4>3
    <3> QED
      BY <3>1, <3>2
  <2>18. \A z \in (A \X B) \ (C \X D) : \E x \in Slices!SliceSubtract(s, t) : z \in Slices!Covers(x)
    BY <2>17
  <2>19. UNION {Slices!Covers(x) : x \in Slices!SliceSubtract(s, t)} = (A \X B) \ (C \X D)
    BY <2>16, <2>18
  <2> QED
    BY <1>3, <2>14, <2>15, <2>19
<1> QED
  BY <1>4, <1>5

(* Pieces that are each replaced by what a subtraction leaves of them.     *)
MakeUp(pieces, Of, whole) ==
  /\ UNION {Of[p] : p \in pieces} = whole
  /\ \A p, q \in pieces : p # q => Of[p] \cap Of[q] = {}
LeftOf(pieces, Rest) == UNION {Rest[p] : p \in pieces}

(* Taking apart each of a set of ranges that do not overlap leaves ranges *)
(* that do not overlap, and of their cells all but those taken.            *)
LEMMA SubtractFromEach ==
  ASSUME NEW pieces, NEW cut, NEW whole, NEW Of, NEW Rest,
         MakeUp(pieces, Of, whole), \A p \in pieces : MakeUp(Rest[p], Of, Of[p] \ cut)
  PROVE  MakeUp(LeftOf(pieces, Rest), Of, whole \ cut)
<1> DEFINE after == LeftOf(pieces, Rest)
<1> USE DEF MakeUp
<1>1. \A p \in pieces : \A z : (\E x \in Rest[p] : z \in Of[x]) <=> z \in Of[p] /\ z \notin cut
  <2> SUFFICES ASSUME NEW p \in pieces, NEW z
               PROVE  (\E x \in Rest[p] : z \in Of[x]) <=> z \in Of[p] /\ z \notin cut
    OBVIOUS
  <2>1. z \in UNION {Of[x] : x \in Rest[p]} <=> \E x \in Rest[p] : z \in Of[x]
    OBVIOUS
  <2> QED
    BY <2>1
<1>2. \A z : z \in whole <=> \E p \in pieces : z \in Of[p]
  OBVIOUS
<1>3. \A x : x \in after <=> \E p \in pieces : x \in Rest[p]
  BY DEF LeftOf
<1> HIDE DEF after
<1>4. \A z : z \in UNION {Of[x] : x \in after} <=> \E x \in after : z \in Of[x]
  OBVIOUS
<1>5. \A z : (\E x \in after : z \in Of[x]) <=> z \in whole /\ z \notin cut
  BY <1>1, <1>2, <1>3
<1>6. UNION {Of[x] : x \in after} = whole \ cut
  <2>1. \A z : z \in UNION {Of[x] : x \in after} <=> z \in whole \ cut
    BY <1>4, <1>5
  <2> QED
    BY <2>1
<1>7. ASSUME NEW x \in after, NEW y \in after, x # y PROVE Of[x] \cap Of[y] = {}
  <2>1. PICK p \in pieces, q \in pieces : x \in Rest[p] /\ y \in Rest[q]
    BY <1>3
  <2>2. CASE p = q
    BY <1>7, <2>1, <2>2
  <2>3. CASE p # q
    <3>1. Of[p] \cap Of[q] = {}
      BY <2>3
    <3>2. \A z : z \in Of[x] => z \in Of[p]
      BY <1>1, <2>1
    <3>3. \A z : z \in Of[y] => z \in Of[q]
      BY <1>1, <2>1
    <3> QED
      BY <3>1, <3>2, <3>3
  <2> QED
    BY <2>2, <2>3
<1> QED
  BY <1>6, <1>7 DEF after

(* The invariant: it is inductive as it stands, with the types.            *)
SlicesInv ==
  /\ what \in {"image", "buffer"} /\ left \subseteq (IF what = "image" THEN Slice ELSE Slices!Range)
  /\ Slices!LeftIsTheRest /\ Slices!PiecesApart

(* Something is taken of a texture.                                        *)
LEMMA TakeSliceStep ==
  ASSUME Wide, SlicesInv, NEW s \in Slice, Slices!TakeSlice(s)
  PROVE  SlicesInv'
<1> DEFINE Of == [p \in Slice |-> Slices!Covers(p)]
           Rest == [p \in Slice |-> Slices!SliceSubtract(p, s)]
<1>1. /\ what = "image" /\ what' = what /\ taken' = taken \cup Slices!Covers(s)
      /\ left' = UNION {Slices!SliceSubtract(p, s) : p \in left} /\ left \subseteq Slice
  BY DEF Slices!TakeSlice, SlicesInv
<1>2. \A p \in Slice : Of[p] = Slices!Covers(p) /\ Rest[p] = Slices!SliceSubtract(p, s)
  OBVIOUS
<1>3. \A p \in Slice : /\ Rest[p] \subseteq Slice
                       /\ UNION {Slices!Covers(x) : x \in Rest[p]} = Slices!Covers(p) \ Slices!Covers(s)
                       /\ \A x, y \in Rest[p] : x # y => Slices!Covers(x) \cap Slices!Covers(y) = {}
  BY SlicesSubtract
<1> HIDE DEF Of, Rest
<1>4. \A p \in Slice : /\ UNION {Of[x] : x \in Rest[p]} = Of[p] \ Slices!Covers(s)
                       /\ \A x, y \in Rest[p] : x # y => Of[x] \cap Of[y] = {}
  BY <1>2, <1>3
<1>5. /\ UNION {Of[p] : p \in left} = Slices!All \ taken
      /\ \A p, q \in left : p # q => Of[p] \cap Of[q] = {}
  BY <1>1, <1>2 DEF SlicesInv, Slices!LeftIsTheRest, Slices!PiecesApart, Slices!CellsOf
<1>6. left' = UNION {Rest[p] : p \in left} /\ left' \subseteq Slice
  BY <1>1, <1>2, <1>3
<1>7. /\ UNION {Of[x] : x \in left'} = (Slices!All \ taken) \ Slices!Covers(s)
      /\ \A x, y \in left' : x # y => Of[x] \cap Of[y] = {}
  <2>1. PICK pieces : pieces = left /\ pieces \subseteq Slice
    BY <1>1
  <2>2. PICK whole : whole = Slices!All \ taken
    OBVIOUS
  <2>3. PICK cut : cut = Slices!Covers(s)
    OBVIOUS
  <2>4. \A p \in pieces : MakeUp(Rest[p], Of, Of[p] \ cut)
    BY <1>4, <2>1, <2>3 DEF MakeUp
  <2>5. MakeUp(pieces, Of, whole)
    BY <1>5, <2>1, <2>2 DEF MakeUp
  <2>6. MakeUp(LeftOf(pieces, Rest), Of, whole \ cut)
    BY <2>4, <2>5, SubtractFromEach
  <2>7. LeftOf(pieces, Rest) = left'
    BY <1>6, <2>1 DEF LeftOf
  <2> QED
    BY <2>2, <2>3, <2>6, <2>7 DEF MakeUp
<1>8. /\ UNION {Of[x] : x \in left'} = Slices!All \ taken'
      /\ \A x, y \in left' : x # y => Of[x] \cap Of[y] = {}
  <2>1. taken' = taken \cup Slices!Covers(s)
    BY <1>1
  <2>2. (Slices!All \ taken) \ Slices!Covers(s) = Slices!All \ taken'
    BY <2>1
  <2> QED
    BY <1>7, <2>2
<1>9. Slices!All' = Slices!All
  BY <1>1 DEF Slices!All
<1>10. Slices!LeftIsTheRest' /\ Slices!PiecesApart'
  BY <1>1, <1>2, <1>6, <1>8, <1>9 DEF Slices!LeftIsTheRest, Slices!PiecesApart, Slices!CellsOf
<1> QED
  BY <1>1, <1>6, <1>10 DEF SlicesInv

(* Something is taken of a buffer.                                         *)
LEMMA TakeRegionStep ==
  ASSUME Wide, SlicesInv, NEW r \in Slices!Range, Slices!TakeRegion(r)
  PROVE  SlicesInv'
<1> DEFINE Of == [p \in Slices!Range |-> Slices!Cells(p)]
           Rest == [p \in Slices!Range |-> Slices!RegionSubtract(p, r)]
<1>1. /\ what = "buffer" /\ what' = what /\ taken' = taken \cup Slices!Cells(r)
      /\ left' = UNION {Slices!RegionSubtract(p, r) : p \in left} /\ left \subseteq Slices!Range
  BY DEF Slices!TakeRegion, SlicesInv
<1>2. \A p \in Slices!Range : Of[p] = Slices!Cells(p) /\ Rest[p] = Slices!RegionSubtract(p, r)
  OBVIOUS
<1>3. \A p \in Slices!Range : /\ Rest[p] \subseteq Slices!Range
                       /\ UNION {Slices!Cells(x) : x \in Rest[p]} = Slices!Cells(p) \ Slices!Cells(r)
                       /\ \A x, y \in Rest[p] : x # y => Slices!Cells(x) \cap Slices!Cells(y) = {}
  BY RegionsSubtract
<1> HIDE DEF Of, Rest
<1>4. \A p \in Slices!Range : /\ UNION {Of[x] : x \in Rest[p]} = Of[p] \ Slices!Cells(r)
                       /\ \A x, y \in Rest[p] : x # y => Of[x] \cap Of[y] = {}
  BY <1>2, <1>3
<1>5. /\ UNION {Of[p] : p \in left} = Slices!All \ taken
      /\ \A p, q \in left : p # q => Of[p] \cap Of[q] = {}
  BY <1>1, <1>2 DEF SlicesInv, Slices!LeftIsTheRest, Slices!PiecesApart, Slices!CellsOf
<1>6. left' = UNION {Rest[p] : p \in left} /\ left' \subseteq Slices!Range
  BY <1>1, <1>2, <1>3
<1>7. /\ UNION {Of[x] : x \in left'} = (Slices!All \ taken) \ Slices!Cells(r)
      /\ \A x, y \in left' : x # y => Of[x] \cap Of[y] = {}
  <2>1. PICK pieces : pieces = left /\ pieces \subseteq Slices!Range
    BY <1>1
  <2>2. PICK whole : whole = Slices!All \ taken
    OBVIOUS
  <2>3. PICK cut : cut = Slices!Cells(r)
    OBVIOUS
  <2>4. \A p \in pieces : MakeUp(Rest[p], Of, Of[p] \ cut)
    BY <1>4, <2>1, <2>3 DEF MakeUp
  <2>5. MakeUp(pieces, Of, whole)
    BY <1>5, <2>1, <2>2 DEF MakeUp
  <2>6. MakeUp(LeftOf(pieces, Rest), Of, whole \ cut)
    BY <2>4, <2>5, SubtractFromEach
  <2>7. LeftOf(pieces, Rest) = left'
    BY <1>6, <2>1 DEF LeftOf
  <2> QED
    BY <2>2, <2>3, <2>6, <2>7 DEF MakeUp
<1>8. /\ UNION {Of[x] : x \in left'} = Slices!All \ taken'
      /\ \A x, y \in left' : x # y => Of[x] \cap Of[y] = {}
  <2>1. taken' = taken \cup Slices!Cells(r)
    BY <1>1
  <2>2. (Slices!All \ taken) \ Slices!Cells(r) = Slices!All \ taken'
    BY <2>1
  <2> QED
    BY <1>7, <2>2
<1>9. Slices!All' = Slices!All
  BY <1>1 DEF Slices!All
<1>10. Slices!LeftIsTheRest' /\ Slices!PiecesApart'
  BY <1>1, <1>2, <1>6, <1>8, <1>9 DEF Slices!LeftIsTheRest, Slices!PiecesApart, Slices!CellsOf
<1> QED
  BY <1>1, <1>6, <1>10 DEF SlicesInv

(* The predicates say of slices what sets say of their subresources.       *)
LEMMA PredicatesOfSlices ==
  ASSUME Wide, NEW p \in Slice, NEW s \in Slice
  PROVE  /\ Slices!SliceContains(p, s) <=> Slices!Covers(s) \subseteq Slices!Covers(p)
         /\ Slices!SliceIntersects(p, s) <=> Slices!Covers(s) \cap Slices!Covers(p) # {}
         /\ Slices!Covers(Slices!SliceIntersect(p, s)) = Slices!Covers(s) \cap Slices!Covers(p)
<1>1. /\ s[1] \in Slices!Range /\ s[2] \in Slices!Range /\ p[1] \in Slices!Range /\ p[2] \in Slices!Range
  BY SliceForm
<1>2. PICK A, B, C, D : /\ A = Slices!Cells(p[1]) /\ B = Slices!Cells(p[2])
                        /\ C = Slices!Cells(s[1]) /\ D = Slices!Cells(s[2])
  OBVIOUS
<1>3. Slices!Covers(p) = A \X B /\ Slices!Covers(s) = C \X D /\ C # {} /\ D # {}
  BY <1>2, SliceForm DEF Slices!Covers
<1>4. Slices!SliceContains(p, s) <=> Slices!Covers(s) \subseteq Slices!Covers(p)
  <2>1. Slices!SliceContains(p, s) <=> C \subseteq A /\ D \subseteq B
    BY <1>1, <1>2, PredicatesOfRanges DEF Slices!SliceContains
  <2>2. PICK c \in C, d \in D : TRUE
    BY <1>3
  <2>3. ASSUME C \X D \subseteq A \X B PROVE C \subseteq A /\ D \subseteq B
    <3>1. ASSUME NEW x \in C PROVE x \in A
      <4>1. <<x, d>> \in A \X B
        BY <2>3
      <4> QED
        BY <4>1
    <3>2. ASSUME NEW y \in D PROVE y \in B
      <4>1. <<c, y>> \in A \X B
        BY <2>3
      <4> QED
        BY <4>1
    <3> QED
      BY <3>1, <3>2
  <2>4. C \subseteq A /\ D \subseteq B => C \X D \subseteq A \X B
    OBVIOUS
  <2> QED
    BY <1>3, <2>1, <2>3, <2>4
<1>5. Slices!SliceIntersects(p, s) <=> C \cap A # {} /\ D \cap B # {}
  BY <1>1, <1>2, PredicatesOfRanges DEF Slices!SliceIntersects
<1>6. C \cap A # {} /\ D \cap B # {} <=> (C \X D) \cap (A \X B) # {}
  <2>1. (C \X D) \cap (A \X B) = (C \cap A) \X (D \cap B)
    OBVIOUS
  <2>2. ASSUME NEW c \in C \cap A, NEW d \in D \cap B PROVE (C \cap A) \X (D \cap B) # {}
    <3>1. <<c, d>> \in (C \cap A) \X (D \cap B)
      OBVIOUS
    <3> QED
      BY <3>1
  <2>3. ASSUME NEW z \in (C \cap A) \X (D \cap B) PROVE C \cap A # {} /\ D \cap B # {}
    OBVIOUS
  <2> QED
    BY <2>1, <2>2, <2>3
<1>7. Slices!Covers(Slices!SliceIntersect(p, s)) = Slices!Covers(s) \cap Slices!Covers(p)
  <2>1. CASE Slices!SliceIntersects(p, s)
    <3>1. Slices!SliceIntersect(p, s) = <<Slices!Intersect(p[1], s[1]), Slices!Intersect(p[2], s[2])>>
      BY <2>1 DEF Slices!SliceIntersect
    <3>2. /\ Slices!Cells(Slices!Intersect(p[1], s[1])) = C \cap A
          /\ Slices!Cells(Slices!Intersect(p[2], s[2])) = D \cap B
      BY <1>1, <1>2, PredicatesOfRanges
    <3>3. Slices!Covers(Slices!SliceIntersect(p, s)) = (C \cap A) \X (D \cap B)
      BY <3>1, <3>2 DEF Slices!Covers
    <3> QED
      BY <1>3, <3>3
  <2>2. CASE ~Slices!SliceIntersects(p, s)
    <3>1. Slices!SliceIntersect(p, s) = <<<<0, 0>>, <<0, 0>>>>
      BY <2>2 DEF Slices!SliceIntersect
    <3>2. Slices!Cells(<<0, 0>>) = {}
      BY DEF Slices!Cells
    <3>3. Slices!Covers(<<<<0, 0>>, <<0, 0>>>>) = {}
      BY <3>2 DEF Slices!Covers
    <3> QED
      BY <1>3, <1>5, <1>6, <2>2, <3>1, <3>3
  <2> QED
    BY <2>1, <2>2
<1> QED
  BY <1>3, <1>4, <1>5, <1>6, <1>7

(* ... and of single levels and layers.                                    *)
LEMMA PredicatesOfSubresources ==
  ASSUME Wide, NEW p \in Slice, NEW s \in Slice
  PROVE  /\ Slices!ArraySliceContainedIn(s[1][1], s[2], p)
              <=> {s[1][1]} \X Slices!Cells(s[2]) \subseteq Slices!Covers(p)
         /\ Slices!ImageSliceContainedIn(s[1][1], s[2][1], p) <=> <<s[1][1], s[2][1]>> \in Slices!Covers(p)
         /\ <<s[1][1], s[2][1]>> \in Slices!Covers(p) <=>
              \E i \in 0 .. p[1][2] - 1, j \in 0 .. p[2][2] - 1 :
                 Slices!SliceOf(p, i, j) = <<s[1][1], s[2][1]>>
<1>1. /\ s[1] \in Slices!Range /\ s[2] \in Slices!Range /\ p[1] \in Slices!Range /\ p[2] \in Slices!Range
      /\ Slices!Cells(s[2]) # {}
  BY SliceForm
<1>2. PICK x \in Nat, y \in Nat : x = s[1][1] /\ y = s[2][1]
  BY <1>1, RangeForm
<1>3. PICK a \in Nat, m \in Nat, b \in Nat, n \in Nat :
        /\ a = p[1][1] /\ m = p[1][2] /\ b = p[2][1] /\ n = p[2][2]
        /\ Slices!End(p[1]) = a + m /\ Slices!End(p[2]) = b + n
  BY <1>1, RangeForm
<1>4. /\ x \in Slices!Cells(p[1]) <=> a <= x /\ x < a + m
      /\ y \in Slices!Cells(p[2]) <=> b <= y /\ y < b + n
  BY <1>1, <1>3, RangeForm
<1>5. <<x, y>> \in Slices!Covers(p) <=> a <= x /\ x < a + m /\ b <= y /\ y < b + n
  BY <1>4 DEF Slices!Covers
<1>6. Slices!ImageSliceContainedIn(x, y, p) <=> <<x, y>> \in Slices!Covers(p)
  BY <1>3, <1>5 DEF Slices!ImageSliceContainedIn
<1>7. Slices!ArraySliceContainedIn(x, s[2], p) <=> {x} \X Slices!Cells(s[2]) \subseteq Slices!Covers(p)
  <2>1. Slices!ArraySliceContainedIn(x, s[2], p) <=> (a <= x /\ x < a + m) /\ Slices!Contains(p[2], s[2])
    BY <1>3 DEF Slices!ArraySliceContainedIn, Slices!Contains
  <2>2. Slices!Contains(p[2], s[2]) <=> Slices!Cells(s[2]) \subseteq Slices!Cells(p[2])
    BY <1>1, PredicatesOfRanges
  <2>3. {x} \X Slices!Cells(s[2]) \subseteq Slices!Covers(p)
          <=> x \in Slices!Cells(p[1]) /\ Slices!Cells(s[2]) \subseteq Slices!Cells(p[2])
    <3>1. PICK A, B, D : A = Slices!Cells(p[1]) /\ B = Slices!Cells(p[2]) /\ D = Slices!Cells(s[2])
      OBVIOUS
    <3>2. Slices!Covers(p) = A \X B
      BY <3>1 DEF Slices!Covers
    <3>3. PICK d : d \in D
      BY <1>1, <3>1
    <3>4. ASSUME {x} \X D \subseteq A \X B PROVE x \in A /\ D \subseteq B
      <4>1. \A e \in D : <<x, e>> \in A \X B
        BY <3>4
      <4>2. x \in A
        BY <3>3, <4>1
      <4> QED
        BY <4>1, <4>2
    <3>5. x \in A /\ D \subseteq B => {x} \X D \subseteq A \X B
      OBVIOUS
    <3> QED
      BY <3>1, <3>2, <3>4, <3>5
  <2> QED
    BY <1>4, <2>1, <2>2, <2>3
<1>8. <<x, y>> \in Slices!Covers(p) <=>
        \E i \in 0 .. m - 1, j \in 0 .. n - 1 : Slices!SliceOf(p, i, j) = <<x, y>>
  <2>1. \A i, j : Slices!SliceOf(p, i, j) = <<a + i, b + j>>
    BY <1>3 DEF Slices!SliceOf
  <2>2. ASSUME a <= x, x < a + m, b <= y, y < b + n
        PROVE  \E i \in 0 .. m - 1, j \in 0 .. n - 1 : Slices!SliceOf(p, i, j) = <<x, y>>
    <3>1. x - a \in 0 .. m - 1 /\ y - b \in 0 .. n - 1 /\ a + (x - a) = x /\ b + (y - b) = y
      BY <2>2
    <3>2. Slices!SliceOf(p, x - a, y - b) = <<x, y>>
      BY <2>1, <3>1
    <3> QED
      BY <3>1, <3>2
  <2>3. ASSUME NEW i \in 0 .. m - 1, NEW j \in 0 .. n - 1, Slices!SliceOf(p, i, j) = <<x, y>>
        PROVE  a <= x /\ x < a + m /\ b <= y /\ y < b + n
    <3>1. a + i = x /\ b + j = y
      BY <2>1, <2>3
    <3> QED
      BY <3>1
  <2> QED
    BY <1>5, <2>2, <2>3
<1> QED
  BY <1>2, <1>3, <1>6, <1>7, <1>8

(* The default slice or region is a range.                                 *)
LEMMA WholeIsARange ==
  ASSUME Wide
  PROVE  Slices!Whole \in Slices!Range
  BY DEF Wide, Slices!Whole, Slices!Range, Slices!Max

(* With integers of any width: whatever is subtracted, one slice after the *)
(* other, what is left and what was taken are the whole, no piece overlaps *)
(* another, and the predicates are those of sets.                          *)
THEOREM SubtractionIsExact ==
  ASSUME Wide
  PROVE  Slices!Spec => []SubtractIsExact
<1>1. Slices!Init => SlicesInv
  <2> SUFFICES ASSUME Slices!Init PROVE SlicesInv
    OBVIOUS
  <2>1. CASE what = "image"
    <3>1. left = {<<Slices!Whole, Slices!Whole>>} /\ taken = {}
      BY <2>1 DEF Slices!Init
    <3>2. Slices!Covers(<<Slices!Whole, Slices!Whole>>) = Slices!All
      BY <2>1 DEF Slices!Covers, Slices!All
    <3>3. Slices!LeftIsTheRest /\ Slices!PiecesApart
      BY <2>1, <3>1, <3>2 DEF Slices!LeftIsTheRest, Slices!PiecesApart, Slices!CellsOf
    <3> QED
      BY <2>1, <3>1, <3>3, WholeIsARange DEF SlicesInv, Slice
  <2>2. CASE what = "buffer"
    <3>1. left = {Slices!Whole} /\ taken = {}
      BY <2>2 DEF Slices!Init
    <3>2. Slices!LeftIsTheRest /\ Slices!PiecesApart
      BY <2>2, <3>1 DEF Slices!LeftIsTheRest, Slices!PiecesApart, Slices!CellsOf, Slices!All
    <3> QED
      BY <2>2, <3>1, <3>2, WholeIsARange DEF SlicesInv
  <2> QED
    BY <2>1, <2>2 DEF Slices!Init
<1>2. SlicesInv /\ [Slices!Next]_Slices!vars => SlicesInv'
  <2> SUFFICES ASSUME SlicesInv, [Slices!Next]_Slices!vars PROVE SlicesInv'
    OBVIOUS
  <2>1. CASE UNCHANGED Slices!vars
    <3>1. what' = what /\ left' = left /\ taken' = taken
      BY <2>1 DEF Slices!vars
    <3> QED
      BY <3>1 DEF SlicesInv, Slices!LeftIsTheRest, Slices!PiecesApart, Slices!CellsOf, Slices!All
  <2> QED
    BY <2>1, TakeSliceStep, TakeRegionStep DEF Slices!Next, Slice
<1>3. SlicesInv => SubtractIsExact
  <2> SUFFICES ASSUME SlicesInv PROVE SubtractIsExact
    OBVIOUS
  <2>1. CASE what = "image"
    <3>1. left \subseteq Slice
      BY <2>1 DEF SlicesInv
    <3>2. Slices!PredicatesAgree
      BY <2>1, <3>1, PredicatesOfSlices, PredicatesOfSubresources DEF Slices!PredicatesAgree, Slice
    <3> QED
      BY <3>2 DEF SlicesInv, SubtractIsExact
  <2>2. CASE what = "buffer"
    <3>1. left \subseteq Slices!Range
      BY <2>2 DEF SlicesInv
    <3>2. Slices!PredicatesAgree
      BY <2>2, <3>1, PredicatesOfRanges DEF Slices!PredicatesAgree
    <3> QED
      BY <3>2 DEF SlicesInv, SubtractIsExact
  <2> QED
    BY <2>1, <2>2 DEF SlicesInv
<1> QED
  BY <1>1, <1>2, <1>3, PTL DEF Slices!Spec
=============================================================================

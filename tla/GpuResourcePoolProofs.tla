----------------------- MODULE GpuResourcePoolProofs -----------------------
(* Theorems about GpuResourcePool: for any threads, indices and versions. *)
EXTENDS GpuResourcePool, SequenceTheorems, TLAPS

(* An index from nextIndex on has not been touched, one below has a version. *)
Versioned ==
  /\ \A i \in Index : Free(i) => i < nextIndex
  /\ \A i \in Index : i < nextIndex => version[i] # 0
  /\ \A i \in Index : i >= nextIndex => version[i] = 0 /\ retired[i] = <<>>

(* A filled slot holds what its creator put there. *)
Filled == \A t \in Thread : call[t].op = "filled" => content[call[t].id.index] = call[t].id

(* The version of a slot is as far beyond a version given back as there   *)
(* were returns since, going round after LastVersion.                      *)
Distance ==
  \A i \in Index : \A k \in 1 .. Len(retired[i]) :
    LET d == Len(retired[i]) - k + 1 IN
      d < LastVersion => \/ version[i] = retired[i][k] + d
                         \/ version[i] = retired[i][k] + d - LastVersion

(* The inductive invariant. *)
IInv ==
  TypeOK /\ OneHolder /\ HeldIdsAreValid /\ SlotHoldsItsResource /\ Versioned /\ Filled /\ Distance

-----------------------------------------------------------------------------

(* The versions go round from 1 to LastVersion and never pass 0. *)
LEMMA AtLeastOneCuts ==
  ASSUME NEW v \in 1 .. LastVersion
  PROVE  /\ AtLeastOne(v) = v
         /\ AtLeastOne(v + 1) = IF v = LastVersion THEN 1 ELSE v + 1
<1>1. v % (LastVersion + 1) = v
  BY LastVersionAssumption, SMT
<1>2. (LastVersion + 1) % (LastVersion + 1) = 0
  BY LastVersionAssumption, SMT
<1>3. v # LastVersion => (v + 1) % (LastVersion + 1) = v + 1
  BY LastVersionAssumption, SMT
<1> QED
  BY <1>1, <1>2, <1>3 DEF AtLeastOne

(* A slot that was never used gets its first version. *)
LEMMA AtLeastOneOfZero == AtLeastOne(0) = 1
<1>1. 0 % (LastVersion + 1) = 0
  BY LastVersionAssumption, SMT
<1> QED
  BY <1>1 DEF AtLeastOne

(* The top of a stack that is not empty, and the rest. *)
LEMMA StackTop ==
  ASSUME NEW S, NEW s \in Seq(S), s # <<>>
  PROVE  /\ Last(s) \in S /\ Front(s) \in Seq(S)
         /\ Len(s) \in Nat \ {0} /\ Len(Front(s)) = Len(s) - 1
         /\ Last(s) = s[Len(s)]
         /\ \A k \in 1 .. Len(s) - 1 : Front(s)[k] = s[k]
<1>1. Len(s) \in Nat \ {0} /\ \A k \in 1 .. Len(s) : s[k] \in S
  BY EmptySeq, LenProperties
<1>2. SubSeq(s, 1, Len(s) - 1) \in Seq(S)
  BY <1>1, SubSeqProperties
<1>3. Len(SubSeq(s, 1, Len(s) - 1)) = Len(s) - 1
  <2> DEFINE n == Len(s) - 1
  <2>1. n \in Nat /\ \A i \in 1 .. n : s[i] \in S
    BY <1>1
  <2>2. Len(SubSeq(s, 1, n)) = IF 1 <= n THEN n - 1 + 1 ELSE 0
    <3> HIDE DEF n
    <3> QED
      BY <2>1, SubSeqProperties
  <2>3. Len(SubSeq(s, 1, n)) = n
    <3> HIDE DEF n
    <3> QED
      BY <2>1, <2>2
  <2> QED
    BY <2>3
<1>4. \A k \in 1 .. Len(s) - 1 : SubSeq(s, 1, Len(s) - 1)[k] = s[k]
  BY <1>1
<1> QED
  BY <1>1, <1>2, <1>3, <1>4 DEF Last, Front

(* Initially the invariant holds. *)
LEMMA InitIInv == Init => IInv
<1> SUFFICES ASSUME Init PROVE IInv
  OBVIOUS
<1> USE MaxResourcesAssumption, LastVersionAssumption DEF Init
<1>1. Busy = {} /\ Held = {}
  BY DEF Busy, Held
<1>2. TypeOK
  BY DEF TypeOK, Idle, Index
<1>3. OneHolder
  BY <1>1 DEF OneHolder, FreeOnce, HeldNotFree, OneIdAnIndex, OneOwner, NoneLost
<1>4. Filled
  BY DEF Filled, Idle
<1>5. HeldIdsAreValid /\ SlotHoldsItsResource /\ Versioned /\ Distance
  BY <1>1 DEF HeldIdsAreValid, SlotHoldsItsResource, Versioned, Distance, Index, Free
<1> QED
  BY <1>2, <1>3, <1>4, <1>5 DEF IInv

(* What a thread that gets a slot leaves: one more id is held, at an index *)
(* that nothing was held at, and that is not free.                         *)
Gets(t, id) ==
  /\ call' = [call EXCEPT ![t] = [op |-> "taken", id |-> id]]
  /\ version' = [version EXCEPT ![id.index] = id.version]
  /\ version[id.index] # 0 => id.version = version[id.index]
  /\ Busy' = Busy \cup {t} /\ t \notin Busy
  /\ Held' = Held \cup {id}
  /\ \A other \in Held : other.index # id.index
  /\ id.index < nextIndex' /\ ~Free(id.index)'
  /\ \A j \in Index : j # id.index => (Free(j)' <=> Free(j)) /\ (j < nextIndex' <=> j < nextIndex)
  /\ nextIndex' \in nextIndex .. MaxResources
  /\ freeStack' \in Seq(Index) /\ FreeOnce'

(* NewSlot has this effect, whether the index is new or from the stack. *)
LEMMA NewSlotEffect ==
  ASSUME IInv, NEW t \in Thread, NewSlot(t)
  PROVE  \E id \in Id : Gets(t, id)
<1> USE MaxResourcesAssumption, LastVersionAssumption
<1>1. /\ TypeOK /\ OneHolder /\ Versioned
      /\ t \notin Busy /\ call[t] = Idle
  BY DEF IInv, NewSlot, Busy
<1>2. ASSUME NEW i \in Index, Give(t, i), NEW v \in 1 .. LastVersion, v = AtLeastOne(version[i])
      PROVE  LET id == [index |-> i, version |-> v] IN
               /\ id \in Id
               /\ call' = [call EXCEPT ![t] = [op |-> "taken", id |-> id]]
               /\ version' = [version EXCEPT ![i] = v]
  <2>1. version' = [version EXCEPT ![i] = v] /\ version'[i] = v
    BY <1>1, <1>2 DEF Give, TypeOK
  <2> QED
    BY <1>2, <2>1 DEF Give, Id
<1>3. ASSUME NEW id \in Id, call' = [call EXCEPT ![t] = [op |-> "taken", id |-> id]], live' = live
      PROVE  Busy' = Busy \cup {t} /\ Held' = Held \cup {id}
  <2>1. /\ \A u \in Thread : u # t => call'[u] = call[u]
        /\ call'[t].id = id /\ call'[t] # Idle
    BY <1>1, <1>3 DEF TypeOK, Idle
  <2> QED
    BY <1>1, <1>3, <2>1 DEF Busy, Held
<1>4. CASE freeStack = <<>>
  <2>1. /\ nextIndex \in Index /\ Give(t, nextIndex) /\ nextIndex' = nextIndex + 1
        /\ freeStack' = freeStack /\ live' = live /\ Len(freeStack) = 0
    BY <1>1, <1>4 DEF NewSlot, TypeOK, Index
  <2>2. PICK i \in Index : i = nextIndex /\ Give(t, i)
    BY <2>1
  <2>3. version[i] = 0 /\ AtLeastOne(0) = 1
    BY <1>1, <2>2, AtLeastOneOfZero DEF Versioned, Index
  <2>4. PICK id \in Id : /\ id = [index |-> i, version |-> 1]
                         /\ call' = [call EXCEPT ![t] = [op |-> "taken", id |-> id]]
                         /\ version' = [version EXCEPT ![i] = 1]
    <3>1. 1 \in 1 .. LastVersion /\ 1 = AtLeastOne(version[i])
      BY <2>3
    <3> QED
      BY <1>2, <2>2, <3>1
  <2>5. Busy' = Busy \cup {t} /\ Held' = Held \cup {id}
    BY <1>3, <2>1, <2>4
  <2>6. \A j : ~Free(j) /\ ~Free(j)'
    BY <2>1 DEF Free
  <2>7. \A other \in Held : other.index # i
    BY <1>1, <2>2 DEF OneHolder, HeldNotFree, TypeOK
  <2>8. Gets(t, id)
    BY <1>1, <2>1, <2>2, <2>3, <2>4, <2>5, <2>6, <2>7 DEF Gets, TypeOK, Index, FreeOnce
  <2> QED
    BY <2>8
<1>5. CASE freeStack # <<>>
  <2>1. PICK i \in Index : i = Last(freeStack)
    BY <1>1, <1>5, StackTop DEF TypeOK
  <2>2. /\ Front(freeStack) \in Seq(Index)
        /\ Len(freeStack) \in Nat \ {0} /\ Len(Front(freeStack)) = Len(freeStack) - 1
        /\ i = freeStack[Len(freeStack)]
        /\ \A k \in 1 .. Len(freeStack) - 1 : Front(freeStack)[k] = freeStack[k]
    BY <1>1, <1>5, <2>1, StackTop DEF TypeOK
  <2>3. /\ Give(t, i) /\ freeStack' = Front(freeStack)
        /\ nextIndex' = nextIndex /\ live' = live
    BY <1>5, <2>1 DEF NewSlot
  <2>4. Free(i) /\ i < nextIndex /\ version[i] \in 1 .. LastVersion
    BY <1>1, <2>2 DEF Free, Versioned, TypeOK
  <2>5. AtLeastOne(version[i]) = version[i]
    BY <2>4, AtLeastOneCuts
  <2>6. PICK id \in Id : /\ id = [index |-> i, version |-> version[i]]
                         /\ call' = [call EXCEPT ![t] = [op |-> "taken", id |-> id]]
                         /\ version' = [version EXCEPT ![i] = version[i]]
    BY <1>2, <2>3, <2>4, <2>5
  <2>7. Busy' = Busy \cup {t} /\ Held' = Held \cup {id}
    BY <1>3, <2>3, <2>6
  <2>8. \A j : Free(j)' <=> \E k \in 1 .. Len(freeStack) - 1 : freeStack[k] = j
    BY <2>2, <2>3 DEF Free
  <2>9. ~Free(i)' /\ FreeOnce'
    BY <1>1, <2>2, <2>3, <2>8 DEF FreeOnce, OneHolder
  <2>10. ASSUME NEW j, j # i PROVE Free(j)' <=> Free(j)
    <3>1. Free(j) <=> \E k \in 1 .. Len(freeStack) - 1 : freeStack[k] = j
      BY <2>2, <2>10 DEF Free
    <3> QED
      BY <2>8, <3>1
  <2>11. \A other \in Held : other.index # i
    BY <1>1, <2>4 DEF OneHolder, HeldNotFree
  <2>12. id.index = i /\ id.version = version[i]
    BY <2>6
  <2>13. ~Free(id.index)' /\ \A j \in Index : j # id.index => (Free(j)' <=> Free(j))
    BY <2>9, <2>10, <2>12
  <2>14. nextIndex' \in nextIndex .. MaxResources
    BY <1>1, <2>3 DEF TypeOK
  <2>15. Gets(t, id)
    BY <1>1, <2>2, <2>3, <2>4, <2>6, <2>7, <2>9, <2>11, <2>12, <2>13, <2>14 DEF Gets
  <2> QED
    BY <2>15
<1> QED
  BY <1>4, <1>5

(* A step that leaves the pool and the held ids as they are keeps what the *)
(* invariant says of these.                                                *)
LEMMA SameHolding ==
  ASSUME IInv, Held' = Held, UNCHANGED <<pool, retired>>
  PROVE  FreeOnce' /\ HeldNotFree' /\ OneIdAnIndex' /\ NoneLost' /\ HeldIdsAreValid' /\ Versioned' /\ Distance'
<1>1. FreeOnce' /\ \A i : Free(i)' <=> Free(i)
  BY DEF IInv, OneHolder, FreeOnce, Free, pool
<1>2. HeldNotFree' /\ OneIdAnIndex' /\ NoneLost'
  BY <1>1 DEF IInv, OneHolder, HeldNotFree, OneIdAnIndex, NoneLost, pool
<1>3. HeldIdsAreValid'
  BY DEF IInv, HeldIdsAreValid, IsIdValid, pool
<1>4. Versioned' /\ Distance'
  BY <1>1 DEF IInv, Versioned, Distance, pool
<1> QED
  BY <1>1, <1>2, <1>3, <1>4

(* The ids in anyone's hands are ids. *)
LEMMA HeldAreIds == TypeOK => Held \subseteq Id
<1> SUFFICES ASSUME TypeOK, NEW t \in Busy PROVE call[t].id \in Id
  BY DEF Held, TypeOK
<1> QED
  BY DEF TypeOK, Busy

(* NewSlot keeps the invariant. *)
LEMMA NewSlotIInv ==
  ASSUME IInv, NEW t \in Thread, NewSlot(t)
  PROVE  IInv'
<1>1. PICK id \in Id : Gets(t, id)
  BY NewSlotEffect
<1>2. UNCHANGED <<content, live, retired>>
  BY DEF NewSlot
<1>3. \A other \in Held : other.index # id.index
  BY <1>1 DEF Gets
<1>4. call'[t].id = id /\ call'[t].op = "taken" /\ \A u \in Thread : u # t => call'[u] = call[u]
  BY <1>1 DEF Gets, IInv, TypeOK
<1>5. TypeOK'
  BY <1>1, <1>2 DEF Gets, IInv, TypeOK, Creating, Id
<1>6. OneHolder'
  <2>1. FreeOnce' /\ HeldNotFree'
    <3>1. ASSUME NEW h \in Held PROVE h.index < nextIndex' /\ ~Free(h.index)'
      <4>1. h.index \in Index /\ h.index # id.index
        BY <1>3, HeldAreIds DEF IInv, Id
      <4>2. h.index < nextIndex /\ ~Free(h.index)
        BY DEF IInv, OneHolder, HeldNotFree
      <4>3. PICK j \in Index : j = h.index
        BY <4>1
      <4>4. (Free(j)' <=> Free(j)) /\ (j < nextIndex' <=> j < nextIndex)
        BY <1>1, <4>1, <4>3 DEF Gets
      <4> QED
        BY <4>2, <4>3, <4>4
    <3>2. Held' = Held \cup {id} /\ id.index < nextIndex' /\ ~Free(id.index)' /\ FreeOnce'
      BY <1>1 DEF Gets
    <3>3. ASSUME NEW h \in Held' PROVE h.index < nextIndex' /\ ~Free(h.index)'
      BY <3>1, <3>2
    <3> QED
      BY <3>2, <3>3 DEF HeldNotFree
  <2>2. OneIdAnIndex'
    BY <1>1, <1>3 DEF Gets, IInv, OneHolder, OneIdAnIndex
  <2>3. OneOwner'
    BY <1>1, <1>2, <1>3, <1>4 DEF Gets, IInv, OneHolder, OneOwner, Held, Busy
  <2>4. NoneLost'
    <3>1. PICK n \in 1 .. MaxResources : n = nextIndex'
      BY <1>1, MaxResourcesAssumption DEF Gets, IInv, TypeOK
    <3>2. ASSUME NEW i \in 1 .. n - 1
          PROVE  Free(i)' \/ \E h \in Held' : h.index = i
      <4>1. i \in Index /\ i < nextIndex'
        <5>1. i \in 1 .. MaxResources - 1 /\ i < n
          BY MaxResourcesAssumption
        <5> QED
          BY <3>1, <5>1 DEF Index
      <4>4. nextIndex \in 1 .. MaxResources
        BY DEF IInv, TypeOK
      <4>2. CASE i = id.index
        BY <1>1, <4>2 DEF Gets
      <4>3. CASE i # id.index
        <5>1. (Free(i)' <=> Free(i)) /\ i < nextIndex
          BY <1>1, <4>1, <4>3 DEF Gets
        <5>2. Free(i) \/ \E h \in Held : h.index = i
          BY <4>1, <4>4, <5>1 DEF IInv, OneHolder, NoneLost, Index
        <5>3. Held \subseteq Held'
          BY <1>1 DEF Gets
        <5> QED
          BY <5>1, <5>2, <5>3
      <4> QED
        BY <4>2, <4>3
    <3> QED
      BY <3>1, <3>2 DEF NoneLost
  <2> QED
    BY <2>1, <2>2, <2>3, <2>4 DEF OneHolder
<1>7. HeldIdsAreValid'
  BY <1>1, <1>3 DEF Gets, IInv, TypeOK, HeldIdsAreValid, IsIdValid, Id
<1>8. SlotHoldsItsResource'
  BY <1>2 DEF IInv, SlotHoldsItsResource
<1>9. Versioned'
  BY <1>1, <1>2 DEF Gets, IInv, TypeOK, Versioned, Id, Index
<1>10. Filled'
  BY <1>2, <1>4 DEF IInv, Filled
<1>11. Distance'
  <2>1. version[id.index] = 0 => retired[id.index] = <<>>
    BY DEF IInv, TypeOK, Versioned, Id, Index
  <2>2. ASSUME NEW i \in Index, retired[i] # <<>> PROVE version'[i] = version[i]
    BY <1>1, <2>1, <2>2 DEF Gets, IInv, TypeOK
  <2>3. ASSUME NEW i \in Index, NEW k \in 1 .. Len(retired[i]) PROVE retired[i] # <<>>
    BY <2>3
  <2> QED
    BY <1>2, <2>2, <2>3 DEF IInv, Distance
<1> QED
  BY <1>5, <1>6, <1>7, <1>8, <1>9, <1>10, <1>11 DEF IInv

(* A thread that goes on with its own call keeps its id.                    *)
LEMMA SameIds ==
  ASSUME IInv, NEW t \in Busy, NEW o \in Creating \cup Destroying,
         call' = [call EXCEPT ![t].op = o], live' = live
  PROVE  /\ call' \in [Thread -> [op : Creating \cup Destroying, id : Id] \cup {Idle}]
         /\ call'[t].op = o /\ call'[t].id = call[t].id
         /\ \A u \in Thread : u # t => call'[u] = call[u]
         /\ Busy' = Busy /\ Held' = Held /\ OneOwner'
<1>1. t \in Thread /\ call[t] \in [op : Creating \cup Destroying, id : Id]
  BY DEF IInv, TypeOK, Busy
<1>2. call'[t] = [call[t] EXCEPT !.op = o]
  BY <1>1 DEF IInv, TypeOK
<1>3. /\ call'[t] \in [op : Creating \cup Destroying, id : Id]
      /\ call'[t].op = o /\ call'[t].id = call[t].id
  BY <1>1, <1>2
<1>4. \A u \in Thread : u # t => call'[u] = call[u]
  BY <1>1 DEF IInv, TypeOK
<1>5. call' \in [Thread -> [op : Creating \cup Destroying, id : Id] \cup {Idle}]
  BY <1>1, <1>3, <1>4 DEF IInv, TypeOK
<1>6. call'[t] # Idle
  BY <1>3 DEF Idle, Creating, Destroying
<1>7. Busy' = Busy
  BY <1>1, <1>4, <1>6 DEF Busy
<1>8. \A u \in Busy : call'[u].id = call[u].id
  BY <1>3, <1>4 DEF Busy
<1>9. Held' = Held /\ OneOwner'
  BY <1>7, <1>8 DEF Held, OneOwner, IInv, OneHolder
<1> QED
  BY <1>3, <1>4, <1>5, <1>7, <1>9

(* Nobody else is at the index of a call, and no live id.                   *)
LEMMA OwnIndex ==
  ASSUME IInv, NEW t \in Busy
  PROVE  /\ call[t].id \in Held /\ call[t].id \in Id
         /\ \A u \in Busy : u # t => call[u].id.index # call[t].id.index
         /\ \A id \in live : id.index # call[t].id.index
<1>1. /\ call[t].id \in Held
      /\ \A u \in Busy : call[u].id \in Held
      /\ \A id \in live : id \in Held
  BY DEF Held
<1> QED
  BY <1>1, HeldAreIds DEF IInv, OneHolder, OneOwner, OneIdAnIndex

(* Fill keeps the invariant. *)
LEMMA FillIInv ==
  ASSUME IInv, NEW t \in Thread, Fill(t)
  PROVE  IInv'
<1>1. t \in Busy /\ "filled" \in Creating \cup Destroying
  BY DEF Fill, Busy, Idle, Creating
<1>2. /\ UNCHANGED <<pool, live, retired>>
      /\ call' = [call EXCEPT ![t].op = "filled"]
      /\ content' = [content EXCEPT ![call[t].id.index] = call[t].id]
  BY DEF Fill
<1>3. /\ call' \in [Thread -> [op : Creating \cup Destroying, id : Id] \cup {Idle}]
      /\ call'[t].id = call[t].id
      /\ \A u \in Thread : u # t => call'[u] = call[u]
      /\ Busy' = Busy /\ Held' = Held /\ OneOwner'
  BY <1>1, <1>2, SameIds
<1>4. FreeOnce' /\ HeldNotFree' /\ OneIdAnIndex' /\ NoneLost' /\ HeldIdsAreValid' /\ Versioned' /\ Distance'
  BY <1>2, <1>3, SameHolding
<1>5. call[t].id \in Id /\ call[t].id.index \in Index
  BY <1>1, OwnIndex DEF Id
<1>6. TypeOK'
  BY <1>2, <1>3, <1>5 DEF IInv, TypeOK, pool
<1>7. SlotHoldsItsResource'
  <2>1. ASSUME NEW id \in live PROVE content'[id.index] = content[id.index]
    BY <1>1, <1>2, <1>5, OwnIndex DEF IInv, TypeOK
  <2> QED
    BY <1>2, <2>1 DEF IInv, SlotHoldsItsResource
<1>8. Filled'
  <2>1. ASSUME NEW u \in Thread, call'[u].op = "filled" PROVE content'[call'[u].id.index] = call'[u].id
    <3>1. CASE u = t
      BY <1>2, <1>3, <1>5, <3>1 DEF IInv, TypeOK
    <3>2. CASE u # t
      <4>1. call'[u] = call[u] /\ u \in Busy
        BY <1>3, <2>1, <3>2 DEF Busy, Idle
      <4> QED
        BY <1>1, <1>2, <2>1, <3>2, <4>1, OwnIndex DEF IInv, TypeOK, Filled
    <3> QED
      BY <3>1, <3>2
  <2> QED
    BY <2>1 DEF Filled
<1> QED
  BY <1>3, <1>4, <1>6, <1>7, <1>8 DEF IInv, OneHolder

(* EmptySlot keeps the invariant. *)
LEMMA EmptySlotIInv ==
  ASSUME IInv, NEW t \in Thread, EmptySlot(t)
  PROVE  IInv'
<1>1. t \in Busy /\ "emptied" \in Creating \cup Destroying
  BY DEF EmptySlot, Busy, Idle, Destroying
<1>2. /\ UNCHANGED <<pool, live, retired>>
      /\ call' = [call EXCEPT ![t].op = "emptied"]
      /\ content' = [content EXCEPT ![call[t].id.index] = Empty]
  BY DEF EmptySlot
<1>3. /\ call' \in [Thread -> [op : Creating \cup Destroying, id : Id] \cup {Idle}]
      /\ call'[t].op = "emptied"
      /\ \A u \in Thread : u # t => call'[u] = call[u]
      /\ Busy' = Busy /\ Held' = Held /\ OneOwner'
  BY <1>1, <1>2, SameIds
<1>4. FreeOnce' /\ HeldNotFree' /\ OneIdAnIndex' /\ NoneLost' /\ HeldIdsAreValid' /\ Versioned' /\ Distance'
  BY <1>2, <1>3, SameHolding
<1>5. TypeOK'
  BY <1>2, <1>3 DEF IInv, TypeOK, pool
<1>6. SlotHoldsItsResource'
  <2>1. ASSUME NEW id \in live PROVE content'[id.index] = content[id.index]
    BY <1>1, <1>2, OwnIndex DEF IInv, TypeOK
  <2> QED
    BY <1>2, <2>1 DEF IInv, SlotHoldsItsResource
<1>7. Filled'
  <2>1. ASSUME NEW u \in Thread, call'[u].op = "filled" PROVE content'[call'[u].id.index] = call'[u].id
    <3>1. u # t /\ call'[u] = call[u] /\ u \in Busy
      BY <1>3, <2>1 DEF Busy, Idle
    <3> QED
      BY <1>1, <1>2, <2>1, <3>1, OwnIndex DEF IInv, TypeOK, Filled
  <2> QED
    BY <2>1 DEF Filled
<1> QED
  BY <1>3, <1>4, <1>5, <1>6, <1>7 DEF IInv, OneHolder

(* A creation that ends, or a destruction that starts, moves an id between *)
(* the application and a thread.                                           *)
LEMMA CreatedHolding ==
  ASSUME IInv, NEW t \in Thread, Created(t)
  PROVE  Held' = Held /\ Busy' = Busy \ {t} /\ call'[t] = Idle
<1>1. t \in Busy /\ live' = live \cup {call[t].id} /\ call' = [call EXCEPT ![t] = Idle]
  BY DEF Created, Busy, Idle
<1>2. call'[t] = Idle /\ \A u \in Thread : u # t => call'[u] = call[u]
  BY <1>1 DEF IInv, TypeOK
<1>3. Busy' = Busy \ {t}
  BY <1>2 DEF Busy
<1> QED
  BY <1>1, <1>2, <1>3 DEF Held, Busy

(* Created keeps the invariant. *)
LEMMA CreatedIInv ==
  ASSUME IInv, NEW t \in Thread, Created(t)
  PROVE  IInv'
<1>1. t \in Busy /\ call[t].op = "filled"
  BY DEF Created, Busy, Idle
<1>2. /\ UNCHANGED <<pool, content, retired>>
      /\ call' = [call EXCEPT ![t] = Idle] /\ live' = live \cup {call[t].id}
  BY DEF Created
<1>3. call'[t] = Idle /\ \A u \in Thread : u # t => call'[u] = call[u]
  BY <1>2 DEF IInv, TypeOK
<1>4. Busy' = Busy \ {t}
  BY CreatedHolding
<1>5. Held' = Held
  BY CreatedHolding
<1>6. FreeOnce' /\ HeldNotFree' /\ OneIdAnIndex' /\ NoneLost' /\ HeldIdsAreValid' /\ Versioned' /\ Distance'
  BY <1>2, <1>5, SameHolding
<1>7. TypeOK'
  BY <1>1, <1>2, OwnIndex DEF IInv, TypeOK, pool
<1>8. OneOwner'
  BY <1>1, <1>2, <1>3, <1>4, OwnIndex DEF IInv, OneHolder, OneOwner, Busy
<1>9. SlotHoldsItsResource'
  BY <1>1, <1>2 DEF IInv, SlotHoldsItsResource, Filled
<1>10. Filled'
  BY <1>2, <1>3 DEF IInv, Filled, Idle
<1> QED
  BY <1>6, <1>7, <1>8, <1>9, <1>10 DEF IInv, OneHolder

(* The id a destruction starts with was live. *)
LEMMA DestroyHolding ==
  ASSUME IInv, NEW t \in Thread, Destroy(t)
  PROVE  Held' = Held /\ Busy' = Busy \cup {t}
<1>1. PICK id \in live : /\ live' = live \ {id}
                         /\ call' = [call EXCEPT ![t] = [op |-> "found", id |-> id]]
  BY DEF Destroy
<1>2. /\ call'[t].id = id /\ call'[t] # Idle /\ t \notin Busy
      /\ \A u \in Thread : u # t => call'[u] = call[u]
  BY <1>1 DEF IInv, TypeOK, Idle, Destroy, Busy
<1>3. Busy' = Busy \cup {t}
  BY <1>2 DEF Busy
<1> QED
  BY <1>1, <1>2, <1>3 DEF Held, Busy

(* Destroy keeps the invariant. *)
LEMMA DestroyIInv ==
  ASSUME IInv, NEW t \in Thread, Destroy(t)
  PROVE  IInv'
<1>1. PICK id \in live : /\ live' = live \ {id}
                         /\ call' = [call EXCEPT ![t] = [op |-> "found", id |-> id]]
  BY DEF Destroy
<1>2. UNCHANGED <<pool, content, retired>> /\ call[t] = Idle /\ t \notin Busy /\ id \in Id
  BY DEF Destroy, Busy, IInv, TypeOK
<1>3. /\ call'[t] = [op |-> "found", id |-> id] /\ call'[t].id = id
      /\ call'[t] # Idle /\ \A u \in Thread : u # t => call'[u] = call[u]
  BY <1>1 DEF IInv, TypeOK, Idle
<1>4. Busy' = Busy \cup {t}
  BY DestroyHolding
<1>5. Held' = Held
  BY DestroyHolding
<1>6. FreeOnce' /\ HeldNotFree' /\ OneIdAnIndex' /\ NoneLost' /\ HeldIdsAreValid' /\ Versioned' /\ Distance'
  BY <1>2, <1>5, SameHolding
<1>7. TypeOK'
  BY <1>1, <1>2 DEF IInv, TypeOK, pool, Destroying
<1>8. OneOwner'
  BY <1>1, <1>2, <1>3, <1>4 DEF IInv, OneHolder, OneOwner, Busy
<1>9. SlotHoldsItsResource'
  BY <1>1, <1>2 DEF IInv, SlotHoldsItsResource
<1>10. Filled'
  BY <1>2, <1>3 DEF IInv, Filled
<1> QED
  BY <1>6, <1>7, <1>8, <1>9, <1>10 DEF IInv, OneHolder

(* ReturnSlot gives up the id of the call. *)
LEMMA ReturnSlotHolding ==
  ASSUME IInv, NEW t \in Thread, ReturnSlot(t)
  PROVE  t \in Busy /\ Busy' = Busy \ {t} /\ Held' = Held \ {call[t].id}
<1>1. t \in Busy /\ live' = live /\ call' = [call EXCEPT ![t] = Idle]
  BY DEF ReturnSlot, Busy, Idle
<1>2. call'[t] = Idle /\ \A u \in Thread : u # t => call'[u] = call[u]
  BY <1>1 DEF IInv, TypeOK
<1>3. Busy' = Busy \ {t}
  BY <1>2 DEF Busy
<1>4. call[t].id \notin live /\ \A u \in Busy : u # t => call[u].id # call[t].id
  BY <1>1, OwnIndex
<1> QED
  BY <1>1, <1>2, <1>3, <1>4 DEF Held, Busy

(* ReturnSlot keeps the invariant. *)
LEMMA ReturnSlotIInv ==
  ASSUME IInv, NEW t \in Thread, ReturnSlot(t)
  PROVE  IInv'
<1> USE MaxResourcesAssumption, LastVersionAssumption
<1>1. t \in Busy /\ TypeOK
  BY DEF ReturnSlot, Busy, Idle, IInv
<1>2. PICK id \in Id : id = call[t].id
  BY <1>1, OwnIndex
<1>3. PICK i \in Index : i = id.index
  BY DEF Id
<1>4. PICK v \in 1 .. LastVersion : v = id.version
  BY DEF Id
<1>5. id \in Held /\ version[i] = v /\ ~Free(i) /\ i < nextIndex
  BY <1>1, <1>2, <1>3, <1>4, OwnIndex
  DEF IInv, OneHolder, HeldNotFree, HeldIdsAreValid, IsIdValid
<1>6. PICK w \in 1 .. LastVersion : w = IF v = LastVersion THEN 1 ELSE v + 1
  OBVIOUS
<1>7. /\ version' = [version EXCEPT ![i] = w]
      /\ freeStack' = Append(freeStack, i)
      /\ retired' = [retired EXCEPT ![i] = Append(@, v)]
      /\ call' = [call EXCEPT ![t] = Idle]
      /\ UNCHANGED <<nextIndex, content, live>>
  <2>1. AtLeastOne(version[i] + 1) = w
    BY <1>5, <1>6, AtLeastOneCuts
  <2> QED
    BY <1>1, <1>2, <1>3, <1>4, <2>1 DEF ReturnSlot, TypeOK
<1>8. call'[t] = Idle /\ \A u \in Thread : u # t => call'[u] = call[u]
  BY <1>1, <1>7 DEF TypeOK
<1>9. Busy' = Busy \ {t}
  BY ReturnSlotHolding
<1>10. Held' = Held \ {id}
  BY <1>2, ReturnSlotHolding
<1>11. \A h \in Held : h # id => h.index # i
  BY <1>3, <1>5 DEF IInv, OneHolder, OneIdAnIndex
<1>12. /\ Len(freeStack') = Len(freeStack) + 1 /\ Len(freeStack) \in Nat
       /\ freeStack'[Len(freeStack) + 1] = i
       /\ \A k \in 1 .. Len(freeStack) : freeStack'[k] = freeStack[k]
       /\ freeStack' \in Seq(Index)
  BY <1>1, <1>7, AppendProperties DEF TypeOK
<1>13. \A j : Free(j)' <=> Free(j) \/ j = i
  BY <1>12 DEF Free
<1>14. TypeOK'
  BY <1>1, <1>7, <1>12 DEF TypeOK
<1>15. OneHolder'
  <2>1. FreeOnce'
    BY <1>5, <1>12 DEF IInv, OneHolder, FreeOnce, Free
  <2>2. HeldNotFree'
    BY <1>7, <1>10, <1>11, <1>13 DEF IInv, OneHolder, HeldNotFree
  <2>3. OneIdAnIndex'
    BY <1>10 DEF IInv, OneHolder, OneIdAnIndex
  <2>4. OneOwner'
    BY <1>7, <1>8, <1>9 DEF IInv, OneHolder, OneOwner, Busy
  <2>5. NoneLost'
    BY <1>3, <1>7, <1>10, <1>13 DEF IInv, OneHolder, NoneLost
  <2> QED
    BY <2>1, <2>2, <2>3, <2>4, <2>5 DEF OneHolder
<1>16. HeldIdsAreValid'
  <2>1. ASSUME NEW h \in Held, h # id PROVE version'[h.index] = version[h.index]
    BY <1>1, <1>7, <1>11, <2>1 DEF TypeOK
  <2> QED
    BY <1>10, <2>1 DEF IInv, HeldIdsAreValid, IsIdValid
<1>17. SlotHoldsItsResource'
  BY <1>7 DEF IInv, SlotHoldsItsResource
<1>18. Versioned'
  BY <1>1, <1>5, <1>7, <1>13 DEF IInv, Versioned, TypeOK
<1>19. Filled'
  BY <1>7, <1>8 DEF IInv, Filled, Idle
<1>20. Distance'
  <2>1. ASSUME NEW j \in Index, NEW k \in 1 .. Len(retired'[j]),
               Len(retired'[j]) - k + 1 < LastVersion
        PROVE  \/ version'[j] = retired'[j][k] + (Len(retired'[j]) - k + 1)
               \/ version'[j] = retired'[j][k] + (Len(retired'[j]) - k + 1) - LastVersion
    <3>1. CASE j # i
      <4>1. retired'[j] = retired[j] /\ version'[j] = version[j]
        BY <1>1, <1>7, <3>1 DEF TypeOK
      <4> QED
        BY <2>1, <4>1 DEF IInv, Distance
    <3>2. CASE j = i
      <4>1. PICK r \in Seq(1 .. LastVersion) : r = retired[i]
        BY <1>1 DEF TypeOK
      <4>2. retired'[i] = Append(r, v) /\ version'[i] = w
        BY <1>1, <1>7, <4>1 DEF TypeOK
      <4>3. PICK n \in Nat : n = Len(r)
        BY <4>1, LenProperties
      <4>4. Len(Append(r, v)) = n + 1 /\ Append(r, v)[n + 1] = v
        BY <4>1, <4>3, AppendProperties
      <4>5. k \in 1 .. n + 1
        BY <3>2, <4>2, <4>4
      <4>6. CASE k = n + 1
        BY <1>6, <3>2, <4>2, <4>4, <4>6
      <4>7. CASE k # n + 1
        <5>1. k \in 1 .. n
          BY <4>5, <4>7
        <5>2. PICK q \in 1 .. LastVersion : q = r[k]
          BY <4>1, <4>3, <5>1, ElementOfSeq
        <5>3. Append(r, v)[k] = q
          BY <4>1, <4>3, <5>1, <5>2, AppendProperties
        <5>4. (n + 1) - k + 1 < LastVersion
          BY <2>1, <3>2, <4>2, <4>4
        <5>5. v = q + (n - k + 1) \/ v = q + (n - k + 1) - LastVersion
          <6>1. n - k + 1 < LastVersion
            BY <5>1, <5>4
          <6> QED
            BY <1>5, <4>1, <4>3, <5>1, <5>2, <6>1 DEF IInv, Distance
        <5>6. w = q + ((n + 1) - k + 1) \/ w = q + ((n + 1) - k + 1) - LastVersion
          BY <1>6, <5>1, <5>4, <5>5
        <5> QED
          BY <3>2, <4>2, <4>4, <5>3, <5>6
      <4> QED
        BY <4>6, <4>7
    <3> QED
      BY <3>1, <3>2
  <2> QED
    BY <2>1 DEF Distance
<1> QED
  BY <1>14, <1>15, <1>16, <1>17, <1>18, <1>19, <1>20 DEF IInv

-----------------------------------------------------------------------------

(* Every step keeps the invariant. *)
LEMMA NextIInv == IInv /\ [Next]_vars => IInv'
<1> SUFFICES ASSUME IInv, [Next]_vars PROVE IInv'
  OBVIOUS
<1>1. CASE UNCHANGED vars
  <2>1. Held' = Held /\ UNCHANGED <<pool, retired, content, call, live>>
    BY <1>1 DEF vars, pool, Held, Busy
  <2>2. FreeOnce' /\ HeldNotFree' /\ OneIdAnIndex' /\ NoneLost' /\ HeldIdsAreValid' /\ Versioned' /\ Distance'
    BY <2>1, SameHolding
  <2> QED
    BY <2>1, <2>2
    DEF IInv, TypeOK, OneHolder, OneOwner, SlotHoldsItsResource, Filled, pool, Busy
<1>2. CASE \E t \in Thread : NewSlot(t)
  BY <1>2, NewSlotIInv
<1>3. CASE \E t \in Thread : Fill(t)
  BY <1>3, FillIInv
<1>4. CASE \E t \in Thread : Created(t)
  BY <1>4, CreatedIInv
<1>5. CASE \E t \in Thread : Destroy(t)
  BY <1>5, DestroyIInv
<1>6. CASE \E t \in Thread : EmptySlot(t)
  BY <1>6, EmptySlotIInv
<1>7. CASE \E t \in Thread : ReturnSlot(t)
  BY <1>7, ReturnSlotIInv
<1> QED
  BY <1>1, <1>2, <1>3, <1>4, <1>5, <1>6, <1>7 DEF Next, Terminated

(* The invariant holds in every reachable state.                           *)
THEOREM PoolInvariant == Spec => []IInv
<1> QED
  BY InitIInv, NextIInv, PTL DEF Spec

(* The pool's variables keep their types, and its versions fit eight bits. *)
THEOREM PoolTypeOK == Spec => []TypeOK
<1>1. IInv => TypeOK
  BY DEF IInv
<1> QED
  BY <1>1, PoolInvariant, PTL

(* NewSlot and ReturnSlot: an index is on the free stack once, or in one   *)
(* thread's hands, or the application's; none is lost or in two of these.  *)
THEOREM PoolOneHolder == Spec => []OneHolder
<1>1. IInv => OneHolder
  BY DEF IInv
<1> QED
  BY <1>1, PoolInvariant, PTL

(* IsIdValid: the asserts against use after free and double delete do not  *)
(* fire for an id that is held.                                            *)
THEOREM PoolHeldIdsAreValid == Spec => []HeldIdsAreValid
<1>1. IInv => HeldIdsAreValid
  BY DEF IInv
<1> QED
  BY <1>1, PoolInvariant, PTL

(* Create* and Destroy*: a live id leads to its own resource's slot.       *)
THEOREM PoolSlotHoldsItsResource == Spec => []SlotHoldsItsResource
<1>1. IInv => SlotHoldsItsResource
  BY DEF IInv
<1> QED
  BY <1>1, PoolInvariant, PTL

(* ReturnSlot: an id given back is not valid again before its index was    *)
(* given back as often as there are versions.                              *)
THEOREM PoolStaleForAWhile == Spec => []StaleForAWhile
<1>1. IInv => StaleForAWhile
  <2> SUFFICES ASSUME IInv, NEW i \in Index, NEW k \in 1 .. Len(retired[i]),
                      Len(retired[i]) - k + 1 < LastVersion
               PROVE  version[i] # retired[i][k]
    BY DEF StaleForAWhile, IsIdValid
  <2>1. PICK n \in Nat : n = Len(retired[i])
    BY LenProperties DEF IInv, TypeOK
  <2>2. PICK q \in 1 .. LastVersion : q = retired[i][k]
    BY <2>1, ElementOfSeq DEF IInv, TypeOK
  <2>3. version[i] = q + (n - k + 1) \/ version[i] = q + (n - k + 1) - LastVersion
    BY <2>1, <2>2 DEF IInv, Distance
  <2> QED
    BY <2>1, <2>2, <2>3, LastVersionAssumption
<1> QED
  BY <1>1, PoolInvariant, PTL

(* The pool implements a table of handles: NewSlot acquires an id at an    *)
(* index where none is held, ReturnSlot releases it, nothing else matters. *)
THEOREM PoolIsAHandleTable == Spec => TableSpec
<1>1. Init => Table!Init
  BY DEF Init, Table!Init, Held, Busy
<1>2. IInv /\ [Next]_vars => [Table!Next]_Held
  <2> DEFINE Moves == \E id \in Id : Table!Acquire(id) \/ Table!Release(id)
  <2> SUFFICES ASSUME IInv, [Next]_vars PROVE Moves \/ Held' = Held
    BY DEF Table!Next
  <2>1. CASE UNCHANGED vars
    BY <2>1 DEF vars, Held, Busy
  <2>2. ASSUME NEW t \in Thread, NewSlot(t) PROVE Moves
    <3>1. PICK id \in Id : Gets(t, id)
      BY <2>2, NewSlotEffect
    <3>2. Table!Acquire(id)
      BY <3>1 DEF Gets, Table!Acquire
    <3> QED
      BY <3>2
  <2>3. ASSUME NEW t \in Thread, Fill(t) \/ EmptySlot(t) PROVE Held' = Held
    <3>1. PICK o \in Creating \cup Destroying : call' = [call EXCEPT ![t].op = o]
      BY <2>3 DEF Fill, EmptySlot, Creating, Destroying
    <3>2. t \in Busy /\ live' = live
      BY <2>3 DEF Fill, EmptySlot, Busy, Idle
    <3> QED
      BY <3>1, <3>2, SameIds
  <2>4. ASSUME NEW t \in Thread, Created(t) PROVE Held' = Held
    BY <2>4, CreatedHolding
  <2>5. ASSUME NEW t \in Thread, Destroy(t) PROVE Held' = Held
    BY <2>5, DestroyHolding
  <2>6. ASSUME NEW t \in Thread, ReturnSlot(t) PROVE Moves
    <3>1. call[t].id \in Held /\ Held' = Held \ {call[t].id} /\ call[t].id \in Id
      BY <2>6, ReturnSlotHolding, OwnIndex
    <3>2. PICK id \in Id : id = call[t].id
      BY <3>1
    <3>3. Table!Release(id)
      BY <3>1, <3>2 DEF Table!Release
    <3> QED
      BY <3>3
  <2> QED
    BY <2>1, <2>2, <2>3, <2>4, <2>5, <2>6 DEF Next, Terminated
<1> QED
  BY <1>1, <1>2, PoolInvariant, PTL DEF Spec, TableSpec, Table!Spec

=============================================================================

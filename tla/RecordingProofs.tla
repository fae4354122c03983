--------------------------- MODULE RecordingProofs ---------------------------
(***************************************************************************)
(* Theorems about what command lists record and about the slots of the     *)
(* views they record with: D3DBindings, D3DInputs, D3DPasses,              *)
(* VulkanRecording and D3DSlots, for any images, pipelines, slots, layouts *)
(* and number of subresources, and whether or not the creating thread is   *)
(* also the one that collects garbage.                                     *)
(***************************************************************************)
EXTENDS MCRecording, SequenceLemmas, FiniteSetsExt

-----------------------------------------------------------------------------
(* D3DSlots *)

IdType == [index : Nat \ {0}, version : Nat]
Making == {"acquire", "grow", "pop"}

Shapes ==
  /\ tombstones \in Seq(IdType)
  /\ counter \in Nat \ {0}
  /\ heap \in [1 .. counter - 1 -> User \X (1 .. BlitViews)]
  /\ slots \in [User -> Seq(IdType)]
  /\ call \in [Caller -> {Idle} \cup [op : Making \cup {"release"}, on : User]]
  /\ live \subseteq User
  /\ condemned \in Seq(User)
  /\ peak \in Nat
  /\ releases \in 0 .. MaxReleases

(* A version counts returns. *)
Versions ==
  /\ \A i \in 1 .. Len(tombstones) : tombstones[i].version <= releases
  /\ \A u \in User : \A k \in 1 .. Len(slots[u]) : slots[u][k].version <= releases

(* NoSlotLostOrShared, place by place. *)
Placed ==
  /\ Len(tombstones) >= 1 /\ tombstones[1] = Sentinel
  /\ \A i \in 2 .. Len(tombstones) : tombstones[i].index < counter
  /\ \A u \in User : \A k \in 1 .. Len(slots[u]) : slots[u][k].index < counter
  /\ \A i, j \in 2 .. Len(tombstones) : tombstones[i].index = tombstones[j].index => i = j
  /\ \A u \in User : \A k \in 1 .. Len(slots[u]) : \A i \in 2 .. Len(tombstones) :
       slots[u][k].index # tombstones[i].index
  /\ \A u, v \in User : \A j \in 1 .. Len(slots[u]), k \in 1 .. Len(slots[v]) :
       slots[u][j].index = slots[v][k].index => u = v /\ j = k
  /\ \A s \in 1 .. counter - 1 :
       \/ \E i \in 2 .. Len(tombstones) : tombstones[i].index = s
       \/ \E u \in User : \E k \in 1 .. Len(slots[u]) : slots[u][k].index = s

(* Who is in whose hands: a user is being made, held by the application,   *)
(* condemned or being destroyed, and has slots accordingly.                *)
Hands ==
  /\ \A u \in User : Len(slots[u]) <= Parts(u)
  /\ \A u \in live : Len(slots[u]) = Parts(u)
  /\ \A i \in 1 .. Len(condemned) : condemned[i] \notin live /\ Len(slots[condemned[i]]) = Parts(condemned[i])
  /\ \A i, j \in 1 .. Len(condemned) : condemned[i] = condemned[j] => i = j
  /\ \A t \in Caller : call[t] # Idle =>
       /\ call[t].on \notin live
       /\ \A i \in 1 .. Len(condemned) : condemned[i] # call[t].on
       /\ \A s \in Caller : call[s] # Idle /\ call[s].on = call[t].on => s = t
  /\ \A t \in Caller : call[t].op \in Making => t = Creator /\ Len(slots[call[t].on]) < Parts(call[t].on)
  /\ \A t \in Caller : call[t].op = "release" => slots[call[t].on] # <<>>

(* Only the creator takes from the stack: what it found there stays.       *)
Answers ==
  /\ call[Creator].op = "pop" => Len(tombstones) >= 2
  /\ call[Creator].op = "grow" => counter - 1 <= peak

(* The slots in use are no more than the peak, which is no more than there *)
(* are parts of users.                                                     *)
Capacity == Cardinality(BlitImage) * BlitViews + Cardinality(RenderTarget)
Bounds ==
  /\ IsFiniteSet(Held) /\ Cardinality(Held) <= peak
  /\ peak <= Capacity
  /\ GrowsForThePeak

(* The views of live users and of those being made. *)
ViewsOf ==
  \A u \in User : u \in live \/ (call[Creator].op \in Making /\ call[Creator].on = u) =>
    \A k \in 1 .. Len(slots[u]) : heap[slots[u][k].index] = <<u, k>>

(* The inductive invariant. *)
IInv == Shapes /\ Versions /\ Placed /\ Hands /\ Answers /\ Bounds /\ ViewsOf

-----------------------------------------------------------------------------
(* The slots of the users. *)

(* What the callers are about. *)
LEMMA Callers ==
  ASSUME Shapes
  PROVE  /\ Creator \in Caller /\ Collector \in Caller
         /\ \A t \in Caller : call[t] = Idle <=> call[t].op = "idle"
         /\ \A t \in Caller : call[t] # Idle =>
              call[t] \in [op : Making \cup {"release"}, on : User] /\ call[t].on \in User
BY DEF Shapes, Caller, Idle, Making

(* The parts of a user are counted, and there is one at least. *)
LEMMA PartsType ==
  ASSUME NEW u
  PROVE  Parts(u) \in Nat \ {0} /\ Parts(u) <= BlitViews
BY SizesAssumption DEF Parts

(* A user with one slot more. *)
LEMMA Gained ==
  ASSUME slots \in [User -> Seq(IdType)], NEW u \in User, NEW id \in IdType,
         slots' = [slots EXCEPT ![u] = Append(@, id)]
  PROVE  /\ slots' \in [User -> Seq(IdType)]
         /\ \A v \in User : Len(slots[v]) \in Nat
         /\ \A v \in User : Len(slots'[v]) = IF v = u THEN Len(slots[v]) + 1 ELSE Len(slots[v])
         /\ \A v \in User : \A k \in 1 .. Len(slots'[v]) :
              \/ k \in 1 .. Len(slots[v]) /\ slots'[v][k] = slots[v][k]
              \/ v = u /\ k = Len(slots[u]) + 1 /\ slots'[v][k] = id
         /\ \A v \in User : \A k \in 1 .. Len(slots[v]) :
              k \in 1 .. Len(slots'[v]) /\ slots'[v][k] = slots[v][k]
         /\ Len(slots[u]) + 1 \in 1 .. Len(slots'[u]) /\ slots'[u][Len(slots[u]) + 1] = id
<1>1. /\ Append(slots[u], id) \in Seq(IdType)
      /\ slots'[u] = Append(slots[u], id)
      /\ \A v \in User : v # u => slots'[v] = slots[v]
  BY AppendElements
<1>2. slots' \in [User -> Seq(IdType)] /\ \A v \in User : Len(slots[v]) \in Nat
  BY <1>1, LenProperties
<1>3. /\ Len(slots'[u]) = Len(slots[u]) + 1
      /\ \A k \in 1 .. Len(slots[u]) : slots'[u][k] = slots[u][k]
      /\ slots'[u][Len(slots[u]) + 1] = id
  BY <1>1, <1>2, AppendProperties
<1> QED
  BY <1>1, <1>2, <1>3

(* A user without its first slot. *)
LEMMA Lost ==
  ASSUME slots \in [User -> Seq(IdType)], NEW u \in User, slots[u] # <<>>,
         slots' = [slots EXCEPT ![u] = Tail(@)]
  PROVE  /\ slots' \in [User -> Seq(IdType)]
         /\ \A v \in User : Len(slots[v]) \in Nat
         /\ Head(slots[u]) = slots[u][1] /\ Head(slots[u]) \in IdType /\ 1 \in 1 .. Len(slots[u])
         /\ \A v \in User : Len(slots'[v]) = IF v = u THEN Len(slots[v]) - 1 ELSE Len(slots[v])
         /\ \A v \in User : \A k \in 1 .. Len(slots'[v]) :
              \/ v # u /\ k \in 1 .. Len(slots[v]) /\ slots'[v][k] = slots[v][k]
              \/ v = u /\ k + 1 \in 1 .. Len(slots[u]) /\ slots'[v][k] = slots[u][k + 1]
         /\ \A v \in User : v # u => slots'[v] = slots[v]
         /\ \A k \in 1 .. Len(slots[u]) : k # 1 =>
              k - 1 \in 1 .. Len(slots'[u]) /\ slots'[u][k - 1] = slots[u][k]
<1>1. /\ slots'[u] = Tail(slots[u]) /\ slots[u] \in Seq(IdType)
      /\ \A v \in User : v # u => slots'[v] = slots[v]
  OBVIOUS
<1>2. /\ Tail(slots[u]) \in Seq(IdType) /\ Len(Tail(slots[u])) = Len(slots[u]) - 1
      /\ Len(slots[u]) \in Nat \ {0}
      /\ Head(slots[u]) = slots[u][1] /\ 1 \in 1 .. Len(slots[u])
      /\ \A i \in 1 .. Len(Tail(slots[u])) : i + 1 \in 1 .. Len(slots[u]) /\ Tail(slots[u])[i] = slots[u][i + 1]
      /\ \A i \in 1 .. Len(slots[u]) : i # 1 =>
           i - 1 \in 1 .. Len(Tail(slots[u])) /\ Tail(slots[u])[i - 1] = slots[u][i]
  BY <1>1, TailElements
<1>3. slots' \in [User -> Seq(IdType)] /\ \A v \in User : Len(slots[v]) \in Nat
  BY <1>1, <1>2, LenProperties
<1>4. slots[u][1] \in IdType
  BY <1>1, <1>2, ElementOfSeq
<1>5. \A v \in User : Len(slots'[v]) = IF v = u THEN Len(slots[v]) - 1 ELSE Len(slots[v])
  BY <1>1, <1>2
<1>6. ASSUME NEW v \in User, NEW k \in 1 .. Len(slots'[v])
      PROVE  \/ v # u /\ k \in 1 .. Len(slots[v]) /\ slots'[v][k] = slots[v][k]
             \/ v = u /\ k + 1 \in 1 .. Len(slots[u]) /\ slots'[v][k] = slots[u][k + 1]
  <2>1. CASE v = u
    BY <1>1, <1>2, <1>6, <2>1
  <2>2. CASE v # u
    BY <1>1, <1>6, <2>2
  <2> QED
    BY <2>1, <2>2
<1> QED
  BY <1>1, <1>2, <1>3, <1>4, <1>5, <1>6

(* An index is in use when some user has a slot at it. *)
LEMMA UsedIndex ==
  ASSUME NEW h, h \in [User -> Seq(IdType)]
  PROVE  /\ \A s : s \in InUse(h) <=> \E u \in User : \E k \in 1 .. Len(h[u]) : h[u][k].index = s
         /\ \A u \in User : \A k \in 1 .. Len(h[u]) : h[u][k] \in IdType /\ h[u][k].index \in Nat \ {0}
<1>1. \A u \in User : DOMAIN h[u] = 1 .. Len(h[u]) /\ \A k \in 1 .. Len(h[u]) : h[u][k] \in IdType
  BY LenProperties, ElementOfSeq
<1>2. \A u \in User : \A s : s \in {id.index : id \in Range(h[u])} <=> \E k \in 1 .. Len(h[u]) : h[u][k].index = s
  BY <1>1 DEF Range
<1> QED
  BY <1>1, <1>2 DEF InUse, IdType

-----------------------------------------------------------------------------
(* No slot is lost or shared. *)

(* A user is given a slot at the end of the heap. *)
LEMMA GrowPlaced ==
  ASSUME Shapes, Placed, NEW u \in User, NEW id \in IdType, id.index = counter,
         slots' = [slots EXCEPT ![u] = Append(@, id)], counter' = counter + 1,
         tombstones' = tombstones
  PROVE  Placed'
<1>1. counter \in Nat \ {0} /\ slots \in [User -> Seq(IdType)] /\ tombstones \in Seq(IdType)
  BY DEF Shapes
<1>2. /\ \A v \in User : Len(slots[v]) \in Nat
      /\ \A v \in User : \A k \in 1 .. Len(slots'[v]) :
              \/ k \in 1 .. Len(slots[v]) /\ slots'[v][k] = slots[v][k]
              \/ v = u /\ k = Len(slots[u]) + 1 /\ slots'[v][k] = id
      /\ \A v \in User : \A k \in 1 .. Len(slots[v]) :
              k \in 1 .. Len(slots'[v]) /\ slots'[v][k] = slots[v][k]
      /\ Len(slots[u]) + 1 \in 1 .. Len(slots'[u]) /\ slots'[u][Len(slots[u]) + 1] = id
  BY <1>1, Gained
<1>3. /\ \A v \in User : \A k \in 1 .. Len(slots[v]) : slots[v][k].index < counter
      /\ \A i \in 2 .. Len(tombstones) : tombstones[i].index < counter
  BY DEF Placed
<1>4. /\ \A v \in User : \A k \in 1 .. Len(slots[v]) : slots[v][k].index \in Nat
      /\ \A i \in 1 .. Len(tombstones) : tombstones[i].index \in Nat
  <2>1. \A i \in 1 .. Len(tombstones) : tombstones[i] \in IdType
    BY <1>1, ElementOfSeq
  <2>2. \A v \in User : \A k \in 1 .. Len(slots[v]) : slots[v][k].index \in Nat
    BY <1>1, UsedIndex
  <2> QED
    BY <2>1, <2>2 DEF IdType
<1>5. \A v \in User : \A k \in 1 .. Len(slots'[v]) : slots'[v][k].index < counter'
  BY <1>1, <1>2, <1>3, <1>4
<1>6. \A i \in 2 .. Len(tombstones') : tombstones'[i].index < counter'
  <2>1. Len(tombstones) \in Nat
    BY <1>1, LenProperties
  <2>2. \A i \in 2 .. Len(tombstones) : i \in 1 .. Len(tombstones)
    BY <2>1
  <2>3. \A i \in 2 .. Len(tombstones) : tombstones[i].index < counter /\ tombstones[i].index \in Nat
    BY <1>3, <1>4, <2>2
  <2> QED
    BY <1>1, <2>3
<1>7. \A v \in User : \A k \in 1 .. Len(slots'[v]) : \A i \in 2 .. Len(tombstones') :
        slots'[v][k].index # tombstones'[i].index
  <2> SUFFICES ASSUME NEW v \in User, NEW k \in 1 .. Len(slots'[v]), NEW i \in 2 .. Len(tombstones)
               PROVE  slots'[v][k].index # tombstones[i].index
    OBVIOUS
  <2>1. CASE k \in 1 .. Len(slots[v]) /\ slots'[v][k] = slots[v][k]
    BY <2>1 DEF Placed
  <2>2. CASE slots'[v][k] = id
    BY <1>1, <1>3, <2>2
  <2> QED
    BY <1>2, <2>1, <2>2
<1>8. \A v, w \in User : \A j \in 1 .. Len(slots'[v]), k \in 1 .. Len(slots'[w]) :
        slots'[v][j].index = slots'[w][k].index => v = w /\ j = k
  BY <1>1, <1>2, <1>3 DEF Placed
<1>9. \A s \in 1 .. counter' - 1 :
       \/ \E i \in 2 .. Len(tombstones') : tombstones'[i].index = s
       \/ \E v \in User : \E k \in 1 .. Len(slots'[v]) : slots'[v][k].index = s
  <2> SUFFICES ASSUME NEW s \in 1 .. counter' - 1
               PROVE  \/ \E i \in 2 .. Len(tombstones) : tombstones[i].index = s
                      \/ \E v \in User : \E k \in 1 .. Len(slots'[v]) : slots'[v][k].index = s
    OBVIOUS
  <2>1. CASE s = counter
    BY <1>2, <2>1
  <2>2. CASE s # counter
    <3>1. s \in 1 .. counter - 1
      BY <1>1, <2>2
    <3>2. CASE \E i \in 2 .. Len(tombstones) : tombstones[i].index = s
      BY <3>2
    <3>3. CASE \E v \in User : \E k \in 1 .. Len(slots[v]) : slots[v][k].index = s
      BY <1>2, <3>3
    <3> QED
      BY <3>1, <3>2, <3>3 DEF Placed
  <2> QED
    BY <2>1, <2>2
<1> QED
  BY <1>5, <1>6, <1>7, <1>8, <1>9 DEF Placed

(* A user is given the slot on top of the stack. *)
LEMMA PopPlaced ==
  ASSUME Shapes, Placed, Len(tombstones) >= 2, NEW u \in User, NEW id \in IdType, id = Last(tombstones),
         slots' = [slots EXCEPT ![u] = Append(@, id)], tombstones' = Front(tombstones),
         counter' = counter
  PROVE  Placed'
<1> DEFINE n == Len(tombstones)
<1>1. counter \in Nat \ {0} /\ slots \in [User -> Seq(IdType)] /\ tombstones \in Seq(IdType)
  BY DEF Shapes
<1>2. /\ \A v \in User : Len(slots[v]) \in Nat
      /\ \A v \in User : \A k \in 1 .. Len(slots'[v]) :
              \/ k \in 1 .. Len(slots[v]) /\ slots'[v][k] = slots[v][k]
              \/ v = u /\ k = Len(slots[u]) + 1 /\ slots'[v][k] = id
      /\ \A v \in User : \A k \in 1 .. Len(slots[v]) :
              k \in 1 .. Len(slots'[v]) /\ slots'[v][k] = slots[v][k]
      /\ Len(slots[u]) + 1 \in 1 .. Len(slots'[u]) /\ slots'[u][Len(slots[u]) + 1] = id
  BY <1>1, Gained
<1>3. /\ n \in Nat /\ id = tombstones[n] /\ Len(tombstones') = n - 1
      /\ \A i \in 1 .. n - 1 : tombstones'[i] = tombstones[i]
  <2>1. tombstones # <<>>
    BY <1>1, EmptySeq
  <2> QED
    BY <1>1, <2>1, FrontLastElements
<1>4. n \in 2 .. n /\ \A i \in 2 .. Len(tombstones') : i \in 2 .. n /\ i # n /\ tombstones'[i] = tombstones[i]
  BY <1>3
<1>5. Len(tombstones') >= 1 /\ tombstones'[1] = Sentinel
  BY <1>3 DEF Placed
<1> HIDE DEF n
<1>6. \A i \in 2 .. Len(tombstones') : tombstones'[i].index < counter'
  BY <1>4 DEF Placed, n
<1>7. \A v \in User : \A k \in 1 .. Len(slots'[v]) : slots'[v][k].index < counter'
  BY <1>2, <1>3, <1>4 DEF Placed, n
<1>8. \A i, j \in 2 .. Len(tombstones') : tombstones'[i].index = tombstones'[j].index => i = j
  BY <1>4 DEF Placed, n
<1>9. \A v \in User : \A k \in 1 .. Len(slots'[v]) : \A i \in 2 .. Len(tombstones') :
        slots'[v][k].index # tombstones'[i].index
  <2> SUFFICES ASSUME NEW v \in User, NEW k \in 1 .. Len(slots'[v]), NEW i \in 2 .. Len(tombstones')
               PROVE  slots'[v][k].index # tombstones'[i].index
    OBVIOUS
  <2>1. i \in 2 .. n /\ i # n /\ tombstones'[i] = tombstones[i]
    BY <1>4
  <2>2. CASE k \in 1 .. Len(slots[v]) /\ slots'[v][k] = slots[v][k]
    <3>1. slots[v][k].index # tombstones[i].index
      BY <2>1, <2>2 DEF Placed, n
    <3> QED
      BY <2>1, <2>2, <3>1
  <2>3. CASE slots'[v][k] = id
    <3>1. tombstones[i].index # tombstones[n].index
      BY <1>4, <2>1 DEF Placed, n
    <3> QED
      BY <1>3, <2>1, <2>3, <3>1
  <2> QED
    BY <1>2, <2>2, <2>3
<1>10. \A v, w \in User : \A j \in 1 .. Len(slots'[v]), k \in 1 .. Len(slots'[w]) :
        slots'[v][j].index = slots'[w][k].index => v = w /\ j = k
  <2>1. \A v \in User : \A k \in 1 .. Len(slots[v]) : slots[v][k].index # id.index
    <3>1. \A v \in User : \A k \in 1 .. Len(slots[v]) : \A i \in 2 .. n : slots[v][k].index # tombstones[i].index
      BY DEF Placed, n
    <3> QED
      BY <1>3, <1>4, <3>1
  <2>2. \A v, w \in User : \A j \in 1 .. Len(slots[v]), k \in 1 .. Len(slots[w]) :
          slots[v][j].index = slots[w][k].index => v = w /\ j = k
    BY DEF Placed
  <2> SUFFICES ASSUME NEW v \in User, NEW w \in User, NEW j \in 1 .. Len(slots'[v]), NEW k \in 1 .. Len(slots'[w]),
                      slots'[v][j].index = slots'[w][k].index
               PROVE  v = w /\ j = k
    OBVIOUS
  <2>3. \/ j \in 1 .. Len(slots[v]) /\ slots'[v][j] = slots[v][j]
        \/ v = u /\ j = Len(slots[u]) + 1 /\ slots'[v][j] = id
    BY <1>2
  <2>4. \/ k \in 1 .. Len(slots[w]) /\ slots'[w][k] = slots[w][k]
        \/ w = u /\ k = Len(slots[u]) + 1 /\ slots'[w][k] = id
    BY <1>2
  <2> QED
    BY <2>1, <2>2, <2>3, <2>4
<1>11. ASSUME NEW s \in 1 .. counter' - 1
       PROVE  \/ \E i \in 2 .. Len(tombstones') : tombstones'[i].index = s
              \/ \E v \in User : \E k \in 1 .. Len(slots'[v]) : slots'[v][k].index = s
  <2>1. CASE \E v \in User : \E k \in 1 .. Len(slots[v]) : slots[v][k].index = s
    BY <1>2, <2>1
  <2>2. CASE \E i \in 2 .. n : tombstones[i].index = s
    <3>1. PICK i \in 2 .. n : tombstones[i].index = s
      BY <2>2
    <3>2. CASE i = n
      BY <1>2, <1>3, <3>1, <3>2
    <3>3. CASE i # n
      <4>1. i \in 2 .. Len(tombstones') /\ tombstones'[i] = tombstones[i]
        BY <1>3, <3>1, <3>3
      <4> QED
        BY <3>1, <4>1
    <3> QED
      BY <3>2, <3>3
  <2> QED
    BY <2>1, <2>2 DEF Placed, n
<1> QED
  BY <1>5, <1>6, <1>7, <1>8, <1>9, <1>10, <1>11 DEF Placed

(* A user gives its first slot back. *)
LEMMA ReleasePlaced ==
  ASSUME Shapes, Placed, NEW u \in User, slots[u] # <<>>, NEW id \in IdType,
         id.index = slots[u][1].index, slots' = [slots EXCEPT ![u] = Tail(@)],
         tombstones' = Append(tombstones, id), counter' = counter
  PROVE  Placed'
<1> DEFINE n == Len(tombstones)
<1>1. counter \in Nat \ {0} /\ slots \in [User -> Seq(IdType)] /\ tombstones \in Seq(IdType)
  BY DEF Shapes
<1>2. /\ \A v \in User : Len(slots[v]) \in Nat
      /\ 1 \in 1 .. Len(slots[u])
      /\ \A v \in User : \A k \in 1 .. Len(slots'[v]) :
              \/ v # u /\ k \in 1 .. Len(slots[v]) /\ slots'[v][k] = slots[v][k]
              \/ v = u /\ k + 1 \in 1 .. Len(slots[u]) /\ slots'[v][k] = slots[u][k + 1]
      /\ \A v \in User : v # u => slots'[v] = slots[v]
      /\ \A k \in 1 .. Len(slots[u]) : k # 1 =>
              k - 1 \in 1 .. Len(slots'[u]) /\ slots'[u][k - 1] = slots[u][k]
  BY <1>1, Lost
<1>3. /\ n \in Nat /\ Len(tombstones') = n + 1
      /\ \A i \in 1 .. n : tombstones'[i] = tombstones[i]
      /\ \A i \in 1 .. Len(tombstones') : i \in 1 .. n \/ (i = n + 1 /\ tombstones'[i] = id)
  <2>1. PICK s \in Seq(IdType) : s = tombstones
    BY <1>1
  <2>2. /\ Len(s) \in Nat /\ Len(Append(s, id)) = Len(s) + 1
        /\ \A i \in 1 .. Len(s) : Append(s, id)[i] = s[i]
        /\ \A i \in 1 .. Len(Append(s, id)) :
              \/ i \in 1 .. Len(s) /\ Append(s, id)[i] = s[i]
              \/ i = Len(s) + 1 /\ Append(s, id)[i] = id
    BY AppendElements
  <2> QED
    BY <2>1, <2>2
<1>4. n >= 1 /\ tombstones'[1] = Sentinel /\ tombstones'[n + 1] = id
  BY <1>3 DEF Placed
<1>5. /\ \A i \in 2 .. Len(tombstones') :
           \/ i \in 2 .. n /\ tombstones'[i] = tombstones[i]
           \/ i = n + 1 /\ tombstones'[i] = id
      /\ \A i \in 2 .. n : i \in 2 .. Len(tombstones') /\ i # n + 1
      /\ n + 1 \in 2 .. Len(tombstones')
  BY <1>3, <1>4
<1>6. Len(tombstones') >= 1
  BY <1>3
<1> HIDE DEF n
(* Each slot a user has now it had before, and it is not the one given up. *)
<1>7. ASSUME NEW v \in User, NEW k \in 1 .. Len(slots'[v])
      PROVE  \E j \in 1 .. Len(slots[v]) :
               slots'[v][k] = slots[v][j] /\ (IF v = u THEN j = k + 1 ELSE j = k)
  BY <1>2
<1>8. ASSUME NEW v \in User, NEW k \in 1 .. Len(slots'[v])
      PROVE  slots'[v][k].index # id.index
  <2>1. PICK j \in 1 .. Len(slots[v]) : slots'[v][k] = slots[v][j] /\ (IF v = u THEN j = k + 1 ELSE j = k)
    BY <1>7
  <2>2. v = u => j # 1
    BY <2>1
  <2> QED
    BY <1>2, <2>1, <2>2 DEF Placed
<1>9. \A i \in 2 .. Len(tombstones') : tombstones'[i].index < counter'
  BY <1>2, <1>5 DEF Placed, n
<1>10. \A v \in User : \A k \in 1 .. Len(slots'[v]) : slots'[v][k].index < counter'
  BY <1>7 DEF Placed
<1>11. ASSUME NEW i \in 2 .. Len(tombstones'), NEW j \in 2 .. Len(tombstones'),
              tombstones'[i].index = tombstones'[j].index
       PROVE  i = j
  <2>1. \A l \in 2 .. n : tombstones[l].index # id.index
    BY <1>2 DEF Placed, n
  <2> QED
    BY <1>5, <1>11, <2>1 DEF Placed, n
<1>12. ASSUME NEW v \in User, NEW k \in 1 .. Len(slots'[v]), NEW i \in 2 .. Len(tombstones')
       PROVE  slots'[v][k].index # tombstones'[i].index
  <2>1. PICK j \in 1 .. Len(slots[v]) : slots'[v][k] = slots[v][j]
    BY <1>7
  <2>2. CASE i \in 2 .. n /\ tombstones'[i] = tombstones[i]
    BY <2>1, <2>2 DEF Placed, n
  <2>3. CASE tombstones'[i] = id
    BY <1>8, <2>3
  <2> QED
    BY <1>5, <2>2, <2>3
<1>13. ASSUME NEW v \in User, NEW w \in User, NEW j \in 1 .. Len(slots'[v]), NEW k \in 1 .. Len(slots'[w]),
              slots'[v][j].index = slots'[w][k].index
       PROVE  v = w /\ j = k
  <2>1. PICK a \in 1 .. Len(slots[v]) : slots'[v][j] = slots[v][a] /\ (IF v = u THEN a = j + 1 ELSE a = j)
    BY <1>7
  <2>2. PICK b \in 1 .. Len(slots[w]) : slots'[w][k] = slots[w][b] /\ (IF w = u THEN b = k + 1 ELSE b = k)
    BY <1>7
  <2>3. v = w /\ a = b
    BY <1>13, <2>1, <2>2 DEF Placed
  <2> QED
    BY <2>1, <2>2, <2>3
<1>14. ASSUME NEW s \in 1 .. counter' - 1
       PROVE  \/ \E i \in 2 .. Len(tombstones') : tombstones'[i].index = s
              \/ \E v \in User : \E k \in 1 .. Len(slots'[v]) : slots'[v][k].index = s
  <2>1. CASE \E i \in 2 .. n : tombstones[i].index = s
    <3>1. PICK i \in 2 .. n : tombstones[i].index = s
      BY <2>1
    <3>2. i \in 2 .. Len(tombstones') /\ tombstones'[i] = tombstones[i]
      BY <1>5
    <3> QED
      BY <3>1, <3>2
  <2>2. CASE \E v \in User : \E k \in 1 .. Len(slots[v]) : slots[v][k].index = s
    <3>0. PICK v \in User : \E k \in 1 .. Len(slots[v]) : slots[v][k].index = s
      BY <2>2
    <3>1. PICK k \in 1 .. Len(slots[v]) : slots[v][k].index = s
      BY <3>0
    <3>2. CASE v # u
      BY <1>2, <3>1, <3>2
    <3>3. CASE v = u /\ k # 1
      <4>1. k - 1 \in 1 .. Len(slots'[v]) /\ slots'[v][k - 1] = slots[v][k]
        BY <1>2, <3>3
      <4> QED
        BY <3>1, <4>1
    <3>4. CASE v = u /\ k = 1
      BY <1>4, <1>5, <3>1, <3>4
    <3> QED
      BY <3>2, <3>3, <3>4
  <2> QED
    BY <2>1, <2>2 DEF Placed, n
<1> QED
  BY <1>4, <1>6, <1>9, <1>10, <1>11, <1>12, <1>13, <1>14 DEF Placed

-----------------------------------------------------------------------------
(* The slots in use. *)

(* As many as the users have parts, at the most. *)
LEMMA InUseBounded ==
  ASSUME NEW h, h \in [User -> Seq(IdType)], \A u \in User : Len(h[u]) <= Parts(u)
  PROVE  IsFiniteSet(InUse(h)) /\ Cardinality(InUse(h)) \in Nat /\ Cardinality(InUse(h)) <= Capacity
<1> DEFINE whole == BlitImage \X (1 .. BlitViews)
           single == RenderTarget \X {1}
           taken == {p \in whole \cup single : p[2] \in 1 .. Len(h[p[1]])}
           f == [p \in taken |-> h[p[1]][p[2]].index]
<1>1. /\ IsFiniteSet(1 .. BlitViews) /\ Cardinality(1 .. BlitViews) = BlitViews
      /\ IsFiniteSet({1}) /\ Cardinality({1}) = 1
      /\ Cardinality(BlitImage) \in Nat /\ Cardinality(RenderTarget) \in Nat
  <2>1. IsFiniteSet(1 .. BlitViews) /\ Cardinality(1 .. BlitViews) = BlitViews
    BY FS_Interval, SizesAssumption
  <2>2. IsFiniteSet({1}) /\ Cardinality({1}) = 1
    BY FS_Singleton
  <2> QED
    BY <2>1, <2>2, FS_CardinalityType, SizesAssumption
<1>2. IsFiniteSet(whole) /\ Cardinality(whole) = Cardinality(BlitImage) * BlitViews
  BY <1>1, FS_Product, SizesAssumption
<1>3. IsFiniteSet(single) /\ Cardinality(single) = Cardinality(RenderTarget)
  <2>1. IsFiniteSet(single) /\ Cardinality(single) = Cardinality(RenderTarget) * Cardinality({1})
    BY <1>1, FS_Product, SizesAssumption
  <2> QED
    BY <1>1, <2>1
<1>4. /\ IsFiniteSet(whole \cup single) /\ Cardinality(whole \cup single) <= Capacity
      /\ Cardinality(whole \cup single) \in Nat
  <2>1. /\ IsFiniteSet(whole \cup single)
        /\ Cardinality(whole \cup single) = Cardinality(whole) + Cardinality(single) - Cardinality(whole \cap single)
    BY <1>2, <1>3, FS_Union
  <2>2. IsFiniteSet(whole \cap single)
    BY <1>2, FS_Subset
  <2>3. Cardinality(whole \cap single) \in Nat /\ Cardinality(whole) \in Nat /\ Cardinality(single) \in Nat
        /\ Cardinality(whole \cup single) \in Nat
    BY <1>2, <1>3, <2>1, <2>2, FS_CardinalityType
  <2> QED
    BY <1>2, <1>3, <2>1, <2>3 DEF Capacity
<1>5. /\ IsFiniteSet(taken) /\ Cardinality(taken) <= Cardinality(whole \cup single)
      /\ Cardinality(taken) \in Nat
  <2>1. taken \in SUBSET (whole \cup single)
    OBVIOUS
  <2> QED
    BY <1>4, <2>1, FS_Subset, FS_CardinalityType
<1>6. f \in Surjection(taken, InUse(h))
  <2>1. ASSUME NEW p \in taken PROVE f[p] \in InUse(h)
    <3>1. p[1] \in User /\ p[2] \in 1 .. Len(h[p[1]]) /\ f[p] = h[p[1]][p[2]].index
      BY DEF User
    <3> QED
      BY <3>1, UsedIndex
  <2>2. ASSUME NEW s \in InUse(h) PROVE \E p \in taken : f[p] = s
    <3>1. PICK u \in User : \E k \in 1 .. Len(h[u]) : h[u][k].index = s
      BY UsedIndex
    <3>2. PICK k \in 1 .. Len(h[u]) : h[u][k].index = s
      BY <3>1
    <3>3. Len(h[u]) \in Nat /\ k \in 1 .. Parts(u)
      BY PartsType, LenProperties
    <3>4. <<u, k>> \in whole \cup single
      BY <3>3 DEF Parts, User
    <3>5. <<u, k>> \in taken
      BY <3>4
    <3> QED
      BY <3>2, <3>5
  <2>3. f \in [taken -> InUse(h)]
    BY <2>1
  <2> QED
    BY <2>2, <2>3 DEF Surjection
<1>7. IsFiniteSet(InUse(h)) /\ Cardinality(InUse(h)) <= Cardinality(taken)
  BY <1>5, <1>6, FS_Surjection
<1>8. Cardinality(InUse(h)) \in Nat
  BY <1>7, FS_CardinalityType
<1>9. Capacity \in Nat
  BY <1>1, SizesAssumption DEF Capacity
<1> QED
  BY <1>4, <1>5, <1>7, <1>8, <1>9

-----------------------------------------------------------------------------
(* The steps that take no slot and return none. *)

(* What depends on the slots alone stays as it is. *)
LEMMA SlotsStay ==
  ASSUME IInv, UNCHANGED <<tombstones, counter, heap, slots, peak, releases>>
  PROVE  Versions' /\ Placed' /\ Bounds'
<1>1. Versions'
  BY DEF IInv, Versions
<1>2. Placed'
  BY DEF IInv, Placed
<1>3. Held' = Held
  BY DEF Held, InUse
<1>4. Bounds'
  BY <1>3 DEF IInv, Bounds, GrowsForThePeak, Capacity
<1> QED
  BY <1>1, <1>2, <1>4

LEMMA InitIInv ==
  ASSUME Init
  PROVE  IInv
<1> USE DEF Init
<1>1. Sentinel \in IdType /\ <<Sentinel>> \in Seq(IdType) /\ Len(<<Sentinel>>) = 1 /\ <<Sentinel>>[1] = Sentinel
  BY DEF Sentinel, IdType
<1>2. <<>> \in Seq(IdType) /\ <<>> \in Seq(User) /\ Len(<<>>) = 0
  BY EmptySeq
<1>3. /\ \A u \in User : slots[u] = <<>> /\ Len(slots[u]) = 0
      /\ slots \in [User -> Seq(IdType)]
      /\ \A t \in Caller : call[t] = Idle /\ call[t].op = "idle"
      /\ Creator \in Caller
  BY <1>2 DEF Idle, Caller
<1>4. Shapes
  <2>1. heap \in [1 .. counter - 1 -> User \X (1 .. BlitViews)]
    OBVIOUS
  <2> QED
    BY <1>1, <1>2, <1>3, <2>1, SizesAssumption DEF Shapes, Idle
<1>5. Versions /\ Placed
  BY <1>1, <1>3 DEF Versions, Placed, Sentinel
<1>6. Hands /\ Answers /\ ViewsOf
  <2>1. \A u \in User : 0 <= Parts(u)
    BY PartsType
  <2>2. live = {} /\ Len(condemned) = 0
    BY <1>2
  <2>3. Hands
    BY <1>3, <2>1, <2>2 DEF Hands, Making
  <2> QED
    <3>1. call[Creator].op = "idle"
      BY <1>3
    <3>2. Answers /\ ViewsOf
      BY <2>2, <3>1 DEF Answers, ViewsOf, Making
    <3> QED
      BY <2>3, <3>2
<1>7. Held = {}
  <2>1. \A s : s \in InUse(slots) <=> \E u \in User : \E k \in 1 .. Len(slots[u]) : slots[u][k].index = s
    <3> HIDE DEF Init
    <3>1. slots \in [User -> Seq(IdType)]
      BY <1>3
    <3> QED
      BY <3>1, UsedIndex
  <2> QED
    BY <1>3, <2>1 DEF Held
<1>8. Bounds
  <2>1. IsFiniteSet(Held) /\ Cardinality(Held) = 0
    BY <1>7, FS_EmptySet
  <2>2. Cardinality(BlitImage) \in Nat /\ Cardinality(RenderTarget) \in Nat
    BY FS_CardinalityType, SizesAssumption
  <2>3. Capacity \in Nat
    BY <2>2, SizesAssumption DEF Capacity
  <2> QED
    BY <2>1, <2>3 DEF Bounds, GrowsForThePeak
<1> QED
  BY <1>4, <1>5, <1>6, <1>8 DEF IInv

LEMMA CreateStep ==
  ASSUME IInv, NEW u \in User, Create(u)
  PROVE  IInv'
<1>1. /\ Shapes /\ Hands /\ Answers /\ ViewsOf
      /\ call[Creator] = Idle /\ Absent(u) /\ slots[u] = <<>> /\ Len(slots[u]) = 0
      /\ call' = [call EXCEPT ![Creator] = [op |-> "acquire", on |-> u]]
      /\ UNCHANGED <<tombstones, counter, heap, slots, live, condemned, peak, releases>>
  BY EmptySeq DEF IInv, Create, Absent
<1>2. Versions' /\ Placed' /\ Bounds'
  BY <1>1, SlotsStay
<1>3. /\ Creator \in Caller /\ call'[Creator] = [op |-> "acquire", on |-> u]
      /\ \A t \in Caller : t # Creator => call'[t] = call[t]
  BY <1>1, Callers DEF Shapes
<1>4. Shapes'
  BY <1>1 DEF Shapes, Making
<1>5. Parts(u) > 0 /\ \A v \in User : Parts(v) > 0
  BY PartsType
<1>6. \A i \in 1 .. Len(condemned) : condemned[i] # u
  <2>1. \A i \in 1 .. Len(condemned) : Len(slots[condemned[i]]) = Parts(condemned[i])
    BY <1>1 DEF Hands
  <2> QED
    BY <1>1, <1>5, <2>1
<1>7. Hands'
  <2>1. \A t \in Caller : call'[t] # Idle =>
          /\ call'[t].on \notin live
          /\ \A i \in 1 .. Len(condemned) : condemned[i] # call'[t].on
          /\ \A s \in Caller : call'[s] # Idle /\ call'[s].on = call'[t].on => s = t
    BY <1>1, <1>3, <1>6 DEF Hands, Absent
  <2>2. \A t \in Caller : call'[t].op \in Making => t = Creator /\ Len(slots[call'[t].on]) < Parts(call'[t].on)
    BY <1>1, <1>3, <1>5 DEF Hands
  <2>3. \A t \in Caller : call'[t].op = "release" => slots[call'[t].on] # <<>>
    BY <1>1, <1>3 DEF Hands
  <2> QED
    BY <1>1, <2>1, <2>2, <2>3 DEF Hands, Parts
<1>8. Answers' /\ ViewsOf'
  <2>1. Answers'
    BY <1>1, <1>3 DEF Answers
  <2>2. ASSUME NEW v \in User, v \in live' \/ (call'[Creator].op \in Making /\ call'[Creator].on = v)
        PROVE  \A k \in 1 .. Len(slots'[v]) : heap'[slots'[v][k].index] = <<v, k>>
    <3>1. v \in live \/ (v = u /\ Len(slots[v]) = 0)
      BY <1>1, <1>3, <2>2
    <3>2. CASE v \in live
      BY <1>1, <3>2 DEF ViewsOf
    <3>3. CASE v = u /\ Len(slots[v]) = 0
      BY <1>1, <3>3
    <3> QED
      BY <3>1, <3>2, <3>3
  <2>3. ViewsOf'
    BY <2>2 DEF ViewsOf
  <2> QED
    BY <2>1, <2>3
<1> QED
  BY <1>2, <1>4, <1>7, <1>8 DEF IInv

(* With nothing above the sentinel every slot so far is in use. *)
LEMMA AskStep ==
  ASSUME IInv, Ask
  PROVE  IInv'
<1> DEFINE answer == IF Len(tombstones) = 1 THEN "grow" ELSE "pop"
<1>1. /\ Shapes /\ Hands /\ Answers /\ ViewsOf /\ Placed /\ Bounds
      /\ call[Creator].op = "acquire"
      /\ call' = [call EXCEPT ![Creator].op = answer]
      /\ UNCHANGED <<tombstones, counter, heap, slots, live, condemned, peak, releases>>
  BY DEF IInv, Ask
<1>2. Versions' /\ Placed' /\ Bounds'
  BY <1>1, SlotsStay
<1>3. PICK u \in User : call[Creator] = [op |-> "acquire", on |-> u]
  <2>1. call[Creator] \in [op : Making \cup {"release"}, on : User]
    BY <1>1, Callers DEF Idle
  <2> QED
    BY <1>1, <2>1
<1>4. /\ Creator \in Caller /\ call'[Creator] = [op |-> answer, on |-> u]
      /\ \A t \in Caller : t # Creator => call'[t] = call[t]
      /\ call'[Creator].on = u /\ call'[Creator].op = answer /\ call[Creator].on = u
      /\ answer \in {"grow", "pop"} /\ call[Creator] # Idle /\ call'[Creator] # Idle
  BY <1>1, <1>3, Callers DEF Shapes, Idle
<1> HIDE DEF answer
<1>5. Shapes'
  BY <1>1, <1>3, <1>4 DEF Shapes, Making
<1>6. Hands'
  <2>1. \A t \in Caller : /\ call'[t] # Idle <=> call[t] # Idle
                          /\ call[t] # Idle => call'[t].on = call[t].on
                          /\ call'[t].op \in Making => call[t].op \in Making /\ call'[t].on = call[t].on
                          /\ call'[t].op = "release" => call[t].op = "release" /\ call'[t].on = call[t].on
    BY <1>1, <1>4 DEF Making
  <2>2. \A t \in Caller : call'[t] # Idle =>
          /\ call'[t].on \notin live
          /\ \A i \in 1 .. Len(condemned) : condemned[i] # call'[t].on
          /\ \A s \in Caller : call'[s] # Idle /\ call'[s].on = call'[t].on => s = t
    BY <1>1, <2>1 DEF Hands
  <2>3. \A t \in Caller : call'[t].op \in Making => t = Creator /\ Len(slots[call'[t].on]) < Parts(call'[t].on)
    BY <1>1, <2>1 DEF Hands
  <2>4. \A t \in Caller : call'[t].op = "release" => slots[call'[t].on] # <<>>
    BY <1>1, <2>1 DEF Hands
  <2> QED
    BY <1>1, <2>2, <2>3, <2>4 DEF Hands, Parts
<1>7. Answers'
  <2>1. Len(tombstones) \in Nat /\ Len(tombstones) >= 1
    BY <1>1, LenProperties DEF Shapes, Placed
  <2>2. CASE Len(tombstones) # 1
    <3>1. call'[Creator].op = "pop" /\ Len(tombstones') >= 2
      <4>1. answer = "pop" /\ Len(tombstones) >= 2
        <5>1. PICK n \in Nat : n = Len(tombstones)
          BY <2>1
        <5>2. n >= 1 /\ n # 1
          BY <2>1, <2>2, <5>1
        <5>3. n >= 2
          BY <5>2
        <5> QED
          BY <2>2, <5>1, <5>3 DEF answer
      <4> QED
        BY <1>1, <1>4, <4>1
    <3> QED
      BY <3>1 DEF Answers
  <2>3. CASE Len(tombstones) = 1
    <3>1. counter \in Nat \ {0} /\ peak \in Nat /\ slots \in [User -> Seq(IdType)]
      BY <1>1 DEF Shapes
    <3>2. Held = 1 .. counter - 1
      <4>1. ASSUME NEW s \in 1 .. counter - 1 PROVE s \in Held
        <5>1. \E v \in User : \E k \in 1 .. Len(slots[v]) : slots[v][k].index = s
          BY <1>1, <2>3 DEF Placed
        <5> QED
          BY <3>1, <5>1, UsedIndex DEF Held
      <4>2. ASSUME NEW s \in Held PROVE s \in 1 .. counter - 1
        <5>1. PICK v \in User : \E k \in 1 .. Len(slots[v]) : slots[v][k].index = s
          BY <3>1, UsedIndex DEF Held
        <5>2. PICK k \in 1 .. Len(slots[v]) : slots[v][k].index = s
          BY <5>1
        <5>3. s \in Nat \ {0} /\ s < counter
          BY <1>1, <3>1, <5>2, UsedIndex DEF Placed
        <5> QED
          BY <3>1, <5>3
      <4> QED
        BY <4>1, <4>2
    <3>3. Cardinality(Held) = counter - 1
      BY <3>1, <3>2, FS_Interval
    <3> QED
      BY <1>1, <1>4, <2>3, <3>1, <3>3 DEF Answers, Bounds, answer
  <2> QED
    BY <2>2, <2>3
<1>8. ViewsOf'
  <2>1. call'[Creator].op \in Making /\ call'[Creator].on = u /\ call[Creator].op \in Making /\ call[Creator].on = u
    BY <1>3, <1>4 DEF Making
  <2> QED
    BY <1>1, <2>1 DEF ViewsOf
<1> QED
  BY <1>2, <1>5, <1>6, <1>7, <1>8 DEF IInv

(* A handle is given up. *)
LEMMA DestroyDeferredStep ==
  ASSUME IInv, NEW u \in User, DestroyDeferred(u)
  PROVE  IInv'
<1>1. /\ Shapes /\ Hands /\ Answers /\ ViewsOf
      /\ call[Creator] = Idle /\ u \in live
      /\ live' = live \ {u} /\ condemned' = Append(condemned, u)
      /\ UNCHANGED <<tombstones, counter, heap, slots, call, peak, releases>>
  BY DEF IInv, DestroyDeferred
<1>2. Versions' /\ Placed' /\ Bounds'
  BY <1>1, SlotsStay
<1>3. /\ condemned' \in Seq(User) /\ Len(condemned) \in Nat /\ Len(condemned') = Len(condemned) + 1
      /\ \A i \in 1 .. Len(condemned') :
           \/ i \in 1 .. Len(condemned) /\ condemned'[i] = condemned[i]
           \/ i = Len(condemned) + 1 /\ condemned'[i] = u
  <2>1. PICK s \in Seq(User) : s = condemned
    BY <1>1 DEF Shapes
  <2>2. /\ Append(s, u) \in Seq(User) /\ Len(s) \in Nat /\ Len(Append(s, u)) = Len(s) + 1
        /\ \A i \in 1 .. Len(Append(s, u)) :
              \/ i \in 1 .. Len(s) /\ Append(s, u)[i] = s[i]
              \/ i = Len(s) + 1 /\ Append(s, u)[i] = u
    BY AppendElements
  <2> QED
    BY <1>1, <2>1, <2>2
<1>4. Shapes'
  BY <1>1, <1>3 DEF Shapes
<1>5. Hands'
  <2>1. \A i \in 1 .. Len(condemned) : condemned[i] # u
    BY <1>1 DEF Hands
  <2>2. Len(slots[u]) = Parts(u)
    BY <1>1 DEF Hands
  <2>3. \A i \in 1 .. Len(condemned') :
           condemned'[i] \notin live' /\ Len(slots[condemned'[i]]) = Parts(condemned'[i])
    BY <1>1, <1>3, <2>2 DEF Hands
  <2>4. \A i, j \in 1 .. Len(condemned') : condemned'[i] = condemned'[j] => i = j
    BY <1>1, <1>3, <2>1 DEF Hands
  <2>5. \A t \in Caller : call[t] # Idle =>
          /\ call[t].on \notin live'
          /\ \A i \in 1 .. Len(condemned') : condemned'[i] # call[t].on
    BY <1>1, <1>3 DEF Hands
  <2> QED
    BY <1>1, <2>3, <2>4, <2>5 DEF Hands, Parts
<1>6. Answers' /\ ViewsOf'
  BY <1>1 DEF Answers, ViewsOf
<1> QED
  BY <1>2, <1>4, <1>5, <1>6 DEF IInv

LEMMA DestroyAtOnceStep ==
  ASSUME IInv, NEW u \in User, DestroyAtOnce(u)
  PROVE  IInv'
<1>1. /\ Shapes /\ Hands /\ Answers /\ ViewsOf
      /\ call[Creator] = Idle /\ u \in live /\ live' = live \ {u}
      /\ call' = [call EXCEPT ![Creator] = [op |-> "release", on |-> u]]
      /\ UNCHANGED <<tombstones, counter, heap, slots, condemned, peak, releases>>
  BY DEF IInv, DestroyAtOnce
<1>2. Versions' /\ Placed' /\ Bounds'
  BY <1>1, SlotsStay
<1>3. /\ Creator \in Caller /\ call'[Creator] = [op |-> "release", on |-> u]
      /\ \A t \in Caller : t # Creator => call'[t] = call[t]
  BY <1>1, Callers DEF Shapes
<1>4. Shapes'
  BY <1>1 DEF Shapes
<1>5. Hands'
  <2>1. slots[u] # <<>>
    BY <1>1, PartsType, EmptySeq DEF Hands
  <2>2. \A i \in 1 .. Len(condemned) : condemned[i] # u
    BY <1>1 DEF Hands
  <2>3. \A t \in Caller : call'[t] # Idle =>
          /\ call'[t].on \notin live'
          /\ \A i \in 1 .. Len(condemned) : condemned[i] # call'[t].on
          /\ \A s \in Caller : call'[s] # Idle /\ call'[s].on = call'[t].on => s = t
    BY <1>1, <1>3, <2>2 DEF Hands
  <2>4. \A t \in Caller : call'[t].op \in Making => t = Creator /\ Len(slots[call'[t].on]) < Parts(call'[t].on)
    BY <1>1, <1>3 DEF Hands, Making
  <2>5. \A t \in Caller : call'[t].op = "release" => slots[call'[t].on] # <<>>
    BY <1>1, <1>3, <2>1 DEF Hands
  <2> QED
    BY <1>1, <2>3, <2>4, <2>5 DEF Hands, Parts
<1>6. Answers' /\ ViewsOf'
  <2>1. call'[Creator].op = "release" /\ live' \subseteq live
    BY <1>1, <1>3
  <2>2. Answers'
    BY <2>1 DEF Answers
  <2>3. ViewsOf'
    BY <1>1, <2>1 DEF ViewsOf, Making
  <2> QED
    BY <2>2, <2>3
<1> QED
  BY <1>2, <1>4, <1>5, <1>6 DEF IInv

(* The collector turns to the oldest of what was condemned. *)
LEMMA CollectStep ==
  ASSUME IInv, Collect
  PROVE  IInv'
<1>1. /\ Shapes /\ Hands /\ Answers /\ ViewsOf
      /\ call[Collector] = Idle /\ condemned # <<>> /\ condemned' = Tail(condemned)
      /\ call' = [call EXCEPT ![Collector] = [op |-> "release", on |-> Head(condemned)]]
      /\ UNCHANGED <<tombstones, counter, heap, slots, live, peak, releases>>
  BY DEF IInv, Collect
<1>2. Versions' /\ Placed' /\ Bounds'
  BY <1>1, SlotsStay
<1>3. /\ condemned' \in Seq(User) /\ Head(condemned) = condemned[1] /\ 1 \in 1 .. Len(condemned)
      /\ \A i \in 1 .. Len(condemned') : i + 1 \in 1 .. Len(condemned) /\ condemned'[i] = condemned[i + 1]
      /\ condemned[1] \in User /\ Len(condemned') \in Nat
  <2>1. condemned \in Seq(User)
    BY <1>1 DEF Shapes
  <2>2. /\ Tail(condemned) \in Seq(User) /\ Head(condemned) = condemned[1] /\ 1 \in 1 .. Len(condemned)
        /\ \A i \in 1 .. Len(Tail(condemned)) :
             i + 1 \in 1 .. Len(condemned) /\ Tail(condemned)[i] = condemned[i + 1]
    BY <1>1, <2>1, TailElements
  <2> QED
    BY <1>1, <2>1, <2>2, ElementOfSeq, LenProperties
<1>4. PICK u \in User : u = Head(condemned)
  BY <1>3
<1>5. /\ Collector \in Caller /\ call'[Collector] = [op |-> "release", on |-> u]
      /\ \A t \in Caller : t # Collector => call'[t] = call[t]
  BY <1>1, <1>4, Callers DEF Shapes
<1>6. Shapes'
  BY <1>1, <1>3, <1>4 DEF Shapes
<1>7. Hands'
  <2>1. slots[u] # <<>> /\ u \notin live
    BY <1>1, <1>3, <1>4, PartsType, EmptySeq DEF Hands
  <2>2. \A i \in 1 .. Len(condemned') : condemned'[i] # u
    <3> SUFFICES ASSUME NEW i \in 1 .. Len(condemned'), condemned'[i] = u PROVE FALSE
      OBVIOUS
    <3>1. i + 1 \in 1 .. Len(condemned) /\ condemned[i + 1] = condemned[1]
      BY <1>3, <1>4
    <3>2. i + 1 = 1
      BY <1>1, <1>3, <3>1 DEF Hands
    <3> QED
      BY <1>3, <3>2
  <2>3. \A i \in 1 .. Len(condemned') :
           condemned'[i] \notin live /\ Len(slots[condemned'[i]]) = Parts(condemned'[i])
    BY <1>1, <1>3 DEF Hands
  <2>4. ASSUME NEW i \in 1 .. Len(condemned'), NEW j \in 1 .. Len(condemned'), condemned'[i] = condemned'[j]
        PROVE  i = j
    <3>1. i + 1 = j + 1
      BY <1>1, <1>3, <2>4 DEF Hands
    <3> QED
      BY <1>3, <3>1
  <2>5. \A t \in Caller : call'[t] # Idle =>
          /\ call'[t].on \notin live
          /\ \A i \in 1 .. Len(condemned') : condemned'[i] # call'[t].on
          /\ \A s \in Caller : call'[s] # Idle /\ call'[s].on = call'[t].on => s = t
    BY <1>1, <1>3, <1>4, <1>5, <2>1, <2>2 DEF Hands
  <2>6. \A t \in Caller : call'[t].op \in Making => t = Creator /\ Len(slots[call'[t].on]) < Parts(call'[t].on)
    BY <1>1, <1>5 DEF Hands, Making
  <2>7. \A t \in Caller : call'[t].op = "release" => slots[call'[t].on] # <<>>
    BY <1>1, <1>5, <2>1 DEF Hands
  <2> QED
    BY <1>1, <2>3, <2>4, <2>5, <2>6, <2>7 DEF Hands, Parts
<1>8. Answers' /\ ViewsOf'
  <2>0. call'[Creator].op = "release" \/ call'[Creator] = call[Creator]
    BY <1>1, <1>5, Callers
  <2>1. call'[Creator].op \in Making => call'[Creator] = call[Creator]
    BY <2>0 DEF Making
  <2>2. call'[Creator].op \in {"pop", "grow"} => call'[Creator] = call[Creator]
    BY <2>0
  <2> QED
    BY <1>1, <2>1, <2>2 DEF Answers, ViewsOf
<1> QED
  BY <1>2, <1>6, <1>7, <1>8 DEF IInv

-----------------------------------------------------------------------------
(* The steps that take a slot or return one. *)

(* A new slot for the user that is being made: nobody else has it.         *)
LEMMA TakeStep ==
  ASSUME IInv, NEW id \in IdType, Take(id), call[Creator].op \in {"grow", "pop"},
         Placed', tombstones' \in Seq(IdType), counter' \in Nat \ {0}, counter' >= counter,
         counter' <= peak + 2, id.index < counter', id.version <= releases,
         \A s \in 1 .. counter' - 1 : s < counter \/ s = id.index,
         \A v \in User : \A k \in 1 .. Len(slots[v]) : slots[v][k].index # id.index,
         \A i \in 1 .. Len(tombstones') : tombstones'[i].version <= releases
  PROVE  IInv'
<1>1. Shapes /\ Versions /\ Placed /\ Hands /\ Answers /\ Bounds /\ ViewsOf
  BY DEF IInv
<1>2. PICK u \in User : /\ u = call[Creator].on /\ call[Creator] \in [op : Making \cup {"release"}, on : User]
                        /\ call[Creator] # Idle
  BY <1>1, Callers DEF Idle
<1>3. /\ slots' = [slots EXCEPT ![u] = Append(@, id)]
      /\ heap' = [s \in DOMAIN heap \cup {id.index} |->
                    IF s = id.index THEN <<u, Len(slots'[u])>> ELSE heap[s]]
      /\ peak' = IF Cardinality(InUse(slots')) > peak THEN Cardinality(InUse(slots')) ELSE peak
      /\ UNCHANGED <<condemned, releases>>
      /\ \/ /\ Len(slots'[u]) = Parts(u)
            /\ live' = live \cup {u} /\ call' = [call EXCEPT ![Creator] = Idle]
         \/ /\ Len(slots'[u]) # Parts(u)
            /\ live' = live /\ call' = [call EXCEPT ![Creator].op = "acquire"]
  BY <1>2 DEF Take
<1>4. /\ slots' \in [User -> Seq(IdType)]
      /\ \A v \in User : Len(slots[v]) \in Nat
      /\ \A v \in User : Len(slots'[v]) = IF v = u THEN Len(slots[v]) + 1 ELSE Len(slots[v])
      /\ \A v \in User : \A k \in 1 .. Len(slots'[v]) :
           \/ k \in 1 .. Len(slots[v]) /\ slots'[v][k] = slots[v][k]
           \/ v = u /\ k = Len(slots[u]) + 1 /\ slots'[v][k] = id
  <2>1. slots \in [User -> Seq(IdType)]
    BY <1>1 DEF Shapes
  <2> QED
    BY <1>3, <2>1, Gained
<1>5. /\ Len(slots[u]) < Parts(u) /\ u \notin live /\ Parts(u) \in Nat \ {0} /\ Parts(u) <= BlitViews
      /\ \A i \in 1 .. Len(condemned) : condemned[i] # u
      /\ \A t \in Caller : call[t] # Idle /\ call[t].on = u => t = Creator
      /\ Creator \in Caller
  BY <1>1, <1>2, Callers, PartsType DEF Hands, Making
<1>6. \A v \in User : Len(slots'[v]) \in Nat /\ Len(slots'[v]) <= Parts(v)
  BY <1>1, <1>4, <1>5 DEF Hands
<1>7. /\ IsFiniteSet(InUse(slots')) /\ Cardinality(InUse(slots')) \in Nat
      /\ Cardinality(InUse(slots')) <= Capacity
  BY <1>4, <1>6, InUseBounded
<1>8. Bounds' /\ peak' \in Nat /\ peak' >= peak
  <2>1. peak \in Nat /\ peak <= Capacity
    BY <1>1 DEF Shapes, Bounds
  <2>2. peak' \in Nat /\ peak' >= peak /\ peak' <= Capacity /\ Cardinality(InUse(slots')) <= peak'
    BY <1>3, <1>7, <2>1
  <2>3. Capacity' = Capacity /\ Held' = InUse(slots')
    BY DEF Capacity, Held, InUse
  <2>4. counter' - 1 <= peak' + 1
    <3>1. \A c, p, q \in Nat : c <= p + 2 /\ q >= p => c - 1 <= q + 1
      OBVIOUS
    <3>2. counter' \in Nat /\ peak \in Nat /\ peak' \in Nat
      BY <2>1, <2>2
    <3> QED
      BY <2>2, <3>1, <3>2, Zenon
  <2> QED
    BY <1>7, <2>2, <2>3, <2>4 DEF Bounds, GrowsForThePeak
<1>9. Versions'
  BY <1>1, <1>3, <1>4 DEF Versions
<1>10. heap' \in [1 .. counter' - 1 -> User \X (1 .. BlitViews)]
  <2>1. heap \in [1 .. counter - 1 -> User \X (1 .. BlitViews)] /\ counter \in Nat \ {0}
    BY <1>1 DEF Shapes
  <2>2. id.index \in Nat \ {0}
    BY DEF IdType
  <2>3. 1 .. counter' - 1 = DOMAIN heap \cup {id.index}
    <3>1. PICK n \in Nat \ {0}, m \in Nat \ {0}, i \in Nat \ {0} : n = counter /\ m = counter' /\ i = id.index
      BY <2>1, <2>2
    <3>2. m >= n /\ i < m /\ \A s \in 1 .. m - 1 : s < n \/ s = i
      BY <3>1
    <3>3. ASSUME NEW s \in 1 .. m - 1 PROVE s \in (1 .. n - 1) \cup {i}
      <4>1. s < n \/ s = i
        BY <3>2
      <4>2. s \in 1 .. n - 1 \/ s = i
        BY <4>1
      <4> QED
        BY <4>2
    <3>5. ASSUME NEW s \in (1 .. n - 1) \cup {i} PROVE s \in 1 .. m - 1
      <4>1. CASE s \in 1 .. n - 1
        BY <3>2, <4>1
      <4>2. CASE s = i
        BY <3>2, <4>2
      <4> QED
        BY <4>1, <4>2
    <3>4. DOMAIN heap = 1 .. n - 1
      BY <2>1, <3>1
    <3> QED
      BY <3>1, <3>3, <3>4, <3>5
  <2>4. Len(slots'[u]) \in 1 .. BlitViews
    <3>1. BlitViews \in Nat
      BY SizesAssumption
    <3> QED
      BY <1>4, <1>5, <1>6, <3>1
  <2> QED
    BY <1>3, <2>1, <2>3, <2>4
<1>11. /\ \A t \in Caller : t # Creator => call'[t] = call[t]
       /\ \/ call'[Creator] = Idle /\ u \in live'
          \/ /\ call'[Creator] = [op |-> "acquire", on |-> u] /\ u \notin live'
             /\ Len(slots'[u]) < Parts(u)
  <2>1. call \in [Caller -> {Idle} \cup [op : Making \cup {"release"}, on : User]]
    BY <1>1 DEF Shapes
  <2>2. CASE Len(slots'[u]) = Parts(u)
    BY <1>3, <1>5, <2>1, <2>2
  <2>3. CASE Len(slots'[u]) # Parts(u)
    <3>1. call' = [call EXCEPT ![Creator].op = "acquire"] /\ live' = live
      BY <1>3, <2>3
    <3>2. call'[Creator] = [call[Creator] EXCEPT !.op = "acquire"]
      BY <1>5, <2>1, <3>1
    <3>3. [call[Creator] EXCEPT !.op = "acquire"] = [op |-> "acquire", on |-> u]
      BY <1>2
    <3>4. Len(slots'[u]) < Parts(u)
      BY <1>5, <1>6, <2>3
    <3> QED
      BY <1>5, <2>1, <3>1, <3>2, <3>3, <3>4
  <2> QED
    BY <2>2, <2>3
<1>12. Shapes'
  <2>1. call' \in [Caller -> {Idle} \cup [op : Making \cup {"release"}, on : User]]
    <3>1. call \in [Caller -> {Idle} \cup [op : Making \cup {"release"}, on : User]]
      BY <1>1 DEF Shapes
    <3>2. call'[Creator] \in {Idle} \cup [op : Making \cup {"release"}, on : User]
      BY <1>11 DEF Making
    <3>3. call' = [t \in Caller |-> call'[t]]
      BY <1>3, <3>1
    <3> QED
      BY <1>11, <3>1, <3>2, <3>3
  <2>2. live' \subseteq User
    BY <1>1, <1>3 DEF Shapes
  <2> QED
    BY <1>1, <1>3, <1>4, <1>8, <1>10, <2>1, <2>2 DEF Shapes
<1>13. Hands'
  <2>1. \A v \in live' : v \in User /\ Len(slots'[v]) = Parts(v)
    <3>1. \A v \in live : v \in User /\ v # u /\ Len(slots'[v]) = Parts(v)
      BY <1>1, <1>4, <1>5 DEF Hands, Shapes
    <3>2. live' = live \/ (live' = live \cup {u} /\ Len(slots'[u]) = Parts(u))
      BY <1>3
    <3> QED
      BY <3>1, <3>2
  <2>2. live \subseteq live' /\ live' \subseteq live \cup {u}
    BY <1>3
  <2>3. \A i \in 1 .. Len(condemned') :
          condemned'[i] \notin live' /\ Len(slots'[condemned'[i]]) = Parts(condemned'[i])
    <3>1. \A i \in 1 .. Len(condemned) : condemned[i] \in User
      BY <1>1, ElementOfSeq DEF Shapes
    <3> QED
      BY <1>1, <1>3, <1>4, <1>5, <2>2, <3>1 DEF Hands
  <2>4. \A t \in Caller : call'[t] # Idle =>
          /\ call'[t].on \notin live'
          /\ \A i \in 1 .. Len(condemned) : condemned[i] # call'[t].on
          /\ call[t] # Idle /\ call'[t].on = call[t].on
    BY <1>1, <1>2, <1>5, <1>11, <2>2 DEF Hands
  <2>5. \A t, s \in Caller : call'[t] # Idle /\ call'[s] # Idle /\ call'[s].on = call'[t].on => s = t
    BY <1>1, <2>4 DEF Hands
  <2>6. \A t \in Caller : call'[t].op \in Making => t = Creator /\ Len(slots'[call'[t].on]) < Parts(call'[t].on)
    <3>1. \A t \in Caller : t # Creator => call[t].op \notin Making
      BY <1>1 DEF Hands
    <3>2. Idle.op \notin Making
      BY DEF Idle, Making
    <3> QED
      BY <1>11, <3>1, <3>2
  <2>7. \A t \in Caller : call'[t].op = "release" => slots'[call'[t].on] # <<>>
    <3> SUFFICES ASSUME NEW t \in Caller, call'[t].op = "release" PROVE slots'[call'[t].on] # <<>>
      OBVIOUS
    <3>1. t # Creator /\ call'[t] = call[t] /\ call[t] # Idle /\ call[t].on \in User /\ call[t].on # u
      <4>1. Idle.op # "release"
        BY DEF Idle
      <4> QED
        BY <1>1, <1>5, <1>11, <4>1, Callers
    <3>2. slots'[call[t].on] = slots[call[t].on]
      BY <1>1, <1>3, <3>1 DEF Shapes
    <3> QED
      BY <1>1, <3>1, <3>2 DEF Hands
  <2> QED
    BY <1>1, <1>3, <1>6, <2>1, <2>3, <2>4, <2>5, <2>6, <2>7 DEF Hands, Parts
<1>14. Answers'
  BY <1>11 DEF Answers, Idle
<1>15. ViewsOf'
  <2>1. \A v \in User : v \in live' \/ (call'[Creator].op \in Making /\ call'[Creator].on = v) =>
          v = u \/ v \in live
    BY <1>3, <1>11 DEF Idle, Making
  <2>2. ASSUME NEW v \in User, v = u \/ v \in live, NEW k \in 1 .. Len(slots'[v])
        PROVE  heap'[slots'[v][k].index] = <<v, k>>
    <3>1. CASE k \in 1 .. Len(slots[v]) /\ slots'[v][k] = slots[v][k]
      <4>1. heap[slots[v][k].index] = <<v, k>>
        <5>1. call[Creator].op \in Making /\ call[Creator].on = u
          BY <1>2 DEF Making
        <5> QED
          BY <1>1, <2>2, <3>1, <5>1 DEF ViewsOf
      <4>2. slots[v][k].index # id.index /\ slots[v][k].index \in 1 .. counter - 1
        <5>1. slots \in [User -> Seq(IdType)] /\ counter \in Nat \ {0}
          BY <1>1 DEF Shapes
        <5>2. slots[v][k].index \in Nat \ {0} /\ slots[v][k].index < counter
          BY <1>1, <3>1, <5>1, UsedIndex DEF Placed
        <5> QED
          BY <3>1, <5>1, <5>2
      <4>3. slots[v][k].index \in DOMAIN heap
        BY <1>1, <4>2 DEF Shapes
      <4> QED
        BY <1>3, <3>1, <4>1, <4>2, <4>3
    <3>2. CASE v = u /\ k = Len(slots[u]) + 1 /\ slots'[v][k] = id
      BY <1>3, <1>4, <3>2
    <3> QED
      BY <1>4, <3>1, <3>2
  <2> QED
    BY <2>1, <2>2 DEF ViewsOf
<1> QED
  BY <1>8, <1>9, <1>12, <1>13, <1>14, <1>15 DEF IInv

LEMMA GrowStep ==
  ASSUME IInv, Grow
  PROVE  IInv'
<1>1. Shapes /\ Placed /\ Versions /\ Answers /\ Hands
  BY DEF IInv
<1>2. PICK id \in IdType : id = [index |-> counter, version |-> 0]
  BY <1>1 DEF Shapes, IdType
<1>3. call[Creator].op = "grow" /\ counter' = counter + 1 /\ Take(id) /\ tombstones' = tombstones
  BY <1>2 DEF Grow
<1>4. counter \in Nat \ {0} /\ counter <= peak + 1 /\ peak \in Nat /\ tombstones \in Seq(IdType)
      /\ slots \in [User -> Seq(IdType)] /\ releases \in Nat
  BY <1>1, <1>3 DEF Shapes, Answers
<1>5. call[Creator].on \in User
  BY <1>1, <1>3, Callers
<1>6. slots' = [slots EXCEPT ![call[Creator].on] = Append(@, id)]
  BY <1>3 DEF Take
<1>7. Placed'
  BY <1>1, <1>2, <1>3, <1>5, <1>6, GrowPlaced
<1>8. \A v \in User : \A k \in 1 .. Len(slots[v]) : slots[v][k].index # id.index
  BY <1>1, <1>2, <1>4, UsedIndex DEF Placed
<1>9. \A i \in 1 .. Len(tombstones') : tombstones'[i].version <= releases
  BY <1>1, <1>3 DEF Versions
<1>10. id.index = counter /\ id.version = 0
  BY <1>2
<1>11. \A s \in 1 .. counter' - 1 : s < counter \/ s = id.index
  BY <1>3, <1>4, <1>10
<1> QED
  BY <1>3, <1>4, <1>7, <1>8, <1>9, <1>10, <1>11, TakeStep

LEMMA PopStep ==
  ASSUME IInv, Pop
  PROVE  IInv'
<1>1. Shapes /\ Placed /\ Versions /\ Answers /\ Hands /\ Bounds
  BY DEF IInv
<1>2. call[Creator].op = "pop" /\ tombstones' = Front(tombstones) /\ Take(Last(tombstones)) /\ counter' = counter
  BY DEF Pop
<1>3. counter \in Nat \ {0} /\ peak \in Nat /\ tombstones \in Seq(IdType) /\ Len(tombstones) >= 2
      /\ slots \in [User -> Seq(IdType)]
  BY <1>1, <1>2 DEF Shapes, Answers
<1>4. /\ Last(tombstones) \in IdType /\ Front(tombstones) \in Seq(IdType)
      /\ Len(tombstones) \in Nat /\ Last(tombstones) = tombstones[Len(tombstones)]
      /\ Len(tombstones') = Len(tombstones) - 1
      /\ \A i \in 1 .. Len(tombstones) - 1 : tombstones'[i] = tombstones[i]
  <2>1. tombstones # <<>>
    BY <1>3, EmptySeq
  <2> QED
    BY <1>2, <1>3, <2>1, FrontLastType, FrontLastElements
<1>5. PICK id \in IdType : id = Last(tombstones)
  BY <1>4
<1>6. call[Creator].on \in User /\ slots' = [slots EXCEPT ![call[Creator].on] = Append(@, id)]
  BY <1>1, <1>2, <1>5, Callers DEF Take
<1>7. Placed'
  BY <1>1, <1>2, <1>3, <1>5, <1>6, PopPlaced
<1>8. Len(tombstones) \in 2 .. Len(tombstones) /\ Len(tombstones) \in 1 .. Len(tombstones)
  BY <1>3, <1>4
<1>9. id.index < counter' /\ id.version <= releases
  BY <1>1, <1>2, <1>4, <1>5, <1>8 DEF Placed, Versions
<1>10. \A v \in User : \A k \in 1 .. Len(slots[v]) : slots[v][k].index # id.index
  BY <1>1, <1>4, <1>5, <1>8 DEF Placed
<1>11. \A i \in 1 .. Len(tombstones') : tombstones'[i].version <= releases
  BY <1>1, <1>4 DEF Versions
<1>12. \A s \in 1 .. counter' - 1 : s < counter
  BY <1>2, <1>3
<1>13. counter' <= peak + 2
  BY <1>1, <1>2, <1>3 DEF Bounds, GrowsForThePeak
<1>14. Take(id) /\ call[Creator].op \in {"grow", "pop"} /\ tombstones' \in Seq(IdType)
       /\ counter' \in Nat \ {0} /\ counter' >= counter
  BY <1>2, <1>3, <1>4, <1>5
<1>15. \A s \in 1 .. counter' - 1 : s < counter \/ s = id.index
  BY <1>12
<1> QED
  BY <1>7, <1>9, <1>10, <1>11, <1>13, <1>14, <1>15, TakeStep

(* A slot comes back to the top of the stack. *)
LEMMA ReleaseStep ==
  ASSUME IInv, NEW t \in Caller, Release(t)
  PROVE  IInv'
<1>1. Shapes /\ Versions /\ Placed /\ Hands /\ Answers /\ Bounds /\ ViewsOf
  BY DEF IInv
<1>2. PICK u \in User : u = call[t].on /\ call[t] = [op |-> "release", on |-> u] /\ call[t] # Idle
  <2>1. call[t].op = "release" /\ Idle.op # "release"
    BY DEF Release, Idle
  <2> QED
    BY <1>1, <2>1, Callers
<1>3. PICK id : id = [slots[u][1] EXCEPT !.version = IF u \in RenderTarget THEN 0 ELSE @ + 1]
  OBVIOUS
<1>4. /\ slots[u] # <<>> /\ slots \in [User -> Seq(IdType)] /\ tombstones \in Seq(IdType)
      /\ Head(slots[u]) = slots[u][1] /\ slots[u][1] \in IdType /\ 1 \in 1 .. Len(slots[u])
  <2>0. call[t].op = "release" /\ call[t].on = u
    BY <1>2
  <2>1. slots[u] # <<>> /\ slots \in [User -> Seq(IdType)] /\ tombstones \in Seq(IdType)
    BY <1>1, <2>0 DEF Hands, Shapes
  <2> QED
    BY <2>1, HeadTailProperties, ElementOfSeq, LenProperties, EmptySeq
<1>5. /\ releases < MaxReleases /\ releases' = releases + 1
      /\ tombstones' = Append(tombstones, id) /\ slots' = [slots EXCEPT ![u] = Tail(@)]
      /\ call' = IF Len(slots[u]) = 1 THEN [call EXCEPT ![t] = Idle] ELSE call
      /\ UNCHANGED <<counter, heap, live, condemned, peak>>
  BY <1>2, <1>3, <1>4 DEF Release
<1>6. /\ slots' \in [User -> Seq(IdType)] /\ \A v \in User : Len(slots[v]) \in Nat
      /\ \A v \in User : Len(slots'[v]) = IF v = u THEN Len(slots[v]) - 1 ELSE Len(slots[v])
      /\ \A v \in User : \A k \in 1 .. Len(slots'[v]) :
           \/ v # u /\ k \in 1 .. Len(slots[v]) /\ slots'[v][k] = slots[v][k]
           \/ v = u /\ k + 1 \in 1 .. Len(slots[u]) /\ slots'[v][k] = slots[u][k + 1]
      /\ \A v \in User : v # u => slots'[v] = slots[v]
  BY <1>4, <1>5, Lost
<1>7. /\ id \in IdType /\ id.index = slots[u][1].index /\ id.version <= releases'
      /\ releases \in Nat /\ releases' \in 0 .. MaxReleases
  <2>1. slots[u][1].version <= releases /\ releases \in Nat /\ MaxReleases \in Nat
    BY <1>1, <1>4, SizesAssumption DEF Versions, Shapes
  <2>2. PICK i \in Nat \ {0}, n \in Nat : slots[u][1] = [index |-> i, version |-> n]
    BY <1>4 DEF IdType
  <2>3. id = [index |-> i, version |-> IF u \in RenderTarget THEN 0 ELSE n + 1]
    BY <1>3, <2>2
  <2>4. n <= releases /\ id.index = i /\ slots[u][1].index = i /\ id.version \in {0, n + 1} /\ id \in IdType
    BY <2>1, <2>2, <2>3 DEF IdType
  <2> QED
    BY <1>5, <2>1, <2>4
<1>8. Placed'
  BY <1>1, <1>4, <1>5, <1>7, ReleasePlaced
<1>9. /\ tombstones' \in Seq(IdType)
      /\ \A i \in 1 .. Len(tombstones') :
           \/ i \in 1 .. Len(tombstones) /\ tombstones'[i] = tombstones[i]
           \/ tombstones'[i] = id
      /\ Len(tombstones') = Len(tombstones) + 1 /\ Len(tombstones) \in Nat
  <2>1. PICK s \in Seq(IdType) : s = tombstones
    BY <1>4
  <2>2. /\ Append(s, id) \in Seq(IdType) /\ Len(s) \in Nat /\ Len(Append(s, id)) = Len(s) + 1
        /\ \A i \in 1 .. Len(Append(s, id)) :
              \/ i \in 1 .. Len(s) /\ Append(s, id)[i] = s[i]
              \/ i = Len(s) + 1 /\ Append(s, id)[i] = id
    BY <1>7, AppendElements
  <2> QED
    BY <1>5, <2>1, <2>2
<1>10. Versions'
  <2>1. \A i \in 1 .. Len(tombstones) : tombstones[i].version \in Nat /\ tombstones[i].version <= releases
    <3>1. \A i \in 1 .. Len(tombstones) : tombstones[i] \in IdType
      BY <1>4, ElementOfSeq
    <3> QED
      BY <1>1, <3>1 DEF Versions, IdType
  <2>2. \A i \in 1 .. Len(tombstones') : tombstones'[i].version <= releases'
    BY <1>5, <1>7, <1>9, <2>1
  <2>3. \A v \in User : \A k \in 1 .. Len(slots[v]) : slots[v][k].version \in Nat /\ slots[v][k].version <= releases
    BY <1>1, <1>4, UsedIndex DEF Versions, IdType
  <2>4. ASSUME NEW v \in User, NEW k \in 1 .. Len(slots'[v]) PROVE slots'[v][k].version <= releases'
    <3>1. PICK j \in 1 .. Len(slots[v]) : slots'[v][k] = slots[v][j]
      BY <1>6
    <3>2. slots[v][j].version \in Nat /\ slots[v][j].version <= releases
      BY <2>3
    <3> QED
      BY <1>5, <1>7, <3>1, <3>2
  <2> QED
    BY <2>2, <2>4 DEF Versions
<1>11. /\ \A c \in Caller : c # t => call'[c] = call[c]
       /\ \/ Len(slots[u]) = 1 /\ call'[t] = Idle
          \/ Len(slots[u]) # 1 /\ call'[t] = call[t]
       /\ call' \in [Caller -> {Idle} \cup [op : Making \cup {"release"}, on : User]]
  BY <1>1, <1>5 DEF Shapes
<1>12. Shapes'
  BY <1>1, <1>5, <1>6, <1>7, <1>9, <1>11 DEF Shapes
<1>13. u \notin live /\ \A i \in 1 .. Len(condemned) : condemned[i] # u
  BY <1>1, <1>2 DEF Hands
<1>14. Hands'
  <2>1. \A v \in User : Len(slots'[v]) <= Parts(v)
    <3>1. \A v \in User : Len(slots[v]) <= Parts(v) /\ Parts(v) \in Nat
      BY <1>1, PartsType DEF Hands
    <3> QED
      BY <1>6, <3>1
  <2>2. \A v \in live : Len(slots'[v]) = Parts(v)
    BY <1>1, <1>6, <1>13 DEF Hands, Shapes
  <2>3. \A i \in 1 .. Len(condemned) : condemned[i] \notin live /\ Len(slots'[condemned[i]]) = Parts(condemned[i])
    <3>1. \A i \in 1 .. Len(condemned) : condemned[i] \in User
      BY <1>1, ElementOfSeq DEF Shapes
    <3> QED
      BY <1>1, <1>6, <1>13, <3>1 DEF Hands
  <2>4. \A c \in Caller : call'[c] # Idle => call[c] # Idle /\ call'[c] = call[c]
    BY <1>2, <1>11
  <2>5. \A c \in Caller : call'[c] # Idle =>
          /\ call'[c].on \notin live
          /\ \A i \in 1 .. Len(condemned) : condemned[i] # call'[c].on
          /\ \A s \in Caller : call'[s] # Idle /\ call'[s].on = call'[c].on => s = c
    BY <1>1, <2>4 DEF Hands
  <2>6. ASSUME NEW c \in Caller, call'[c].op \in Making
        PROVE  c = Creator /\ Len(slots'[call'[c].on]) < Parts(call'[c].on)
    <3>1. Idle.op \notin Making /\ "release" \notin Making
      BY DEF Idle, Making
    <3>2. call'[c] = call[c] /\ c # t /\ call[c] # Idle
      BY <1>2, <1>11, <2>6, <3>1
    <3>3. call[c].on \in User /\ call[c].on # u
      BY <1>1, <1>2, <3>2, Callers DEF Hands
    <3> QED
      BY <1>1, <1>6, <2>6, <3>2, <3>3 DEF Hands
  <2>7. ASSUME NEW c \in Caller, call'[c].op = "release" PROVE slots'[call'[c].on] # <<>>
    <3>1. Idle.op # "release"
      BY DEF Idle
    <3>2. call'[c] = call[c] /\ call[c] # Idle
      BY <2>4, <2>7, <3>1
    <3>3. CASE c = t
      <4>1. Len(slots[u]) # 1 /\ Len(slots[u]) \in Nat /\ Len(slots'[u]) = Len(slots[u]) - 1
        BY <1>2, <1>6, <1>11, <3>2, <3>3
      <4>2. Len(slots'[u]) # 0
        BY <4>1
      <4> QED
        BY <1>2, <3>2, <3>3, <4>2, EmptySeq
    <3>4. CASE c # t
      <4>1. call[c].on \in User /\ call[c].on # u
        BY <1>1, <1>2, <3>2, <3>4, Callers DEF Hands
      <4> QED
        BY <1>1, <1>6, <2>7, <3>2, <4>1 DEF Hands
    <3> QED
      BY <3>3, <3>4
  <2> QED
    BY <1>1, <1>5, <2>1, <2>2, <2>3, <2>5, <2>6, <2>7 DEF Hands, Parts
<1>15. Answers'
  <2>1. Idle.op \notin {"pop", "grow"} /\ Creator \in Caller
    BY DEF Idle, Caller
  <2>2. call'[Creator].op \in {"pop", "grow"} => call'[Creator] = call[Creator]
    BY <1>11, <2>1
  <2> QED
    BY <1>1, <1>5, <1>9, <2>2 DEF Answers
<1>16. Bounds'
  <2>1. InUse(slots') \subseteq InUse(slots)
    <3>1. ASSUME NEW s \in InUse(slots') PROVE s \in InUse(slots)
      <4>1. PICK v \in User : \E k \in 1 .. Len(slots'[v]) : slots'[v][k].index = s
        BY <1>6, UsedIndex
      <4>2. PICK k \in 1 .. Len(slots'[v]) : slots'[v][k].index = s
        BY <4>1
      <4>3. \E j \in 1 .. Len(slots[v]) : slots'[v][k] = slots[v][j]
        BY <1>6
      <4> QED
        BY <1>4, <4>2, <4>3, UsedIndex
    <3> QED
      BY <3>1
  <2>2. IsFiniteSet(InUse(slots)) /\ Cardinality(InUse(slots)) <= peak /\ peak \in Nat
    BY <1>1 DEF Bounds, Held, Shapes
  <2>3. IsFiniteSet(InUse(slots')) /\ Cardinality(InUse(slots')) <= Cardinality(InUse(slots))
    BY <2>1, <2>2, FS_Subset
  <2>4. Cardinality(InUse(slots')) \in Nat /\ Cardinality(InUse(slots)) \in Nat
    BY <2>2, <2>3, FS_CardinalityType
  <2>5. Held' = InUse(slots') /\ Capacity' = Capacity
    BY DEF Held, InUse, Capacity
  <2> QED
    BY <1>1, <1>5, <2>2, <2>3, <2>4, <2>5 DEF Bounds, GrowsForThePeak
<1>17. ViewsOf'
  <2>1. ASSUME NEW v \in User, v \in live \/ (call'[Creator].op \in Making /\ call'[Creator].on = v)
        PROVE  slots'[v] = slots[v] /\ (v \in live \/ (call[Creator].op \in Making /\ call[Creator].on = v))
    <3>1. Idle.op \notin Making /\ "release" \notin Making /\ Creator \in Caller
      BY DEF Idle, Making, Caller
    <3>2. CASE v \in live
      BY <1>6, <1>13, <3>2
    <3>3. CASE call'[Creator].op \in Making /\ call'[Creator].on = v
      <4>1. call'[Creator] = call[Creator] /\ Creator # t /\ call[Creator] # Idle
        BY <1>2, <1>11, <3>1, <3>3
      <4>2. v # u
        BY <1>1, <1>2, <3>1, <3>3, <4>1 DEF Hands
      <4> QED
        BY <1>6, <3>3, <4>1, <4>2
    <3> QED
      BY <2>1, <3>2, <3>3
  <2>2. ASSUME NEW v \in User, v \in live' \/ (call'[Creator].op \in Making /\ call'[Creator].on = v),
               NEW k \in 1 .. Len(slots'[v])
        PROVE  heap'[slots'[v][k].index] = <<v, k>>
    <3>1. slots'[v] = slots[v] /\ (v \in live \/ (call[Creator].op \in Making /\ call[Creator].on = v))
      BY <1>5, <2>1, <2>2
    <3>2. heap[slots[v][k].index] = <<v, k>>
      BY <1>1, <2>2, <3>1 DEF ViewsOf
    <3> QED
      BY <1>5, <3>1, <3>2
  <2> QED
    BY <2>2 DEF ViewsOf
<1> QED
  BY <1>8, <1>10, <1>12, <1>14, <1>15, <1>16, <1>17 DEF IInv

-----------------------------------------------------------------------------
(* The theorems. *)

LEMMA NextIInv ==
  ASSUME IInv, [Next]_vars
  PROVE  IInv'
<1>1. ASSUME NEW u \in User, Create(u) PROVE IInv'
  BY <1>1, CreateStep
<1>2. ASSUME NEW u \in User, DestroyDeferred(u) PROVE IInv'
  BY <1>2, DestroyDeferredStep
<1>3. ASSUME NEW u \in User, DestroyAtOnce(u) PROVE IInv'
  BY <1>3, DestroyAtOnceStep
<1>4. CASE Ask
  BY <1>4, AskStep
<1>5. CASE Grow
  BY <1>5, GrowStep
<1>6. CASE Pop
  BY <1>6, PopStep
<1>7. CASE Collect
  BY <1>7, CollectStep
<1>8. ASSUME NEW t \in Caller, Release(t) PROVE IInv'
  BY <1>8, ReleaseStep
<1>9. CASE UNCHANGED vars
  <2>1. Versions' /\ Placed' /\ Bounds'
    BY <1>9, SlotsStay DEF vars
  <2>2. Shapes' /\ Hands' /\ Answers' /\ ViewsOf'
    BY <1>9 DEF vars, IInv, Shapes, Hands, Answers, ViewsOf, Parts
  <2> QED
    BY <2>1, <2>2 DEF IInv
<1> QED
  BY <1>1, <1>2, <1>3, <1>4, <1>5, <1>6, <1>7, <1>8, <1>9 DEF Next

(* The invariant holds throughout. *)
THEOREM InductiveInvariant ==
  Spec => []IInv
<1>1. Init => IInv
  BY InitIInv
<1>2. IInv /\ [Next]_vars => IInv'
  BY NextIInv
<1> QED
  BY <1>1, <1>2, PTL DEF Spec

(* The heap never has more slots than are counted for it. *)
LEMMA CounterIsSmall ==
  ASSUME IInv
  PROVE  counter \in Nat \ {0} /\ MaxSlots \in Nat \ {0} /\ counter - 1 <= MaxSlots
<1>1. /\ counter \in Nat \ {0} /\ peak \in Nat /\ peak <= Capacity /\ counter - 1 <= peak + 1
  BY DEF IInv, Shapes, Bounds, GrowsForThePeak
<1>2. PICK i \in Nat, t \in Nat, r \in Nat \ {0} :
        i = Cardinality(BlitImage) /\ t = Cardinality(RenderTarget) /\ r = BlitViews
  BY FS_CardinalityType, SizesAssumption
<1>3. PICK p \in Nat : p = i * r
  BY <1>2
<1>4. MaxSlots = p + t + r /\ Capacity = p + t
  BY <1>2, <1>3 DEF MaxSlots, Capacity
<1> QED
  BY <1>1, <1>2, <1>3, <1>4

(* The slots on the stack and those of the users, by index and version. *)
LEMMA IdsAreSmall ==
  ASSUME IInv
  PROVE  /\ \A i \in 1 .. Len(tombstones) : tombstones[i] \in [index : Slot, version : 0 .. MaxReleases]
         /\ \A u \in User : \A k \in 1 .. Len(slots[u]) :
              slots[u][k] \in [index : Slot, version : 0 .. MaxReleases]
<1>1. /\ tombstones \in Seq(IdType) /\ slots \in [User -> Seq(IdType)]
      /\ releases \in 0 .. MaxReleases /\ MaxReleases \in Nat
  BY SizesAssumption DEF IInv, Shapes
<1>2. counter \in Nat \ {0} /\ MaxSlots \in Nat \ {0} /\ counter - 1 <= MaxSlots
  BY CounterIsSmall
<1>3. ASSUME NEW id \in IdType, id.index < counter \/ id.index = 1, id.version <= releases
      PROVE  id \in [index : Slot, version : 0 .. MaxReleases]
  <2>1. PICK i \in Nat \ {0}, n \in Nat : id = [index |-> i, version |-> n]
    BY DEF IdType
  <2>2. i \in Slot /\ n \in 0 .. MaxReleases
    BY <1>1, <1>2, <1>3, <2>1 DEF Slot
  <2> QED
    BY <2>1, <2>2
<1>4. ASSUME NEW i \in 1 .. Len(tombstones)
      PROVE  tombstones[i] \in [index : Slot, version : 0 .. MaxReleases]
  <2>1. tombstones[i] \in IdType
    BY <1>1, ElementOfSeq
  <2>2. tombstones[i].index < counter \/ tombstones[i].index = 1
    <3>1. CASE i = 1
      BY <3>1 DEF IInv, Placed, Sentinel
    <3>2. CASE i # 1
      <4>1. i \in 2 .. Len(tombstones)
        BY <1>1, <3>2, LenProperties
      <4> QED
        BY <4>1 DEF IInv, Placed
    <3> QED
      BY <3>1, <3>2
  <2> QED
    BY <1>3, <2>1, <2>2 DEF IInv, Versions
<1>5. ASSUME NEW u \in User, NEW k \in 1 .. Len(slots[u])
      PROVE  slots[u][k] \in [index : Slot, version : 0 .. MaxReleases]
  <2>1. slots[u][k] \in IdType
    BY <1>1, UsedIndex
  <2> QED
    BY <1>3, <2>1 DEF IInv, Placed, Versions
<1> QED
  BY <1>4, <1>5

(* The types of the slots, and that there are never more than MaxSlots. *)
THEOREM TypeCorrect ==
  Spec => []TypeOK
<1>1. IInv => TypeOK
  <2> SUFFICES ASSUME IInv PROVE TypeOK
    OBVIOUS
  <2>1. /\ tombstones \in Seq(IdType) /\ slots \in [User -> Seq(IdType)]
        /\ heap \in [1 .. counter - 1 -> User \X (1 .. BlitViews)]
        /\ live \subseteq User /\ condemned \in Seq(User)
    BY DEF IInv, Shapes
  <2>2. counter \in Nat \ {0} /\ MaxSlots \in Nat \ {0} /\ counter - 1 <= MaxSlots
    BY CounterIsSmall
  <2>3. tombstones \in Seq([index : Slot, version : 0 .. MaxReleases])
    <3>1. Len(tombstones) \in Nat /\ tombstones = [i \in 1 .. Len(tombstones) |-> tombstones[i]]
      BY <2>1, LenProperties
    <3>2. \A i \in 1 .. Len(tombstones) : tombstones[i] \in [index : Slot, version : 0 .. MaxReleases]
      BY IdsAreSmall
    <3> QED
      <4>1. PICK n \in Nat : n = Len(tombstones)
        BY <3>1
      <4>2. PICK S : S = [index : Slot, version : 0 .. MaxReleases]
        OBVIOUS
      <4>3. [i \in 1 .. n |-> tombstones[i]] \in Seq(S)
        BY <3>2, <4>1, <4>2, IsASeq
      <4> QED
        BY <3>1, <4>1, <4>2, <4>3
  <2>4. counter \in 1 .. MaxSlots + 1
    BY <2>2
  <2>5. \A s \in DOMAIN heap : s < counter /\ heap[s] \in User \X (1 .. BlitViews)
    BY <2>1, <2>2
  <2>6. ASSUME NEW u \in User
        PROVE  Len(slots[u]) <= Parts(u) /\ Range(slots[u]) \subseteq [index : Slot, version : 0 .. MaxReleases]
    <3>1. DOMAIN slots[u] = 1 .. Len(slots[u])
      BY <2>1, LenProperties
    <3>2. \A k \in 1 .. Len(slots[u]) : slots[u][k] \in [index : Slot, version : 0 .. MaxReleases]
      BY IdsAreSmall
    <3> QED
      BY <3>1, <3>2 DEF IInv, Hands, Range
  <2>7. \A t \in Caller : call[t] = Idle \/ call[t].on \in User
    BY Callers DEF IInv
  <2> QED
    BY <2>1, <2>3, <2>4, <2>5, <2>6, <2>7 DEF TypeOK
<1> QED
  BY <1>1, InductiveInvariant, PTL

(* No slot is lost, and none is in two places. *)
THEOREM EverySlotIsSomewhere ==
  Spec => []NoSlotLostOrShared
<1>1. IInv => NoSlotLostOrShared
  <2> SUFFICES ASSUME IInv PROVE NoSlotLostOrShared
    OBVIOUS
  <2>1. /\ tombstones \in Seq(IdType) /\ slots \in [User -> Seq(IdType)] /\ counter \in Nat \ {0}
        /\ Len(tombstones) \in Nat /\ Len(tombstones) >= 1 /\ tombstones[1] = Sentinel
    BY LenProperties DEF IInv, Shapes, Placed
  <2>2. tombstones # <<>>
    BY <2>1, EmptySeq
  <2>3. Cardinality(Returned) = Len(tombstones) - 1
    <3> DEFINE f == [k \in 2 .. Len(tombstones) |-> tombstones[k].index]
    <3>1. IsFiniteSet(2 .. Len(tombstones)) /\ Cardinality(2 .. Len(tombstones)) = Len(tombstones) - 1
      BY <2>1, FS_Interval
    <3>2. f \in Surjection(2 .. Len(tombstones), Returned)
      BY DEF Returned, Surjection
    <3>3. \A i, j \in 2 .. Len(tombstones) : f[i] = f[j] => i = j
      BY DEF IInv, Placed
    <3>4. f \in Injection(2 .. Len(tombstones), Returned)
      BY <3>3 DEF Returned, Injection, IsInjective
    <3> HIDE DEF f
    <3> QED
      BY <3>1, <3>2, <3>4, FS_Surjection
  <2>4. /\ \A s : s \in Returned <=> \E i \in 2 .. Len(tombstones) : tombstones[i].index = s
        /\ \A s : s \in Held <=> \E u \in User : \E k \in 1 .. Len(slots[u]) : slots[u][k].index = s
    BY <2>1, UsedIndex DEF Returned, Held
  <2>5. Returned \cap Held = {}
    BY <2>4 DEF IInv, Placed
  <2>6. Returned \cup Held = 1 .. counter - 1
    <3>1. \A i \in 2 .. Len(tombstones) : tombstones[i].index \in Nat \ {0} /\ tombstones[i].index < counter
      <4>1. \A i \in 2 .. Len(tombstones) : i \in 1 .. Len(tombstones)
        BY <2>1
      <4>2. \A i \in 2 .. Len(tombstones) : tombstones[i] \in IdType
        BY <2>1, <4>1, ElementOfSeq
      <4> QED
        BY <4>2 DEF IInv, Placed, IdType
    <3>2. \A u \in User : \A k \in 1 .. Len(slots[u]) : slots[u][k].index \in Nat \ {0} /\ slots[u][k].index < counter
      BY <2>1, UsedIndex DEF IInv, Placed
    <3>3. ASSUME NEW s \in Returned \cup Held PROVE s \in 1 .. counter - 1
      <4>1. s \in Nat \ {0} /\ s < counter
        BY <2>4, <3>1, <3>2
      <4> QED
        BY <2>1, <4>1
    <3>4. ASSUME NEW s \in 1 .. counter - 1 PROVE s \in Returned \cup Held
      BY <2>4 DEF IInv, Placed
    <3> QED
      BY <3>3, <3>4
  <2>7. \A u, v \in User : \A j \in DOMAIN slots[u], k \in DOMAIN slots[v] :
          slots[u][j].index = slots[v][k].index => u = v /\ j = k
    <3>1. \A u \in User : DOMAIN slots[u] = 1 .. Len(slots[u])
      BY <2>1, LenProperties
    <3>2. \A u, v \in User : \A j \in 1 .. Len(slots[u]), k \in 1 .. Len(slots[v]) :
            slots[u][j].index = slots[v][k].index => u = v /\ j = k
      BY DEF IInv, Placed
    <3> QED
      BY <3>1, <3>2
  <2> QED
    BY <2>1, <2>2, <2>3, <2>5, <2>6, <2>7 DEF NoSlotLostOrShared
<1> QED
  BY <1>1, InductiveInvariant, PTL

(* A live user finds its own views in its slots. *)
THEOREM LiveViewsAreOwn ==
  Spec => []ViewsAreOwn
<1>1. IInv => ViewsAreOwn
  <2> SUFFICES ASSUME IInv, NEW u \in live, NEW k \in DOMAIN slots[u]
               PROVE  heap[slots[u][k].index] = <<u, k>>
    BY DEF ViewsAreOwn
  <2>1. u \in User /\ k \in 1 .. Len(slots[u])
    BY LenProperties DEF IInv, Shapes
  <2> QED
    BY <2>1 DEF IInv, ViewsOf
<1> QED
  BY <1>1, InductiveInvariant, PTL

(* The heap has one slot more than there were ever views at once, at most. *)
THEOREM HeapIsLargeEnough ==
  Spec => []GrowsForThePeak
<1>1. IInv => GrowsForThePeak
  BY DEF IInv, Bounds
<1> QED
  BY <1>1, InductiveInvariant, PTL

(* No slot is lost or shared, views are where their users look for them,   *)
(* and the heap is large enough for the most views there were at once.     *)
THEOREM SlotsStayInOrder ==
  Spec => []SlotsInOrder
<1>1. NoSlotLostOrShared /\ ViewsAreOwn /\ GrowsForThePeak => SlotsInOrder
  BY DEF SlotsInOrder
<1> QED
  BY <1>1, EverySlotIsSomewhere, LiveViewsAreOwn, HeapIsLargeEnough, PTL

-----------------------------------------------------------------------------
(* The slots implement a table of handles. *)

(* What is held is what some user holds at some place. *)
LEMMA HandleHeld ==
  ASSUME NEW h
  PROVE  h \in Handles <=> \E u \in User : \E k \in 1 .. Len(slots[u]) : h = Handle(u, k)
BY DEF Handles

LEMMA HandleHeldNext ==
  ASSUME NEW h
  PROVE  h \in Handles' <=> \E u \in User : \E k \in 1 .. Len(slots'[u]) : h = Handle(u, k)'
BY DEF Handles

(* Slots that stay with their parts are the handles of before. *)
LEMMA HandlesStay ==
  ASSUME slots' = slots, \A u \in User : \A k \in 1 .. Len(slots[u]) : PartOf(u, k)' = PartOf(u, k)
  PROVE  Handles' = Handles
<1>1. \A u \in User : \A k \in 1 .. Len(slots[u]) : Handle(u, k)' = Handle(u, k)
  BY DEF Handle
<1>2. \A h : h \in Handles' <=> h \in Handles
  BY <1>1, HandleHeld, HandleHeldNext
<1> QED
  BY <1>2

(* A part is counted from one, whether or not those before it are gone. *)
LEMMA PartIsOne ==
  ASSUME Shapes, Hands, NEW u \in User, NEW k \in 1 .. Len(slots[u])
  PROVE  PartOf(u, k) \in 1 .. BlitViews
<1>1. Len(slots[u]) \in Nat /\ Len(slots[u]) <= Parts(u) /\ Parts(u) \in Nat \ {0} /\ Parts(u) <= BlitViews
  BY LenProperties, PartsType DEF Shapes, Hands
<1>2. k \in Nat \ {0} /\ k <= Len(slots[u]) /\ BlitViews \in Nat
  BY <1>1, SizesAssumption
<1>3. Parts(u) - Len(slots[u]) + k \in 1 .. BlitViews /\ k \in 1 .. BlitViews
  BY <1>1, <1>2
<1> QED
  BY <1>3 DEF PartOf

(* The handles there can be. *)
LEMMA HandleType ==
  ASSUME IInv, NEW u \in User, NEW k \in 1 .. Len(slots[u])
  PROVE  Handle(u, k) \in [index : Slot, version : 0 .. MaxReleases, user : User, part : 1 .. BlitViews]
<1>1. PartOf(u, k) \in 1 .. BlitViews
  BY PartIsOne DEF IInv
<1>2. slots[u][k] \in [index : Slot, version : 0 .. MaxReleases]
  BY IdsAreSmall
<1> QED
  BY <1>1, <1>2 DEF Handle

(* A slot taken is a handle acquired: by a part that has none, of a user   *)
(* that is being made, at an index that no part of any user has.           *)
LEMMA TakeHolds ==
  ASSUME IInv, call[Creator].op \in {"grow", "pop"}, NEW id \in [index : Slot, version : 0 .. MaxReleases],
         id \in IdType, Take(id), \A v \in User : \A k \in 1 .. Len(slots[v]) : slots[v][k].index # id.index
  PROVE  Table!Next
<1>1. /\ Shapes /\ Hands /\ slots \in [User -> Seq(IdType)] /\ Creator \in Caller
      /\ call[Creator] # Idle /\ call[Creator].op \in Making /\ call[Creator].op # "release"
  BY Callers DEF IInv, Shapes, Making, Idle
<1>2. PICK u \in User : u = call[Creator].on
  BY <1>1, Callers
<1>3. slots' = [slots EXCEPT ![u] = Append(@, id)]
  BY <1>2 DEF Take
<1>4. /\ \A v \in User : Len(slots[v]) \in Nat
      /\ \A v \in User : Len(slots'[v]) = IF v = u THEN Len(slots[v]) + 1 ELSE Len(slots[v])
      /\ \A v \in User : \A k \in 1 .. Len(slots'[v]) :
              \/ k \in 1 .. Len(slots[v]) /\ slots'[v][k] = slots[v][k]
              \/ v = u /\ k = Len(slots[u]) + 1 /\ slots'[v][k] = id
      /\ \A v \in User : \A k \in 1 .. Len(slots[v]) :
              k \in 1 .. Len(slots'[v]) /\ slots'[v][k] = slots[v][k]
      /\ Len(slots[u]) + 1 \in 1 .. Len(slots'[u]) /\ slots'[u][Len(slots[u]) + 1] = id
  BY <1>1, <1>3, Gained
<1>5. /\ \A t \in Caller : t # Creator => call'[t] = call[t]
      /\ call'[Creator].op # "release"
  BY <1>1 DEF Take, Shapes, Idle
<1>6. \A v : Returning(v)' <=> Returning(v)
  BY <1>1, <1>5 DEF Returning
<1>7. ~Returning(u)
  <2>1. ASSUME NEW t \in Caller, call[t].op = "release", call[t].on = u PROVE FALSE
    <3>1. call[t] # Idle
      BY <2>1 DEF Idle
    <3>2. t = Creator
      BY <1>1, <1>2, <2>1, <3>1 DEF Hands
    <3> QED
      BY <1>1, <2>1, <3>2
  <2> QED
    BY <2>1 DEF Returning
<1>8. \A v \in User : \A k \in 1 .. Len(slots[v]) : Handle(v, k)' = Handle(v, k)
  <2>1. ASSUME NEW v \in User, NEW k \in 1 .. Len(slots[v]) PROVE PartOf(v, k)' = PartOf(v, k)
    <3>1. CASE v = u
      BY <1>6, <1>7, <3>1 DEF PartOf
    <3>2. CASE v # u
      <4>1. Len(slots'[v]) = Len(slots[v])
        BY <1>4, <3>2
      <4> QED
        BY <1>6, <4>1 DEF PartOf
    <3> QED
      BY <3>1, <3>2
  <2> QED
    BY <1>4, <2>1 DEF Handle
<1>9. PICK n : n = Len(slots[u]) + 1
  OBVIOUS
<1>10. PICK new : new = [index |-> id.index, version |-> id.version, user |-> u, part |-> n]
  OBVIOUS
<1>11. n \in 1 .. Len(slots'[u]) /\ Handle(u, n)' = new
  <2>1. PartOf(u, n)' = n
    BY <1>6, <1>7 DEF PartOf
  <2>2. n \in 1 .. Len(slots'[u]) /\ slots'[u][n] = id
    BY <1>4, <1>9
  <2> QED
    BY <1>10, <2>1, <2>2 DEF Handle
<1>12. Handles' = Handles \cup {new}
  <2>1. ASSUME NEW h \in Handles' PROVE h \in Handles \cup {new}
    <3>1. PICK v \in User : \E k \in 1 .. Len(slots'[v]) : h = Handle(v, k)'
      BY HandleHeldNext
    <3>2. PICK k \in 1 .. Len(slots'[v]) : h = Handle(v, k)'
      BY <3>1
    <3>3. CASE k \in 1 .. Len(slots[v])
      BY <1>8, <3>2, <3>3, HandleHeld
    <3>4. CASE v = u /\ k = Len(slots[u]) + 1
      BY <1>9, <1>11, <3>2, <3>4
    <3> QED
      BY <1>4, <3>3, <3>4
  <2>2. ASSUME NEW h \in Handles PROVE h \in Handles'
    <3>1. PICK v \in User : \E k \in 1 .. Len(slots[v]) : h = Handle(v, k)
      BY HandleHeld
    <3>2. PICK k \in 1 .. Len(slots[v]) : h = Handle(v, k)
      BY <3>1
    <3>3. k \in 1 .. Len(slots'[v]) /\ h = Handle(v, k)'
      BY <1>4, <1>8, <3>2
    <3> QED
      BY <3>3, HandleHeldNext
  <2>3. new \in Handles'
    BY <1>11, HandleHeldNext
  <2> QED
    BY <2>1, <2>2, <2>3
<1>13. \A h \in Handles : h.index # new.index
  <2>1. ASSUME NEW h \in Handles PROVE h.index # new.index
    <3>1. PICK v \in User : \E k \in 1 .. Len(slots[v]) : h = Handle(v, k)
      BY HandleHeld
    <3>2. PICK k \in 1 .. Len(slots[v]) : h = Handle(v, k)
      BY <3>1
    <3>3. h.index = slots[v][k].index
      BY <3>2 DEF Handle
    <3> QED
      BY <1>10, <3>3
  <2> QED
    BY <2>1
<1>14. new \in [index : Slot, version : 0 .. MaxReleases, user : User, part : 1 .. BlitViews]
  <2>1. Len(slots[u]) < Parts(u) /\ Parts(u) \in Nat /\ Parts(u) <= BlitViews
    BY <1>1, <1>2, PartsType DEF Hands
  <2>2. Len(slots[u]) + 1 \in 1 .. BlitViews
    BY <1>4, <2>1, SizesAssumption
  <2> QED
    BY <1>9, <1>10, <2>2
<1>15. Handles' # Handles
  BY <1>12, <1>13
<1> QED
  BY <1>12, <1>13, <1>14, <1>15 DEF Table!Next, Table!Acquire

(* A slot returned is a handle released: the first one left of a user that *)
(* is being destroyed; its other parts stay what they were.                *)
LEMMA ReleaseReturns ==
  ASSUME IInv, NEW t \in Caller, Release(t)
  PROVE  Table!Next
<1>1. Shapes /\ Hands /\ slots \in [User -> Seq(IdType)]
  BY DEF IInv, Shapes
<1>2. call[t].op = "release" /\ call[t] # Idle
  BY DEF Release, Idle
<1>3. PICK u \in User : u = call[t].on
  BY <1>1, <1>2, Callers
<1>4. slots[u] # <<>> /\ slots' = [slots EXCEPT ![u] = Tail(@)]
  BY <1>1, <1>2, <1>3 DEF Hands, Release
<1>5. /\ \A v \in User : Len(slots[v]) \in Nat
      /\ 1 \in 1 .. Len(slots[u])
      /\ \A v \in User : Len(slots'[v]) = IF v = u THEN Len(slots[v]) - 1 ELSE Len(slots[v])
      /\ \A v \in User : \A k \in 1 .. Len(slots'[v]) :
              \/ v # u /\ k \in 1 .. Len(slots[v]) /\ slots'[v][k] = slots[v][k]
              \/ v = u /\ k + 1 \in 1 .. Len(slots[u]) /\ slots'[v][k] = slots[u][k + 1]
      /\ \A v \in User : v # u => slots'[v] = slots[v]
      /\ \A k \in 1 .. Len(slots[u]) : k # 1 =>
              k - 1 \in 1 .. Len(slots'[u]) /\ slots'[u][k - 1] = slots[u][k]
  BY <1>1, <1>4, Lost
<1>6. Returning(u)
  BY <1>2, <1>3 DEF Returning
<1>7. call' = IF Len(slots[u]) = 1 THEN [call EXCEPT ![t] = Idle] ELSE call
  BY <1>3 DEF Release
<1>8. \A v \in User : v # u => (Returning(v)' <=> Returning(v))
  <2>1. DOMAIN call = Caller
    BY <1>1 DEF Shapes
  <2>2. \A s \in Caller : s # t => call'[s] = call[s]
    BY <1>7, <2>1
  <2>3. call'[t] = Idle \/ call'[t] = call[t]
    BY <1>7, <2>1
  <2>4. Idle.op # "release"
    BY DEF Idle
  <2> QED
    BY <1>3, <2>2, <2>3, <2>4 DEF Returning
<1>9. Len(slots[u]) # 1 => Returning(u)'
  BY <1>6, <1>7 DEF Returning
<1>10. \A v \in User : \A k \in 1 .. Len(slots'[v]) :
         Handle(v, k)' = IF v = u THEN Handle(u, k + 1) ELSE Handle(v, k)
  <2>1. ASSUME NEW v \in User, v # u, NEW k \in 1 .. Len(slots'[v]) PROVE Handle(v, k)' = Handle(v, k)
    BY <1>5, <1>8, <2>1 DEF Handle, PartOf
  <2>2. ASSUME NEW k \in 1 .. Len(slots'[u]) PROVE Handle(u, k)' = Handle(u, k + 1)
    <3>1. Len(slots[u]) \in Nat /\ Len(slots'[u]) = Len(slots[u]) - 1 /\ slots'[u][k] = slots[u][k + 1]
      BY <1>5
    <3>2. k \in Nat /\ Len(slots[u]) # 1
      BY <3>1
    <3>3. Parts(u) \in Nat
      BY PartsType
    <3>4. \A m, n, o \in Nat : m - (n - 1) + o = m - n + (o + 1)
      OBVIOUS
    <3>5. Parts(u) - (Len(slots[u]) - 1) + k = Parts(u) - Len(slots[u]) + (k + 1)
      BY <3>1, <3>2, <3>3, <3>4, Zenon
    <3>6. PartOf(u, k)' = PartOf(u, k + 1)
      BY <1>6, <1>9, <3>1, <3>2, <3>5 DEF PartOf, Parts
    <3> QED
      BY <3>1, <3>6 DEF Handle
  <2> QED
    BY <2>1, <2>2
<1>11. PICK old : old = Handle(u, 1)
  OBVIOUS
<1>12. Handles' = Handles \ {old}
  <2>1. ASSUME NEW h \in Handles' PROVE h \in Handles /\ h # old
    <3>1. PICK v \in User : \E k \in 1 .. Len(slots'[v]) : h = Handle(v, k)'
      BY HandleHeldNext
    <3>2. PICK k \in 1 .. Len(slots'[v]) : h = Handle(v, k)'
      BY <3>1
    <3>3. PICK j \in 1 .. Len(slots[v]) : h = Handle(v, j) /\ (v = u => j = k + 1)
      BY <1>5, <1>10, <3>2
    <3>4. v = u => j # 1
      BY <3>3
    <3>5. slots[v][j].index # slots[u][1].index
      BY <1>5, <3>4 DEF IInv, Placed
    <3>6. h.index # old.index
      BY <1>11, <3>3, <3>5 DEF Handle
    <3> QED
      BY <3>3, <3>6, HandleHeld
  <2>2. ASSUME NEW h \in Handles, h # old PROVE h \in Handles'
    <3>1. PICK v \in User : \E k \in 1 .. Len(slots[v]) : h = Handle(v, k)
      BY HandleHeld
    <3>2. PICK k \in 1 .. Len(slots[v]) : h = Handle(v, k)
      BY <3>1
    <3>3. CASE v # u
      <4>1. k \in 1 .. Len(slots'[v]) /\ h = Handle(v, k)'
        BY <1>5, <1>10, <3>2, <3>3
      <4> QED
        BY <4>1, HandleHeldNext
    <3>4. CASE v = u
      <4>1. k # 1
        BY <1>11, <2>2, <3>2, <3>4
      <4>2. k - 1 \in 1 .. Len(slots'[u]) /\ (k - 1) + 1 = k
        BY <1>5, <3>4, <4>1
      <4>3. h = Handle(u, k - 1)'
        BY <1>10, <3>2, <3>4, <4>2
      <4> QED
        BY <4>2, <4>3, HandleHeldNext
    <3> QED
      BY <3>3, <3>4
  <2> QED
    BY <2>1, <2>2
<1>13. old \in Handles
  BY <1>5, <1>11, HandleHeld
<1>14. old \in [index : Slot, version : 0 .. MaxReleases, user : User, part : 1 .. BlitViews]
  BY <1>5, <1>11, HandleType
<1> QED
  BY <1>12, <1>13, <1>14 DEF Table!Next, Table!Release

(* The slots of a user that comes to be destroyed are those of all its     *)
(* parts, so the first in its hands is the first.                          *)
LEMMA BeginReturning ==
  ASSUME IInv, NEW t \in Caller, NEW u \in User, call[t] = Idle, Len(slots[u]) = Parts(u),
         call' = [call EXCEPT ![t] = [op |-> "release", on |-> u]], slots' = slots
  PROVE  Handles' = Handles
<1>1. DOMAIN call = Caller /\ slots \in [User -> Seq(IdType)]
  BY DEF IInv, Shapes
<1>2. /\ \A s \in Caller : s # t => call'[s] = call[s]
      /\ call'[t] = [op |-> "release", on |-> u] /\ call[t].op # "release"
  BY <1>1 DEF Idle
<1>3. \A v \in User : v # u => (Returning(v)' <=> Returning(v))
  BY <1>2 DEF Returning
<1>4. ASSUME NEW v \in User, NEW k \in 1 .. Len(slots[v]) PROVE PartOf(v, k)' = PartOf(v, k)
  <2>1. CASE v # u
    BY <1>3, <2>1 DEF PartOf
  <2>2. CASE v = u
    <3>1. Len(slots[u]) \in Nat /\ k \in Nat /\ Parts(u) - Len(slots[u]) + k = k
      BY <1>1, <2>2, LenProperties
    <3> QED
      BY <2>2, <3>1 DEF PartOf, Parts
  <2> QED
    BY <2>1, <2>2
<1> QED
  BY <1>4, HandlesStay

(* A call that is about something else than returning leaves who returns. *)
LEMMA NoneBegins ==
  ASSUME slots' = slots, DOMAIN call = Caller, NEW c, c.op # "release",
         call[Creator].op # "release", call' = [call EXCEPT ![Creator] = c]
  PROVE  Handles' = Handles
<1>1. Creator \in Caller
  BY DEF Caller
<1>2. call'[Creator] = c /\ \A s \in Caller : s # Creator => call'[s] = call[s]
  BY <1>1
<1>3. \A v : Returning(v)' <=> Returning(v)
  BY <1>1, <1>2 DEF Returning
<1>4. \A u \in User : \A k \in 1 .. Len(slots[u]) : PartOf(u, k)' = PartOf(u, k)
  BY <1>3 DEF PartOf
<1> QED
  BY <1>4, HandlesStay

(* Taking a slot is acquiring a handle, returning one is releasing it; the *)
(* other steps leave the handles alone.                                    *)
LEMMA StepsOfTable ==
  ASSUME IInv, [Next]_vars
  PROVE  [Table!Next]_Handles
<1>1. /\ Shapes /\ Placed /\ Answers /\ Hands /\ Bounds /\ slots \in [User -> Seq(IdType)]
      /\ tombstones \in Seq(IdType) /\ counter \in Nat \ {0} /\ peak \in Nat /\ DOMAIN call = Caller
  BY DEF IInv, Shapes
<1>2. CASE Grow
  <2>1. call[Creator].op = "grow" /\ Take([index |-> counter, version |-> 0])
    BY <1>2 DEF Grow
  <2>2. counter <= MaxSlots /\ MaxSlots \in Nat
    <3>1. Capacity \in Nat
      <4>1. Cardinality(BlitImage) \in Nat /\ Cardinality(RenderTarget) \in Nat /\ BlitViews \in Nat
        BY FS_CardinalityType, SizesAssumption
      <4> QED
        BY <4>1 DEF Capacity
    <3>2. counter - 1 <= Capacity
      BY <1>1, <2>1, <3>1 DEF Answers, Bounds
    <3>3. MaxSlots = Capacity + BlitViews /\ BlitViews \in Nat \ {0}
      BY SizesAssumption DEF MaxSlots, Capacity
    <3> QED
      BY <1>1, <3>1, <3>2, <3>3
  <2>3. PICK id : id = [index |-> counter, version |-> 0]
    OBVIOUS
  <2>4. id \in IdType /\ id \in [index : Slot, version : 0 .. MaxReleases]
    <3>1. counter \in Slot /\ 0 \in 0 .. MaxReleases
      BY <1>1, <2>2, SizesAssumption DEF Slot
    <3> QED
      BY <1>1, <2>3, <3>1 DEF IdType
  <2>5. \A v \in User : \A k \in 1 .. Len(slots[v]) : slots[v][k].index # id.index
    BY <1>1, <2>3, UsedIndex DEF Placed
  <2> QED
    BY <2>1, <2>3, <2>4, <2>5, TakeHolds
<1>3. CASE Pop
  <2>1. call[Creator].op = "pop" /\ Take(Last(tombstones)) /\ Len(tombstones) >= 2 /\ tombstones # <<>>
    BY <1>1, <1>3, EmptySeq DEF Pop, Answers
  <2>2. /\ Last(tombstones) \in IdType /\ Last(tombstones) = tombstones[Len(tombstones)]
        /\ Len(tombstones) \in 2 .. Len(tombstones) /\ Len(tombstones) \in 1 .. Len(tombstones)
    BY <1>1, <2>1, FrontLastType, FrontLastElements
  <2>3. PICK id \in IdType : id = Last(tombstones) /\ id = tombstones[Len(tombstones)]
    BY <2>2
  <2>4. id \in [index : Slot, version : 0 .. MaxReleases]
    BY <2>2, <2>3, IdsAreSmall
  <2>5. \A v \in User : \A k \in 1 .. Len(slots[v]) : slots[v][k].index # id.index
    BY <1>1, <2>2, <2>3 DEF Placed
  <2> QED
    BY <2>1, <2>3, <2>4, <2>5, TakeHolds
<1>4. ASSUME NEW t \in Caller, Release(t) PROVE Table!Next
  BY <1>4, ReleaseReturns
<1>5. ASSUME NEW u \in User, Create(u) PROVE Handles' = Handles
  <2>1. PICK c : c = [op |-> "acquire", on |-> u]
    OBVIOUS
  <2>2. c.op # "release" /\ call[Creator].op # "release" /\ slots' = slots /\ call' = [call EXCEPT ![Creator] = c]
    BY <1>5, <2>1 DEF Create, Idle
  <2> QED
    BY <1>1, <2>2, NoneBegins
<1>6. CASE Ask
  <2>1. PICK c : c = [call[Creator] EXCEPT !.op = IF Len(tombstones) = 1 THEN "grow" ELSE "pop"]
    OBVIOUS
  <2>2. call[Creator].op = "acquire" /\ call' = [call EXCEPT ![Creator] = c] /\ slots' = slots
    BY <1>6, <2>1 DEF Ask
  <2>3. call[Creator] \in [op : Making \cup {"release"}, on : User]
    BY <1>1, <2>2, Callers DEF Idle
  <2>4. c.op # "release" /\ call[Creator].op # "release"
    BY <2>1, <2>2, <2>3
  <2> QED
    BY <1>1, <2>2, <2>4, NoneBegins
<1>7. ASSUME NEW u \in User, DestroyDeferred(u) PROVE Handles' = Handles
  BY <1>7, HandlesStay DEF DestroyDeferred, PartOf, Returning
<1>8. ASSUME NEW u \in User, DestroyAtOnce(u) PROVE Handles' = Handles
  BY <1>1, <1>8, Callers, BeginReturning DEF DestroyAtOnce, Hands
<1>9. CASE Collect
  <2>1. PICK u : u = Head(condemned)
    OBVIOUS
  <2>2. u \in User /\ u = condemned[1] /\ 1 \in 1 .. Len(condemned)
    BY <1>1, <1>9, <2>1, EmptySeq, HeadTailProperties DEF Collect, Shapes
  <2>3. Len(slots[u]) = Parts(u)
    BY <1>1, <2>2 DEF Hands
  <2> QED
    BY <1>1, <1>9, <2>1, <2>2, <2>3, Callers, BeginReturning DEF Collect
<1>10. CASE UNCHANGED vars
  BY <1>10, HandlesStay DEF vars, PartOf, Returning
<1> QED
  BY <1>2, <1>3, <1>4, <1>5, <1>6, <1>7, <1>8, <1>9, <1>10 DEF Next

(* The slots of the heap implement the table of handles: a slot goes to a  *)
(* part of a user only when no part of any user holds one of its index,    *)
(* and stays with that part, version and all, until it is returned.        *)
THEOREM SlotsAreATable ==
  Spec => SlotTableSpec
<1>1. Init => Table!Init
  <2> SUFFICES ASSUME Init PROVE Table!Init
    OBVIOUS
  <2>1. \A u \in User : slots[u] = <<>>
    BY DEF Init
  <2>2. \A u \in User : 1 .. Len(slots[u]) = {}
    BY <2>1
  <2>3. Handles = {}
    BY <2>2 DEF Handles
  <2> QED
    BY <2>3 DEF Table!Init
<1>2. IInv /\ [Next]_vars => [Table!Next]_Handles
  BY StepsOfTable
<1> QED
  BY <1>1, <1>2, InductiveInvariant, PTL DEF Spec, SlotTableSpec, Table!Spec

-----------------------------------------------------------------------------
(* D3DBindings *)

(* What a list does after a blit, until it sets its own state again.       *)
BlitsAreNoted ==
  /\ bindingsPass => "graphics" \in Flags /\ bindingsState = "open"
  /\ bindingsState = "closed" => ~blit /\ last = Bindings!Unbound
  /\ bindingsState = "open" => signature = IF blit THEN Bindings!Blit ELSE "main"
  /\ blit => bindingsAsked.blit /\ bindingsPipeline \notin Raster
(* Notes that agree on a table name the heap that is set.                  *)
HeapsFollowNotes ==
  bindingsState = "open" /\ ~blit =>
    \A t \in Bindings!Table :
      (\A p \in Flags : last[p] = t) => heaps = [views |-> t, samplers |-> "main"]
(* In a list without blits the root parameters are those set last.         *)
RootFollowsNotes ==
  bindingsState = "open" /\ ~bindingsAsked.blit =>
    /\ \A p \in Flags : /\ root[p].samplers /\ (p = "graphics" => root[p].draw)
                        /\ last[p] # Null => root[p].table = last[p]
    /\ bindingsPipeline \in Specialised \cap Raster => root.graphics.spec = bindingsPipeline
    /\ bindingsPipeline \in Specialised \cap Compute => root.compute.spec = bindingsPipeline
    /\ bindingsAsked.constants => root.graphics.constants
    /\ bindingsAsked.uniforms => root.graphics.uniforms

BindingInv == Bindings!TypeOK /\ BlitsAreNoted /\ HeapsFollowNotes /\ RootFollowsNotes

(* The flush before a draw, a dispatch or after a clear: the table for     *)
(* what is pending is noted, in the heap that is set, and a root           *)
(* parameter, but for graphics under the root signature of blits.          *)
LEMMA FlushBinds ==
  ASSUME NEW was \in [{"graphics", "compute"} -> Bindings!Table \cup {Null}], NEW set,
         bindingsPending \in Uav \cup {Null},
         root \in [{"graphics", "compute"} -> Bindings!Parameters],
         Bindings!FlushPendingUnorderedAccessViewBinds(was, set)
  PROVE  /\ Bindings!Wanted \in Bindings!Table /\ Bindings!Wanted # Null
         /\ last' \in [{"graphics", "compute"} -> Bindings!Table \cup {Null}]
         /\ \A p \in Flags : last'[p] = Bindings!Wanted
         /\ heaps' \in {set, [views |-> Bindings!Wanted, samplers |-> "main"]}
         /\ ((\A p \in Flags : was[p] = Bindings!Wanted) => set = [views |-> Bindings!Wanted, samplers |-> "main"])
              => heaps' = [views |-> Bindings!Wanted, samplers |-> "main"]
         /\ Bindings!Flushed(was) \in [{"graphics", "compute"} -> Bindings!Parameters]
         /\ \A p \in {"graphics", "compute"} :
              /\ Bindings!Flushed(was)[p].samplers = root[p].samplers
              /\ Bindings!Flushed(was)[p].draw = root[p].draw
              /\ Bindings!Flushed(was)[p].spec = root[p].spec
              /\ Bindings!Flushed(was)[p].constants = root[p].constants
              /\ Bindings!Flushed(was)[p].uniforms = root[p].uniforms
         /\ \A p \in Flags :
              signature = "main" /\ (was[p] # Null => root[p].table = was[p])
                => Bindings!Flushed(was)[p].table = Bindings!Wanted
<1> DEFINE W == Bindings!Wanted
<1>1. Flags \subseteq {"graphics", "compute"} /\ "compute" \in Flags
  BY BindingsAssumption DEF Bindings!FlagAssumption
<1>2. W \in Bindings!Table /\ W # Null
  BY BindingsAssumption DEF Bindings!Wanted, Bindings!Table, Bindings!KindAssumption
<1>3. Bindings!Rebind(was) = {p \in Flags : was[p] # W}
  BY DEF Bindings!Rebind
<1> DEFINE R == Bindings!Rebind(was)
<1>4. /\ last' = [p \in {"graphics", "compute"} |-> IF p \in R THEN W ELSE was[p]]
      /\ heaps' = IF R = {} THEN set ELSE [views |-> W, samplers |-> "main"]
  BY DEF Bindings!FlushPendingUnorderedAccessViewBinds
<1>5. Bindings!Flushed(was) = [p \in {"graphics", "compute"} |->
        IF p \in R /\ (p = "compute" \/ signature = "main") THEN [root[p] EXCEPT !.table = W] ELSE root[p]]
  BY DEF Bindings!Flushed
<1>6. \A p \in {"graphics", "compute"} :
        /\ [root[p] EXCEPT !.table = W] \in Bindings!Parameters
        /\ [root[p] EXCEPT !.table = W].table = W
        /\ [root[p] EXCEPT !.table = W].samplers = root[p].samplers
        /\ [root[p] EXCEPT !.table = W].draw = root[p].draw
        /\ [root[p] EXCEPT !.table = W].spec = root[p].spec
        /\ [root[p] EXCEPT !.table = W].constants = root[p].constants
        /\ [root[p] EXCEPT !.table = W].uniforms = root[p].uniforms
  BY <1>2 DEF Bindings!Parameters
<1> HIDE DEF W, R
<1>7. Bindings!Flushed(was) \in [{"graphics", "compute"} -> Bindings!Parameters]
  BY <1>5, <1>6
<1>8. \A p \in {"graphics", "compute"} :
        /\ Bindings!Flushed(was)[p].samplers = root[p].samplers
        /\ Bindings!Flushed(was)[p].draw = root[p].draw
        /\ Bindings!Flushed(was)[p].spec = root[p].spec
        /\ Bindings!Flushed(was)[p].constants = root[p].constants
        /\ Bindings!Flushed(was)[p].uniforms = root[p].uniforms
  BY <1>5, <1>6
<1>9. \A p \in Flags : signature = "main" /\ (was[p] # Null => root[p].table = was[p])
        => Bindings!Flushed(was)[p].table = W
  BY <1>1, <1>2, <1>3, <1>5, <1>6 DEF R
<1>10. /\ last' \in [{"graphics", "compute"} -> Bindings!Table \cup {Null}]
       /\ \A p \in Flags : last'[p] = W
  BY <1>1, <1>2, <1>3, <1>4 DEF R
<1>11. /\ heaps' \in {set, [views |-> W, samplers |-> "main"]}
       /\ ((\A p \in Flags : was[p] = W) => set = [views |-> W, samplers |-> "main"])
            => heaps' = [views |-> W, samplers |-> "main"]
  BY <1>3, <1>4 DEF R
<1> QED
  BY <1>2, <1>7, <1>8, <1>9, <1>10, <1>11 DEF W

(* What the list sets when its root signature is for draws again.          *)
LEMMA RestoredForDraws ==
  ASSUME BindingInv, bindingsState = "open", Bindings!RequireNonBlitState
  PROVE  /\ blit' = FALSE /\ signature' = "main"
         /\ last' \in [{"graphics", "compute"} -> Bindings!Table \cup {Null}]
         /\ heaps' \in [views : Bindings!Table \cup {Bindings!Blit, Bindings!Clear}, samplers : {"main", Bindings!Blit, Null}]
         /\ \A t \in Bindings!Table :
              (\A p \in Flags : last'[p] = t) => heaps' = [views |-> t, samplers |-> "main"]
         /\ ~bindingsAsked.blit => last' = last /\ Bindings!Restored = root.graphics
         /\ Bindings!Restored \in Bindings!Parameters
<1>1. /\ blit \in BOOLEAN /\ last \in [{"graphics", "compute"} -> Bindings!Table \cup {Null}]
      /\ root \in [{"graphics", "compute"} -> Bindings!Parameters]
      /\ heaps \in [views : Bindings!Table \cup {Bindings!Blit, Bindings!Clear}, samplers : {"main", Bindings!Blit, Null}]
  BY DEF BindingInv, Bindings!TypeOK
<1>2. /\ blit' = FALSE /\ signature' = "main"
      /\ heaps' = IF blit THEN [views |-> Bindings!Default, samplers |-> "main"] ELSE heaps
      /\ last' = IF blit THEN [last EXCEPT !.compute = Bindings!Default] ELSE last
  BY DEF Bindings!RequireNonBlitState
<1>3. "compute" \in Flags /\ Bindings!Default \in Bindings!Table
  BY BindingsAssumption DEF Bindings!FlagAssumption, Bindings!Table
<1>4. Bindings!Stale \in Bindings!Parameters
  BY DEF Bindings!Stale, Bindings!Parameters
<1>5. ~bindingsAsked.blit => ~blit
  BY DEF BindingInv, BlitsAreNoted
<1>6. CASE blit
  BY <1>1, <1>2, <1>3, <1>4, <1>5, <1>6 DEF Bindings!Restored
<1>7. CASE ~blit
  BY <1>1, <1>2, <1>7 DEF Bindings!Restored, BindingInv, HeapsFollowNotes
<1> QED
  BY <1>1, <1>6, <1>7

(* A draw, a dispatch or a clear flushes with the notes or without them.   *)
LEMMA WorkFindsItsTable ==
  ASSUME BindingInv, bindingsState = "open",
         NEW was, NEW set,
         \/ was = last /\ set = heaps
         \/ was = Bindings!Unbound,
         Bindings!FlushPendingUnorderedAccessViewBinds(was, set)
  PROVE  /\ Bindings!Wanted \in Bindings!Table /\ Bindings!Wanted # Null
         /\ last' \in [{"graphics", "compute"} -> Bindings!Table \cup {Null}]
         /\ \A p \in Flags : last'[p] = Bindings!Wanted
         /\ heaps' \in {set, [views |-> Bindings!Wanted, samplers |-> "main"]}
         /\ ~blit \/ was = Bindings!Unbound => heaps' = [views |-> Bindings!Wanted, samplers |-> "main"]
         /\ Bindings!Flushed(was) \in [{"graphics", "compute"} -> Bindings!Parameters]
         /\ \A p \in {"graphics", "compute"} :
              /\ Bindings!Flushed(was)[p].samplers = root[p].samplers
              /\ Bindings!Flushed(was)[p].draw = root[p].draw
              /\ Bindings!Flushed(was)[p].spec = root[p].spec
              /\ Bindings!Flushed(was)[p].constants = root[p].constants
              /\ Bindings!Flushed(was)[p].uniforms = root[p].uniforms
         /\ ~bindingsAsked.blit =>
              \A p \in Flags : Bindings!Flushed(was)[p].table = Bindings!Wanted
<1>1. /\ last \in [{"graphics", "compute"} -> Bindings!Table \cup {Null}]
      /\ bindingsPending \in Uav \cup {Null}
      /\ root \in [{"graphics", "compute"} -> Bindings!Parameters]
  BY DEF BindingInv, Bindings!TypeOK
<1>2. "compute" \in Flags
  BY BindingsAssumption DEF Bindings!FlagAssumption
<1>3. Bindings!Wanted \in Bindings!Table /\ Bindings!Wanted # Null
  BY <1>1, BindingsAssumption DEF Bindings!Wanted, Bindings!Table, Bindings!KindAssumption
<1>4. was \in [{"graphics", "compute"} -> Bindings!Table \cup {Null}]
  BY <1>1 DEF Bindings!Unbound
<1>5. ~blit \/ was = Bindings!Unbound =>
        ((\A p \in Flags : was[p] = Bindings!Wanted) => set = [views |-> Bindings!Wanted, samplers |-> "main"])
  <2>1. CASE was = last /\ set = heaps
    <3>1. ~blit => ((\A p \in Flags : was[p] = Bindings!Wanted) => set = [views |-> Bindings!Wanted, samplers |-> "main"])
      BY <1>3, <2>1 DEF BindingInv, HeapsFollowNotes
    <3>2. was = Bindings!Unbound => was["compute"] = Null
      BY DEF Bindings!Unbound
    <3> QED
      BY <1>2, <1>3, <3>1, <3>2
  <2>2. CASE was = Bindings!Unbound
    <3>1. was["compute"] = Null
      BY <2>2 DEF Bindings!Unbound
    <3> QED
      BY <1>2, <1>3, <3>1
  <2> QED
    BY <2>1, <2>2
<1>6. ~bindingsAsked.blit => signature = "main" /\ \A p \in Flags : was[p] # Null => root[p].table = was[p]
  <2>1. Flags \subseteq {"graphics", "compute"}
    BY BindingsAssumption DEF Bindings!FlagAssumption
  <2>2. ~bindingsAsked.blit => signature = "main"
    BY DEF BindingInv, BlitsAreNoted
  <2>3. ~bindingsAsked.blit => \A p \in Flags : last[p] # Null => root[p].table = last[p]
    BY DEF BindingInv, RootFollowsNotes
  <2> QED
    BY <2>1, <2>2, <2>3 DEF Bindings!Unbound
<1> QED
  BY <1>1, <1>4, <1>5, <1>6, FlushBinds

(* Lists, what they set, blits and clears.                                 *)
LEMMA BindingsHold ==
  ASSUME BindingInv, [Bindings!Next]_(Bindings!vars)
  PROVE  BindingInv'
<1> USE BindingsAssumption
<1>0. /\ bindingsState \in {"closed", "open"} /\ bindingsPass \in BOOLEAN /\ blit \in BOOLEAN
      /\ bindingsPending \in Uav \cup {Null}
      /\ last \in [{"graphics", "compute"} -> Bindings!Table \cup {Null}]
      /\ signature \in {"main", Bindings!Blit}
      /\ root \in [{"graphics", "compute"} -> Bindings!Parameters]
      /\ heaps \in [views : Bindings!Table \cup {Bindings!Blit, Bindings!Clear}, samplers : {"main", Bindings!Blit, Null}]
      /\ bindingsPipeline \in Bindings!Pipeline \cup {Bindings!Blit, Null}
      /\ bindingsAsked \in [constants : BOOLEAN, uniforms : BOOLEAN, blit : BOOLEAN]
  BY DEF BindingInv, Bindings!TypeOK
<1>00. /\ Flags \subseteq {"graphics", "compute"} /\ "compute" \in Flags
       /\ Bindings!Default \in Bindings!Table /\ Bindings!Stale \in Bindings!Parameters
       /\ Bindings!Unbound \in [{"graphics", "compute"} -> Bindings!Table \cup {Null}]
       /\ \A p \in Flags : Bindings!Unbound[p] = Null
       /\ Null \notin Bindings!Table /\ Raster \cap Compute = {}
       /\ Null \notin Bindings!Pipeline /\ Bindings!Blit \notin Bindings!Pipeline
  BY DEF Bindings!FlagAssumption, Bindings!KindAssumption, Bindings!Table, Bindings!Stale, Bindings!Parameters, Bindings!Unbound
<1>1. CASE Bindings!GetCommandBuffer
  <2>1. /\ bindingsState = "closed" /\ bindingsState' = "open" /\ signature' = "main"
        /\ heaps' = [views |-> Bindings!Default, samplers |-> "main"] /\ bindingsPipeline' = Null
        /\ bindingsAsked' = [constants |-> FALSE, uniforms |-> FALSE, blit |-> FALSE]
        /\ bindingsPass' = bindingsPass /\ bindingsPending' = bindingsPending
        /\ last' = last /\ blit' = blit
    BY <1>1 DEF Bindings!GetCommandBuffer, Bindings!Nothing
  <2>2. root' = [p \in {"graphics", "compute"} |->
          IF p \in Flags
          THEN [Bindings!Stale EXCEPT !.table = Bindings!Default, !.samplers = TRUE, !.draw = (p = "graphics")]
          ELSE Bindings!Stale]
    BY <1>1 DEF Bindings!GetCommandBuffer
  <2>3. \A p \in {"graphics", "compute"} :
          LET r == [Bindings!Stale EXCEPT !.table = Bindings!Default, !.samplers = TRUE, !.draw = (p = "graphics")]
          IN  r \in Bindings!Parameters /\ r.samplers /\ (p = "graphics" => r.draw)
    BY <1>00 DEF Bindings!Stale, Bindings!Parameters
  <2>4. /\ root' \in [{"graphics", "compute"} -> Bindings!Parameters]
        /\ \A p \in Flags : root'[p].samplers /\ (p = "graphics" => root'[p].draw)
    BY <1>00, <2>2, <2>3
  <2>5. ~blit /\ last = Bindings!Unbound
    BY <2>1 DEF BindingInv, BlitsAreNoted
  <2>6. Bindings!TypeOK'
    BY <1>0, <1>00, <2>1, <2>4 DEF Bindings!TypeOK
  <2>7. BlitsAreNoted'
    BY <2>1, <2>5 DEF BindingInv, BlitsAreNoted
  <2>8. HeapsFollowNotes'
    BY <1>00, <2>1, <2>5 DEF HeapsFollowNotes
  <2>9. RootFollowsNotes'
    BY <1>00, <2>1, <2>4, <2>5 DEF RootFollowsNotes, Bindings!Pipeline
  <2> QED
    BY <2>6, <2>7, <2>8, <2>9 DEF BindingInv

<1>2. ASSUME NEW field \in {"constants", "uniforms"},
             bindingsState = "open", Bindings!RequireNonBlitState,
             root' = [root EXCEPT !.graphics = [Bindings!Restored EXCEPT ![field] = TRUE]],
             bindingsAsked' = [bindingsAsked EXCEPT ![field] = TRUE],
             UNCHANGED <<bindingsState, bindingsPass, bindingsPending, bindingsPipeline>>
      PROVE  BindingInv'
  <2>1. /\ blit' = FALSE /\ signature' = "main"
        /\ last' \in [{"graphics", "compute"} -> Bindings!Table \cup {Null}]
        /\ heaps' \in [views : Bindings!Table \cup {Bindings!Blit, Bindings!Clear}, samplers : {"main", Bindings!Blit, Null}]
        /\ \A t \in Bindings!Table :
             (\A p \in Flags : last'[p] = t) => heaps' = [views |-> t, samplers |-> "main"]
        /\ ~bindingsAsked.blit => last' = last /\ Bindings!Restored = root.graphics
        /\ Bindings!Restored \in Bindings!Parameters
    BY <1>2, RestoredForDraws
  <2> DEFINE r == [Bindings!Restored EXCEPT ![field] = TRUE]
  <2>2. /\ r \in Bindings!Parameters /\ r[field] = TRUE
        /\ \A f \in {"table", "samplers", "draw", "spec", "constants", "uniforms"} :
             f # field => r[f] = Bindings!Restored[f]
    BY <2>1 DEF Bindings!Parameters
  <2> HIDE DEF r
  <2>3. /\ root' \in [{"graphics", "compute"} -> Bindings!Parameters]
        /\ root'["graphics"] = r /\ root'["compute"] = root["compute"]
    BY <1>0, <1>2, <2>2 DEF r
  <2>4. /\ bindingsAsked' \in [constants : BOOLEAN, uniforms : BOOLEAN, blit : BOOLEAN]
        /\ bindingsAsked'.blit = bindingsAsked.blit
        /\ \A f \in {"constants", "uniforms"} : f # field => bindingsAsked'[f] = bindingsAsked[f]
    BY <1>0, <1>2
  <2>5. Bindings!TypeOK'
    BY <1>0, <1>2, <2>1, <2>3, <2>4 DEF Bindings!TypeOK
  <2>6. BlitsAreNoted' /\ HeapsFollowNotes'
    BY <1>2, <2>1 DEF BindingInv, BlitsAreNoted, HeapsFollowNotes
  <2>7. RootFollowsNotes'
    <3> SUFFICES ASSUME ~bindingsAsked.blit PROVE RootFollowsNotes'
      BY <2>4 DEF RootFollowsNotes
    <3>1. last' = last /\ \A f \in {"table", "samplers", "draw", "spec", "constants", "uniforms"} :
            f # field => r[f] = root["graphics"][f]
      BY <2>1, <2>2
    <3>2. /\ \A p \in Flags : /\ root[p].samplers /\ (p = "graphics" => root[p].draw)
                              /\ last[p] # Null => root[p].table = last[p]
          /\ bindingsPipeline \in Specialised \cap Raster => root.graphics.spec = bindingsPipeline
          /\ bindingsPipeline \in Specialised \cap Compute => root.compute.spec = bindingsPipeline
          /\ bindingsAsked.constants => root.graphics.constants
          /\ bindingsAsked.uniforms => root.graphics.uniforms
      BY <1>2 DEF BindingInv, RootFollowsNotes
    <3>3. /\ r.table = root["graphics"].table /\ r.samplers = root["graphics"].samplers
          /\ r.draw = root["graphics"].draw /\ r.spec = root["graphics"].spec
          /\ field # "constants" => r.constants = root["graphics"].constants
          /\ field # "uniforms" => r.uniforms = root["graphics"].uniforms
      BY <3>1
    <3>4. /\ bindingsAsked'.constants => root'.graphics.constants
          /\ bindingsAsked'.uniforms => root'.graphics.uniforms
      BY <2>2, <2>3, <2>4, <3>2, <3>3
    <3>5. /\ bindingsPipeline \in Specialised \cap Raster => root'.graphics.spec = bindingsPipeline
          /\ bindingsPipeline \in Specialised \cap Compute => root'.compute.spec = bindingsPipeline
      BY <2>3, <3>2, <3>3
    <3>6. \A p \in Flags : /\ root'[p].samplers /\ (p = "graphics" => root'[p].draw)
                           /\ last'[p] # Null => root'[p].table = last'[p]
      BY <1>00, <2>3, <3>1, <3>2, <3>3
    <3> QED
      BY <1>2, <3>4, <3>5, <3>6 DEF RootFollowsNotes
  <2> QED
    BY <2>5, <2>6, <2>7 DEF BindingInv
<1>3. CASE Bindings!PushConstant
  <2>1. /\ bindingsState = "open" /\ Bindings!RequireNonBlitState
        /\ root' = [root EXCEPT !.graphics = [Bindings!Restored EXCEPT !["constants"] = TRUE]]
        /\ bindingsAsked' = [bindingsAsked EXCEPT !["constants"] = TRUE]
        /\ UNCHANGED <<bindingsState, bindingsPass, bindingsPending, bindingsPipeline>>
    BY <1>3 DEF Bindings!PushConstant, Bindings!Recording
  <2> QED
    BY <1>2, <2>1
<1>4. CASE Bindings!SetUniformBufferView
  <2>1. /\ bindingsState = "open" /\ Bindings!RequireNonBlitState
        /\ root' = [root EXCEPT !.graphics = [Bindings!Restored EXCEPT !["uniforms"] = TRUE]]
        /\ bindingsAsked' = [bindingsAsked EXCEPT !["uniforms"] = TRUE]
        /\ UNCHANGED <<bindingsState, bindingsPass, bindingsPending, bindingsPipeline>>
    BY <1>4 DEF Bindings!SetUniformBufferView, Bindings!Recording
  <2> QED
    BY <1>2, <2>1
<1>5. ASSUME NEW u \in Uav \cup {Null}, Bindings!SetUnorderedAccessView(u)
      PROVE  BindingInv'
  <2>1. /\ bindingsPending' = u /\ bindingsState' = bindingsState /\ bindingsPass' = bindingsPass
        /\ last' = last /\ blit' = blit /\ signature' = signature /\ root' = root /\ heaps' = heaps
        /\ bindingsPipeline' = bindingsPipeline /\ bindingsAsked' = bindingsAsked
    BY <1>5 DEF Bindings!SetUnorderedAccessView
  <2>2. Bindings!TypeOK'
    BY <1>0, <2>1 DEF Bindings!TypeOK
  <2>3. BlitsAreNoted' /\ HeapsFollowNotes' /\ RootFollowsNotes'
    BY <2>1 DEF BindingInv, BlitsAreNoted, HeapsFollowNotes, RootFollowsNotes
  <2> QED
    BY <2>2, <2>3 DEF BindingInv
<1>6. ASSUME NEW q \in Raster, Bindings!SetRasterPipeline(q)
      PROVE  BindingInv'
  <2>0. /\ bindingsState = "open" /\ bindingsPipeline' = q /\ Bindings!RequireNonBlitState
        /\ bindingsState' = bindingsState /\ bindingsPass' = bindingsPass
        /\ bindingsPending' = bindingsPending /\ bindingsAsked' = bindingsAsked
        /\ q \in Bindings!Pipeline
    BY <1>6 DEF Bindings!SetRasterPipeline, Bindings!Recording, Bindings!Pipeline
  <2>1. /\ blit' = FALSE /\ signature' = "main"
        /\ last' \in [{"graphics", "compute"} -> Bindings!Table \cup {Null}]
        /\ heaps' \in [views : Bindings!Table \cup {Bindings!Blit, Bindings!Clear}, samplers : {"main", Bindings!Blit, Null}]
        /\ \A t \in Bindings!Table :
             (\A p \in Flags : last'[p] = t) => heaps' = [views |-> t, samplers |-> "main"]
        /\ ~bindingsAsked.blit => last' = last /\ Bindings!Restored = root.graphics
        /\ Bindings!Restored \in Bindings!Parameters
    BY <2>0, RestoredForDraws
  <2> DEFINE r == IF q \in Specialised /\ ~blit THEN [root.graphics EXCEPT !.spec = q] ELSE Bindings!Restored
  <2>2. root' = [root EXCEPT !.graphics = r]
    BY <1>6 DEF Bindings!SetRasterPipeline
  <2>3. r \in Bindings!Parameters
    <3>1. root.graphics \in Bindings!Parameters
      BY <1>0
    <3>2. [root.graphics EXCEPT !.spec = q] \in Bindings!Parameters
      BY <2>0, <3>1 DEF Bindings!Parameters
    <3> QED
      BY <2>1, <3>2
  <2>4. ~bindingsAsked.blit =>
          /\ q \in Specialised => r.spec = q
          /\ r.table = root["graphics"].table /\ r.samplers = root["graphics"].samplers
          /\ r.draw = root["graphics"].draw
          /\ r.constants = root["graphics"].constants /\ r.uniforms = root["graphics"].uniforms
    <3>1. root.graphics \in Bindings!Parameters
      BY <1>0
    <3>2. ~bindingsAsked.blit => ~blit
      BY DEF BindingInv, BlitsAreNoted
    <3> QED
      BY <2>1, <3>1, <3>2 DEF Bindings!Parameters
  <2> HIDE DEF r
  <2>5. /\ root' \in [{"graphics", "compute"} -> Bindings!Parameters]
        /\ root'["graphics"] = r /\ root'["compute"] = root["compute"]
    BY <1>0, <2>2, <2>3
  <2>6. Bindings!TypeOK'
    BY <1>0, <2>0, <2>1, <2>5 DEF Bindings!TypeOK
  <2>7. BlitsAreNoted' /\ HeapsFollowNotes'
    BY <2>0, <2>1 DEF BindingInv, BlitsAreNoted, HeapsFollowNotes
  <2>8. RootFollowsNotes'
    <3> SUFFICES ASSUME ~bindingsAsked.blit PROVE RootFollowsNotes'
      BY <2>0 DEF RootFollowsNotes
    <3>1. /\ \A p \in Flags : /\ root[p].samplers /\ (p = "graphics" => root[p].draw)
                              /\ last[p] # Null => root[p].table = last[p]
          /\ bindingsAsked.constants => root.graphics.constants
          /\ bindingsAsked.uniforms => root.graphics.uniforms
      BY <2>0 DEF BindingInv, RootFollowsNotes
    <3>2. \A p \in Flags : /\ root'[p].samplers /\ (p = "graphics" => root'[p].draw)
                           /\ last'[p] # Null => root'[p].table = last'[p]
      BY <1>00, <2>1, <2>4, <2>5, <3>1
    <3>3. q \notin Compute
      BY <1>00
    <3> QED
      BY <2>0, <2>4, <2>5, <3>1, <3>2, <3>3 DEF RootFollowsNotes
  <2> QED
    BY <2>6, <2>7, <2>8 DEF BindingInv
<1>7. ASSUME NEW q \in Compute, Bindings!SetComputePipeline(q)
      PROVE  BindingInv'
  <2>1. /\ bindingsPipeline' = q /\ bindingsState' = bindingsState /\ bindingsPass' = bindingsPass
        /\ bindingsPending' = bindingsPending /\ last' = last /\ blit' = blit /\ signature' = signature
        /\ heaps' = heaps /\ bindingsAsked' = bindingsAsked
        /\ q \in Bindings!Pipeline /\ q \notin Raster
    BY <1>00, <1>7 DEF Bindings!SetComputePipeline, Bindings!Pipeline
  <2>2. root' = IF q \in Specialised THEN [root EXCEPT !.compute.spec = q] ELSE root
    BY <1>7 DEF Bindings!SetComputePipeline
  <2>3. root["compute"] \in Bindings!Parameters
    BY <1>0
  <2> DEFINE r == [root["compute"] EXCEPT !.spec = q]
  <2>4. /\ r \in Bindings!Parameters /\ r.spec = q
        /\ r.table = root["compute"].table /\ r.samplers = root["compute"].samplers
    BY <2>1, <2>3 DEF Bindings!Parameters
  <2>5. q \in Specialised => root' = [root EXCEPT !["compute"] = r]
    BY <2>2
  <2> HIDE DEF r
  <2>6. /\ root' \in [{"graphics", "compute"} -> Bindings!Parameters]
        /\ root'["graphics"] = root["graphics"]
        /\ root'["compute"].table = root["compute"].table /\ root'["compute"].samplers = root["compute"].samplers
        /\ q \in Specialised => root'["compute"].spec = q
    BY <1>0, <2>2, <2>4, <2>5
  <2>7. Bindings!TypeOK'
    BY <1>0, <2>1, <2>6 DEF Bindings!TypeOK
  <2>8. BlitsAreNoted' /\ HeapsFollowNotes'
    BY <2>1 DEF BindingInv, BlitsAreNoted, HeapsFollowNotes
  <2>9. RootFollowsNotes'
    <3> SUFFICES ASSUME bindingsState = "open", ~bindingsAsked.blit PROVE RootFollowsNotes'
      BY <2>1 DEF RootFollowsNotes
    <3>1. /\ \A p \in Flags : /\ root[p].samplers /\ (p = "graphics" => root[p].draw)
                              /\ last[p] # Null => root[p].table = last[p]
          /\ bindingsAsked.constants => root.graphics.constants
          /\ bindingsAsked.uniforms => root.graphics.uniforms
      BY DEF BindingInv, RootFollowsNotes
    <3>2. \A p \in Flags : /\ root'[p].samplers /\ (p = "graphics" => root'[p].draw)
                           /\ last'[p] # Null => root'[p].table = last'[p]
      BY <1>00, <2>1, <2>6, <3>1
    <3> QED
      BY <2>1, <2>6, <3>1, <3>2 DEF RootFollowsNotes
  <2> QED
    BY <2>7, <2>8, <2>9 DEF BindingInv
<1>8. ASSUME NEW was, NEW set, NEW flushed,
             \/ was = last /\ set = heaps
             \/ was = Bindings!Unbound /\ ~(was = last /\ set = heaps),
             bindingsState = "open",
             Bindings!FlushPendingUnorderedAccessViewBinds(was, set),
             \/ flushed = Bindings!Flushed(was)
             \/ flushed = [Bindings!Flushed(was) EXCEPT !.graphics.draw = TRUE],
             root' = flushed,
             UNCHANGED <<bindingsState, bindingsPass, bindingsPending, blit, signature, bindingsPipeline, bindingsAsked>>
      PROVE  BindingInv'
  <2> DEFINE F == Bindings!Flushed(was)
  <2>1. /\ Bindings!Wanted \in Bindings!Table /\ Bindings!Wanted # Null
        /\ last' \in [{"graphics", "compute"} -> Bindings!Table \cup {Null}]
        /\ \A p \in Flags : last'[p] = Bindings!Wanted
        /\ heaps' \in {set, [views |-> Bindings!Wanted, samplers |-> "main"]}
        /\ ~blit \/ was = Bindings!Unbound => heaps' = [views |-> Bindings!Wanted, samplers |-> "main"]
        /\ F \in [{"graphics", "compute"} -> Bindings!Parameters]
        /\ \A p \in {"graphics", "compute"} :
             /\ F[p].samplers = root[p].samplers /\ F[p].draw = root[p].draw
             /\ F[p].spec = root[p].spec
             /\ F[p].constants = root[p].constants /\ F[p].uniforms = root[p].uniforms
        /\ ~bindingsAsked.blit => \A p \in Flags : F[p].table = Bindings!Wanted
    BY <1>8, WorkFindsItsTable
  <2> HIDE DEF F
  <2> DEFINE r == [F["graphics"] EXCEPT !.draw = TRUE]
  <2>2. /\ r \in Bindings!Parameters /\ r.draw = TRUE
        /\ r.table = F["graphics"].table /\ r.samplers = F["graphics"].samplers /\ r.spec = F["graphics"].spec
        /\ r.constants = F["graphics"].constants /\ r.uniforms = F["graphics"].uniforms
    BY <2>1 DEF Bindings!Parameters
  <2>3. root' = F \/ root' = [F EXCEPT !["graphics"] = r]
    BY <1>8 DEF F
  <2> HIDE DEF r
  <2>4. /\ root' \in [{"graphics", "compute"} -> Bindings!Parameters]
        /\ \A p \in {"graphics", "compute"} :
             /\ root'[p].samplers = root[p].samplers /\ (root[p].draw => root'[p].draw)
             /\ root'[p].spec = root[p].spec
             /\ root'[p].constants = root[p].constants /\ root'[p].uniforms = root[p].uniforms
        /\ ~bindingsAsked.blit => \A p \in Flags : root'[p].table = Bindings!Wanted
    <3>1. CASE root' = F
      BY <1>00, <2>1, <3>1
    <3>2. CASE root' = [F EXCEPT !["graphics"] = r]
      <4>1. root'["graphics"] = r /\ root'["compute"] = F["compute"]
        BY <2>1, <3>2
      <4>2. root' \in [{"graphics", "compute"} -> Bindings!Parameters]
        BY <2>1, <2>2, <3>2
      <4> QED
        BY <1>00, <2>1, <2>2, <4>1, <4>2
    <3> QED
      BY <2>3, <3>1, <3>2
  <2>5. [views |-> Bindings!Wanted, samplers |-> "main"] \in
          [views : Bindings!Table \cup {Bindings!Blit, Bindings!Clear}, samplers : {"main", Bindings!Blit, Null}]
    BY <2>1
  <2>6. Bindings!TypeOK'
    <3>1. heaps' \in [views : Bindings!Table \cup {Bindings!Blit, Bindings!Clear}, samplers : {"main", Bindings!Blit, Null}]
      BY <1>0, <1>8, <2>1, <2>5
    <3> QED
      BY <1>0, <1>8, <2>1, <2>4, <3>1 DEF Bindings!TypeOK
  <2>7. BlitsAreNoted'
    BY <1>8 DEF BindingInv, BlitsAreNoted
  <2>8. HeapsFollowNotes'
    <3> SUFFICES ASSUME ~blit, NEW t \in Bindings!Table, \A p \in Flags : last'[p] = t
                 PROVE  heaps' = [views |-> t, samplers |-> "main"]
      BY <1>8 DEF HeapsFollowNotes
    <3>1. t = Bindings!Wanted
      BY <1>00, <2>1
    <3> QED
      BY <2>1, <3>1
  <2>9. RootFollowsNotes'
    <3> SUFFICES ASSUME ~bindingsAsked.blit PROVE RootFollowsNotes'
      BY <1>8 DEF RootFollowsNotes
    <3>1. /\ \A p \in Flags : root[p].samplers /\ (p = "graphics" => root[p].draw)
          /\ bindingsPipeline \in Specialised \cap Raster => root["graphics"].spec = bindingsPipeline
          /\ bindingsPipeline \in Specialised \cap Compute => root["compute"].spec = bindingsPipeline
          /\ bindingsAsked.constants => root["graphics"].constants
          /\ bindingsAsked.uniforms => root["graphics"].uniforms
      BY <1>8 DEF BindingInv, RootFollowsNotes
    <3>2. \A p \in Flags : /\ root'[p].samplers /\ (p = "graphics" => root'[p].draw)
                           /\ last'[p] # Null => root'[p].table = last'[p]
      BY <1>00, <2>1, <2>4, <3>1
    <3> QED
      BY <1>8, <2>4, <3>1, <3>2 DEF RootFollowsNotes
  <2> QED
    BY <2>6, <2>7, <2>8, <2>9 DEF BindingInv
<1>9. CASE Bindings!Draw
  BY <1>8, <1>9 DEF Bindings!Draw, Bindings!Recording
<1>10. CASE Bindings!DrawIndirect
  BY <1>8, <1>10 DEF Bindings!DrawIndirect, Bindings!Recording
<1>11. CASE Bindings!Dispatch
  BY <1>8, <1>11 DEF Bindings!Dispatch, Bindings!Recording
<1>12. CASE Bindings!ClearUnorderedAccessView
  <2> DEFINE set == [views |-> Bindings!Clear, samplers |-> Null]
  <2>1. /\ Bindings!FlushPendingUnorderedAccessViewBinds(Bindings!Unbound, set)
        /\ root' = Bindings!Flushed(Bindings!Unbound) /\ bindingsState = "open"
        /\ UNCHANGED <<bindingsState, bindingsPass, bindingsPending, blit, signature, bindingsPipeline, bindingsAsked>>
    BY <1>12 DEF Bindings!ClearUnorderedAccessView, Bindings!Recording
  <2> HIDE DEF set
  <2> QED
    BY <1>8, <2>1
<1>13. CASE Bindings!BlitImageToImage
  <2>1. /\ bindingsState = "open" /\ ~bindingsPass /\ bindingsPipeline' = Bindings!Blit
        /\ signature' = Bindings!Blit /\ blit' = TRUE
        /\ heaps' = [views |-> Bindings!Blit, samplers |-> Bindings!Blit]
        /\ bindingsState' = bindingsState /\ bindingsPass' = bindingsPass
        /\ bindingsPending' = bindingsPending /\ last' = last
        /\ bindingsAsked' = [bindingsAsked EXCEPT !.blit = TRUE]
        /\ root' = [root EXCEPT !["graphics"] = Bindings!Stale]
    BY <1>13 DEF Bindings!BlitImageToImage, Bindings!Recording
  <2>2. /\ bindingsAsked' \in [constants : BOOLEAN, uniforms : BOOLEAN, blit : BOOLEAN]
        /\ bindingsAsked'.blit
    BY <1>0, <2>1
  <2>3. root' \in [{"graphics", "compute"} -> Bindings!Parameters]
    BY <1>0, <1>00, <2>1
  <2>4. Bindings!TypeOK'
    BY <1>0, <2>1, <2>2, <2>3 DEF Bindings!TypeOK
  <2>5. Bindings!Blit \notin Raster
    BY <1>00 DEF Bindings!Pipeline
  <2>6. BlitsAreNoted' /\ HeapsFollowNotes' /\ RootFollowsNotes'
    BY <2>1, <2>2, <2>5 DEF BindingInv, BlitsAreNoted, HeapsFollowNotes, RootFollowsNotes
  <2> QED
    BY <2>4, <2>6 DEF BindingInv
<1>14. CASE Bindings!BeginRenderPass \/ Bindings!EndRenderPass
  <2>1. /\ bindingsState = "open" /\ bindingsPass' \in BOOLEAN /\ (bindingsPass' => "graphics" \in Flags)
        /\ bindingsState' = bindingsState /\ bindingsPending' = bindingsPending /\ last' = last
        /\ blit' = blit /\ signature' = signature /\ root' = root /\ heaps' = heaps
        /\ bindingsPipeline' = bindingsPipeline /\ bindingsAsked' = bindingsAsked
    BY <1>14 DEF Bindings!BeginRenderPass, Bindings!EndRenderPass, Bindings!Recording
  <2>2. Bindings!TypeOK'
    BY <1>0, <2>1 DEF Bindings!TypeOK
  <2>3. BlitsAreNoted' /\ HeapsFollowNotes' /\ RootFollowsNotes'
    BY <2>1 DEF BindingInv, BlitsAreNoted, HeapsFollowNotes, RootFollowsNotes
  <2> QED
    BY <2>2, <2>3 DEF BindingInv
<1>15. CASE Bindings!Complete
  <2>1. /\ ~bindingsPass /\ bindingsState' = "closed" /\ bindingsPending' = Null
        /\ last' = Bindings!Unbound /\ blit' = FALSE /\ bindingsPass' = bindingsPass
        /\ signature' = signature /\ root' = root /\ heaps' = heaps
        /\ bindingsPipeline' = bindingsPipeline /\ bindingsAsked' = bindingsAsked
    BY <1>15 DEF Bindings!Complete, Bindings!Recording
  <2>2. Bindings!TypeOK'
    BY <1>0, <1>00, <2>1 DEF Bindings!TypeOK
  <2>3. BlitsAreNoted' /\ HeapsFollowNotes' /\ RootFollowsNotes'
    BY <2>1 DEF BindingInv, BlitsAreNoted, HeapsFollowNotes, RootFollowsNotes
  <2> QED
    BY <2>2, <2>3 DEF BindingInv
<1>16. CASE UNCHANGED Bindings!vars
  <2>1. /\ bindingsState' = bindingsState /\ bindingsPass' = bindingsPass
        /\ bindingsPending' = bindingsPending /\ last' = last
        /\ blit' = blit /\ signature' = signature /\ root' = root /\ heaps' = heaps
        /\ bindingsPipeline' = bindingsPipeline /\ bindingsAsked' = bindingsAsked
    BY <1>16 DEF Bindings!vars
  <2>2. Bindings!TypeOK'
    BY <1>0, <2>1 DEF Bindings!TypeOK
  <2>3. BlitsAreNoted' /\ HeapsFollowNotes' /\ RootFollowsNotes'
    BY <2>1 DEF BindingInv, BlitsAreNoted, HeapsFollowNotes, RootFollowsNotes
  <2> QED
    BY <2>2, <2>3 DEF BindingInv
<1> QED
  BY <1>1, <1>3, <1>4, <1>5, <1>6, <1>7, <1>9, <1>10, <1>11, <1>12, <1>13, <1>14, <1>15, <1>16
     DEF Bindings!Next

(* What a draw finds in a list without blits, or after one.                *)
LEMMA DrawsFind ==
  ASSUME BindingInv, Bindings!Draw \/ Bindings!DrawIndirect
  PROVE  /\ signature = "main" /\ heaps' = [views |-> Bindings!Wanted, samplers |-> "main"]
         /\ ~bindingsAsked.blit =>
              /\ Bindings!TableIsThere("graphics") /\ Bindings!SpecIsThere("graphics") /\ root'.graphics.draw
              /\ bindingsAsked.constants => root'.graphics.constants
              /\ bindingsAsked.uniforms => root'.graphics.uniforms
<1> DEFINE F == Bindings!Flushed(last)
<1>1. /\ bindingsState = "open" /\ bindingsPass /\ bindingsPipeline \in Raster
      /\ Bindings!FlushPendingUnorderedAccessViewBinds(last, heaps)
      /\ root' = F \/ root' = [F EXCEPT !.graphics.draw = TRUE]
  BY DEF Bindings!Draw, Bindings!DrawIndirect, Bindings!Recording
<1>2. ~blit /\ signature = "main" /\ "graphics" \in Flags
  BY <1>1 DEF BindingInv, BlitsAreNoted
<1>3. /\ heaps' = [views |-> Bindings!Wanted, samplers |-> "main"]
      /\ F \in [{"graphics", "compute"} -> Bindings!Parameters]
      /\ F["graphics"].samplers = root["graphics"].samplers /\ F["graphics"].draw = root["graphics"].draw
      /\ F["graphics"].spec = root["graphics"].spec
      /\ F["graphics"].constants = root["graphics"].constants
      /\ F["graphics"].uniforms = root["graphics"].uniforms
      /\ ~bindingsAsked.blit => F["graphics"].table = Bindings!Wanted
  BY <1>1, <1>2, WorkFindsItsTable
<1> HIDE DEF F
<1>4. /\ root'["graphics"].samplers = root["graphics"].samplers
      /\ root["graphics"].draw => root'["graphics"].draw
      /\ root'["graphics"].spec = root["graphics"].spec
      /\ root'["graphics"].constants = root["graphics"].constants
      /\ root'["graphics"].uniforms = root["graphics"].uniforms
      /\ root'["graphics"].table = F["graphics"].table
  <2>1. F["graphics"] \in Bindings!Parameters
    BY <1>3
  <2> DEFINE r == [F["graphics"] EXCEPT !.draw = TRUE]
  <2>2. /\ r.draw = TRUE /\ r.table = F["graphics"].table /\ r.samplers = F["graphics"].samplers
        /\ r.spec = F["graphics"].spec
        /\ r.constants = F["graphics"].constants /\ r.uniforms = F["graphics"].uniforms
    BY <2>1 DEF Bindings!Parameters
  <2>3. root' = F \/ root' = [F EXCEPT !["graphics"] = r]
    BY <1>1
  <2> HIDE DEF r
  <2>4. root'["graphics"] = F["graphics"] \/ root'["graphics"] = r
    BY <1>3, <2>3
  <2> QED
    BY <1>3, <2>2, <2>4
<1>5. ASSUME ~bindingsAsked.blit
      PROVE  /\ root["graphics"].samplers /\ root["graphics"].draw
             /\ bindingsPipeline \in Specialised => root["graphics"].spec = bindingsPipeline
             /\ bindingsAsked.constants => root["graphics"].constants
             /\ bindingsAsked.uniforms => root["graphics"].uniforms
  BY <1>1, <1>2, <1>5 DEF BindingInv, RootFollowsNotes
<1>6. ~bindingsAsked.blit => Bindings!TableIsThere("graphics") /\ Bindings!SpecIsThere("graphics")
  BY <1>3, <1>4, <1>5 DEF Bindings!TableIsThere, Bindings!SpecIsThere
<1> QED
  BY <1>2, <1>3, <1>4, <1>5, <1>6

(* A dispatch in a list without blits.                                     *)
LEMMA DispatchesFind ==
  ASSUME BindingInv, Bindings!Dispatch, ~bindingsAsked.blit
  PROVE  Bindings!TableIsThere("compute") /\ Bindings!SpecIsThere("compute")
<1> DEFINE F == Bindings!Flushed(last)
<1>1. /\ bindingsState = "open" /\ bindingsPipeline \in Compute /\ root' = F
      /\ Bindings!FlushPendingUnorderedAccessViewBinds(last, heaps)
  BY DEF Bindings!Dispatch, Bindings!Recording
<1>2. ~blit /\ "compute" \in Flags
  BY <1>1, BindingsAssumption DEF BindingInv, BlitsAreNoted, Bindings!FlagAssumption
<1>3. /\ heaps' = [views |-> Bindings!Wanted, samplers |-> "main"]
      /\ F["compute"].samplers = root["compute"].samplers /\ F["compute"].spec = root["compute"].spec
      /\ F["compute"].table = Bindings!Wanted
  BY <1>1, <1>2, WorkFindsItsTable
<1> HIDE DEF F
<1>4. /\ root["compute"].samplers
      /\ bindingsPipeline \in Specialised => root["compute"].spec = bindingsPipeline
  BY <1>1, <1>2 DEF BindingInv, RootFollowsNotes
<1> QED
  BY <1>1, <1>3, <1>4 DEF Bindings!TableIsThere, Bindings!SpecIsThere

(* FlushPendingUnorderedAccessViewBinds and RequireNonBlitState: in a list *)
(* without blits every draw and dispatch finds the table of its UAVs in    *)
(* the heap that is set, the samplers, its pipeline's constants and what   *)
(* was pushed; and no draw has the root signature or the heap of a blit.   *)
LEMMA WorkIsBound ==
  Bindings!Spec => Bindings!BoundUnlessBlitted /\ Bindings!NoDrawWithBlitState
<1>1. Bindings!Init => BindingInv
  <2> SUFFICES ASSUME Bindings!Init PROVE BindingInv
    OBVIOUS
  <2>1. /\ bindingsState = "closed" /\ bindingsPass = FALSE /\ bindingsPending = Null
        /\ last = Bindings!Unbound /\ blit = FALSE /\ signature = "main"
        /\ root = [p \in {"graphics", "compute"} |-> Bindings!Stale]
        /\ heaps = [views |-> Bindings!Default, samplers |-> "main"] /\ bindingsPipeline = Null
        /\ bindingsAsked = [constants |-> FALSE, uniforms |-> FALSE, blit |-> FALSE]
    BY DEF Bindings!Init, Bindings!NoParameters, Bindings!Nothing
  <2>2. /\ Bindings!Stale \in Bindings!Parameters /\ Bindings!Default \in Bindings!Table
        /\ Bindings!Unbound \in [{"graphics", "compute"} -> Bindings!Table \cup {Null}]
    BY DEF Bindings!Stale, Bindings!Parameters, Bindings!Table, Bindings!Unbound
  <2>3. Bindings!TypeOK
    BY <2>1, <2>2 DEF Bindings!TypeOK
  <2> QED
    BY <2>1, <2>3 DEF BindingInv, BlitsAreNoted, HeapsFollowNotes, RootFollowsNotes
<1>2. BindingInv /\ [Bindings!Next]_(Bindings!vars) => BindingInv'
  BY BindingsHold
<1> DEFINE Found ==
      ~bindingsAsked.blit =>
        /\ Bindings!Draw \/ Bindings!DrawIndirect =>
             /\ Bindings!TableIsThere("graphics") /\ Bindings!SpecIsThere("graphics")
             /\ signature = "main" /\ root'.graphics.draw
             /\ bindingsAsked.constants => root'.graphics.constants
             /\ bindingsAsked.uniforms => root'.graphics.uniforms
        /\ Bindings!Dispatch => Bindings!TableIsThere("compute") /\ Bindings!SpecIsThere("compute")
    Own ==
      Bindings!Draw \/ Bindings!DrawIndirect =>
        signature = "main" /\ heaps' = [views |-> Bindings!Wanted, samplers |-> "main"]
<1>3. BindingInv => Found /\ Own
  BY DrawsFind, DispatchesFind
<1>4. BindingInv => [Found]_(Bindings!vars) /\ [Own]_(Bindings!vars)
  BY <1>3
<1> QED
  BY <1>1, <1>2, <1>4, PTL DEF Bindings!Spec, Bindings!BoundUnlessBlitted, Bindings!NoDrawWithBlitState

-----------------------------------------------------------------------------
(* D3DInputs *)

InputTypes ==
  /\ open \in BOOLEAN /\ inputsPipeline \in VertexPipeline \cup {Null}
  /\ invalidated \subseteq Inputs!Slot /\ inputsPending \in [Inputs!Slot -> VertexBuffer \cup {Null}]
  /\ DOMAIN inputsBound = Inputs!Slot
  /\ minMax.min \in Nat /\ minMax.max \in Nat
(* What is not bound as the pipeline reads it will be, before a draw.      *)
BoundOrPending ==
  inputsPipeline # Null =>
    \A s \in Inputs!Reads(inputsPipeline) :
      \/ s \in invalidated
      \/ inputsBound[s] = [buffer |-> inputsPending[s], stride |-> VertexStrides[inputsPipeline][s]]
(* The queries written lie in the range that will be resolved.             *)
WrittenInRange ==
  open => \A q \in written : q \in Nat /\ minMax.any /\ minMax.min <= q /\ q <= minMax.max

InputInv ==
  /\ InputTypes /\ BoundOrPending /\ WrittenInRange /\ Inputs!ListsEndClean
  /\ ~open => minMax = Inputs!NoRange

(* The lesser and the greater of two numbers.                              *)
LEMMA LeastAndGreatest ==
  ASSUME NEW m \in Nat, NEW n \in Nat
  PROVE  /\ Min({m, n}) \in Nat /\ Min({m, n}) <= m /\ Min({m, n}) <= n
         /\ Max({m, n}) \in Nat /\ Max({m, n}) >= m /\ Max({m, n}) >= n
<1>1. \E x \in {m, n} : \A y \in {m, n} : x <= y
  OBVIOUS
<1>2. \E x \in {m, n} : \A y \in {m, n} : x >= y
  OBVIOUS
<1>3. Min({m, n}) \in {m, n} /\ \A y \in {m, n} : Min({m, n}) <= y
  BY <1>1 DEF Min
<1>4. Max({m, n}) \in {m, n} /\ \A y \in {m, n} : Max({m, n}) >= y
  BY <1>2 DEF Max
<1> QED
  BY <1>3, <1>4

(* A draw leaves nothing pending of what its pipeline reads.               *)
LEMMA DrawBinds ==
  ASSUME InputInv, Inputs!Draw
  PROVE  /\ \A s \in Inputs!Reads(inputsPipeline) :
              inputsBound'[s] = [buffer |-> inputsPending[s], stride |-> VertexStrides[inputsPipeline][s]]
         /\ DOMAIN inputsBound' = Inputs!Slot
<1>1. PICK strides \in [invalidated -> UNION {Inputs!StrideOf(s) : s \in invalidated}] :
        /\ \A s \in invalidated : strides[s] \in Inputs!StrideOf(s)
        /\ inputsBound' = [s \in Inputs!Slot |->
             IF s \in invalidated /\ strides[s] # 0
             THEN [buffer |-> inputsPending[s], stride |-> strides[s]] ELSE inputsBound[s]]
  BY DEF Inputs!Draw, Inputs!FlushPendingVertexBufferBinds
<1>2. inputsPipeline # Null /\ inputsPipeline \in VertexPipeline
  BY DEF Inputs!Draw, InputInv, InputTypes
<1>3. ASSUME NEW s \in Inputs!Reads(inputsPipeline)
      PROVE  inputsBound'[s] = [buffer |-> inputsPending[s], stride |-> VertexStrides[inputsPipeline][s]]
  <2>1. /\ s \in DOMAIN VertexStrides[inputsPipeline] /\ VertexStrides[inputsPipeline][s] # 0
        /\ s \in Inputs!Slot
    BY <1>2, <1>3, InputsAssumption DEF Inputs!Reads, Inputs!SlotsAssumption, Inputs!Slot
  <2>2. CASE s \in invalidated
    <3>1. strides[s] = VertexStrides[inputsPipeline][s]
      BY <1>1, <2>1, <2>2 DEF Inputs!StrideOf
    <3> QED
      BY <1>1, <2>1, <2>2, <3>1
  <2>3. CASE s \notin invalidated
    BY <1>1, <1>2, <1>3, <2>1, <2>3 DEF InputInv, BoundOrPending
  <2> QED
    BY <2>2, <2>3
<1> QED
  BY <1>1, <1>3

(* A list, its buffers, its pipelines and queries.                         *)
LEMMA InputsHold ==
  ASSUME InputInv, [Inputs!Next]_(Inputs!vars)
  PROVE  InputInv'
<1> USE DEF InputInv, InputTypes, BoundOrPending, WrittenInRange, Inputs!ListsEndClean, Inputs!NoRange
<1>1. CASE Inputs!GetCommandBuffer
  BY <1>1 DEF Inputs!GetCommandBuffer
<1>2. ASSUME NEW s \in Inputs!Slot, NEW b \in VertexBuffer, Inputs!SetVertexBuffer(s, b)
      PROVE  InputInv'
  BY <1>2 DEF Inputs!SetVertexBuffer
<1>3. ASSUME NEW p \in VertexPipeline, Inputs!SetRasterPipeline(p)
      PROVE  InputInv'
  <2>1. Inputs!Reads(p) \subseteq Inputs!Slot
    BY InputsAssumption DEF Inputs!Reads, Inputs!SlotsAssumption, Inputs!Slot
  <2> QED
    BY <1>3, <2>1 DEF Inputs!SetRasterPipeline
<1>4. CASE Inputs!Draw
  <2>1. /\ open /\ invalidated' = {}
        /\ UNCHANGED <<open, inputsPipeline, inputsPending, minMax, written, inputsResolved>>
    BY <1>4 DEF Inputs!Draw, Inputs!FlushPendingVertexBufferBinds
  <2>2. Inputs!Reads(inputsPipeline') = Inputs!Reads(inputsPipeline)
    BY <2>1
  <2> QED
    BY <1>4, <2>1, <2>2, DrawBinds
<1>5. ASSUME NEW q \in Inputs!Query, Inputs!WriteTimestamp(q)
      PROVE  InputInv'
  <2>1. q \in Nat
    BY InputsAssumption DEF Inputs!Query, Inputs!SlotsAssumption
  <2>2. /\ open /\ minMax' = [min |-> Min({minMax.min, q}), max |-> Max({minMax.max, q}), any |-> TRUE]
        /\ written' = written \cup {q}
        /\ UNCHANGED <<open, inputsPipeline, inputsPending, invalidated, inputsBound, inputsResolved>>
    BY <1>5 DEF Inputs!WriteTimestamp, Inputs!Min, Min, Inputs!Max, Max
  <2>3. /\ minMax'.min \in Nat /\ minMax'.min <= minMax.min /\ minMax'.min <= q
        /\ minMax'.max \in Nat /\ minMax'.max >= minMax.max /\ minMax'.max >= q /\ minMax'.any
    BY <2>1, <2>2, LeastAndGreatest
  <2> QED
    BY <2>1, <2>2, <2>3
<1>6. CASE Inputs!Complete
  <2>1. \A q \in written : q \in minMax.min .. minMax.max
    BY <1>6 DEF Inputs!Complete
  <2> QED
    BY <1>6, <2>1 DEF Inputs!Complete
<1>7. CASE UNCHANGED Inputs!vars
  BY <1>7 DEF Inputs!vars
<1> QED
  BY <1>1, <1>2, <1>3, <1>4, <1>5, <1>6, <1>7 DEF Inputs!Next

(* SetVertexBuffer, SetRasterPipeline and the draws: each slot a pipeline  *)
(* reads has the buffer set last and the pipeline's own stride, for any    *)
(* pipelines and slots; and a list resolves every query it has written and *)
(* leaves nothing to the next.                                             *)
LEMMA InputsAreRead ==
  Inputs!Spec => Inputs!DrawsReadWhatIsSet /\ []Inputs!ListsEndClean
<1>1. Inputs!Init => InputInv
  <2> SUFFICES ASSUME Inputs!Init PROVE InputInv
    OBVIOUS
  <2>1. /\ open = FALSE /\ inputsPipeline = Null /\ invalidated = {} /\ written = {} /\ inputsResolved = {}
        /\ inputsPending = [s \in Inputs!Slot |-> Null] /\ DOMAIN inputsBound = Inputs!Slot
        /\ minMax = Inputs!NoRange
    BY DEF Inputs!Init
  <2>2. InputTypes
    BY <2>1 DEF InputTypes, Inputs!NoRange
  <2>3. BoundOrPending /\ WrittenInRange /\ Inputs!ListsEndClean
    BY <2>1 DEF BoundOrPending, WrittenInRange, Inputs!ListsEndClean
  <2> QED
    BY <2>1, <2>2, <2>3 DEF InputInv
<1>2. InputInv /\ [Inputs!Next]_(Inputs!vars) => InputInv'
  BY InputsHold
<1>3. InputInv /\ [Inputs!Next]_(Inputs!vars) =>
        [Inputs!Draw => \A s \in Inputs!Reads(inputsPipeline) :
           inputsBound'[s] = [buffer |-> inputsPending[s], stride |-> VertexStrides[inputsPipeline][s]]]_(Inputs!vars)
  BY DrawBinds
<1>4. InputInv => Inputs!ListsEndClean
  BY DEF InputInv
<1> QED
  BY <1>1, <1>2, <1>3, <1>4, PTL DEF Inputs!Spec, Inputs!DrawsReadWhatIsSet

(* D3DBindings and D3DInputs together: but for a table dropped by a blit,  *)
(* a draw finds the pipeline, the constants, the views and the vertex      *)
(* buffers set last, and a list leaves nothing to the next.                *)
THEOREM DrawsAreFound == Bindings!Spec /\ Inputs!Spec => DrawsFindWhatWasSet
<1>1. Inputs!ListsEndClean => (part = "inputs" => Inputs!ListsEndClean)
  OBVIOUS
<1> QED
  BY <1>1, WorkIsBound, InputsAreRead, PTL DEF DrawsFindWhatWasSet

-----------------------------------------------------------------------------
(* D3DPasses *)

LayerOf(s) == [of |-> s.of, layer |-> s.layer]

PassTypes ==
  /\ DOMAIN passesLayout = Passes!Layer /\ \A l \in Passes!Layer : passesLayout[l] \in Usable[l.of]
  /\ passesState = [s \in Passes!Subresource |-> passesState[s]]
  /\ DOMAIN targets = 1..MaxTargets
  /\ passesPass.colour \in Passes!Attachments
(* A subresource is in the state of its layer's layout.                    *)
StatesAreMasked ==
  \A s \in Passes!Subresource : passesState[s] = Passes!Masked(s.of, passesLayout[LayerOf(s)])
(* What is remembered of a pass is what it was begun with.                 *)
PassIsRemembered ==
  /\ resolves = Passes!Wanted(passesPass.colour)
  /\ \A i \in DOMAIN passesPass.colour : LET a == passesPass.colour[i] IN
       a.resolve # Passes!None =>
         /\ a.target # a.resolve
         /\ passesLayout[a.target] = "RenderTarget" /\ passesLayout[a.resolve] = "RenderTarget"
  /\ \A i \in DOMAIN passesPass.colour : i \in 1..MaxTargets => targets[i] = passesPass.colour[i].target
  /\ passesPass.depth # Passes!None => depth = passesPass.depth

PassInv ==
  /\ PassTypes /\ StatesAreMasked /\ PassIsRemembered /\ Passes!TouchesOnlyAttached

(* The attachments of a pass: at most two.                                 *)
LEMMA AttachmentsAre ==
  ASSUME NEW c \in Passes!Attachments
  PROVE  /\ DOMAIN c \subseteq {1, 2}
         /\ \A i \in DOMAIN c : c[i] \in Passes!Attachment
<1>1. CASE c = <<>>
  BY <1>1
<1>2. CASE c \in {<<a>> : a \in Passes!Attachment}
  BY <1>2
<1>3. CASE c \in {<<a, b>> : a, b \in Passes!Attachment}
  BY <1>3
<1> QED
  BY <1>1, <1>2, <1>3 DEF Passes!Attachments

(* The instance counts as this module does.                                *)
LEMMA CardinalityIs ==
  ASSUME NEW S
  PROVE  Passes!Cardinality(S) = Cardinality(S)
BY DEF Passes!Cardinality, Cardinality

(* The places that resolve, one after the other.                           *)
LEMMA NthOfTwo ==
  ASSUME NEW S \in SUBSET {1, 2}
  PROVE  /\ Cardinality(S) \in {0, 1, 2} /\ (S = {} => Cardinality(S) = 0)
         /\ \A k \in 1..Cardinality(S) : Passes!Nth(S, k) \in S
<1>1. /\ Cardinality({}) = 0 /\ Cardinality({1}) = 1 /\ Cardinality({2}) = 1
  BY FS_EmptySet, FS_Singleton
<1>2. Cardinality({1, 2}) = 2
  <2>1. {1, 2} = {1} \cup {2} /\ 2 \notin {1}
    OBVIOUS
  <2>2. Cardinality({1} \cup {2}) = Cardinality({1}) + 1
    BY <2>1, FS_Singleton, FS_AddElement, Zenon
  <2>3. Cardinality({1, 2}) = 1 + 1
    BY <1>1, <2>1, <2>2, Zenon
  <2> QED
    BY <2>3
<1>3. S = {} \/ S = {1} \/ S = {2} \/ S = {1, 2}
  OBVIOUS
<1>4. Cardinality(S) \in {0, 1, 2} /\ (S = {} => Cardinality(S) = 0)
  BY <1>1, <1>2, <1>3, Zenon
<1>5. ASSUME NEW k \in 1..Cardinality(S)
      PROVE  \E i \in S : Cardinality({j \in S : j <= i}) = k
  <2>1. CASE S = {}
    BY <1>1, <1>5, <2>1
  <2>2. CASE S = {1}
    <3>1. k = 1 /\ {j \in S : j <= 1} = {1}
      BY <1>1, <1>5, <2>2
    <3> QED
      BY <1>1, <2>2, <3>1
  <2>3. CASE S = {2}
    <3>1. k = 1 /\ {j \in S : j <= 2} = {2}
      BY <1>1, <1>5, <2>3
    <3> QED
      BY <1>1, <2>3, <3>1
  <2>4. CASE S = {1, 2}
    <3>1. k = 1 \/ k = 2
      BY <1>2, <1>5, <2>4
    <3>2. {j \in S : j <= 1} = {1} /\ {j \in S : j <= 2} = {1, 2}
      BY <2>4
    <3> QED
      BY <1>1, <1>2, <2>4, <3>1, <3>2
  <2> QED
    BY <1>3, <2>1, <2>2, <2>3, <2>4
<1>6. ASSUME NEW k \in 1..Cardinality(S)
      PROVE  Passes!Nth(S, k) \in S
  BY <1>5, <1>6, CardinalityIs DEF Passes!Nth
<1> QED
  BY <1>4, <1>6

(* The resolves of a pass.                                                 *)
LEMMA WantedOf ==
  ASSUME NEW c \in Passes!Attachments
  PROVE  /\ Passes!Wanted(c) \in Seq(Passes!Target \X Passes!Target)
         /\ \A k \in 1..Len(Passes!Wanted(c)) : \E i \in DOMAIN c :
              c[i].resolve # Passes!None /\ Passes!Wanted(c)[k] = <<c[i].target, c[i].resolve>>
         /\ <<>> \o Passes!Wanted(c) = Passes!Wanted(c)
         /\ c = <<>> => Passes!Wanted(c) = <<>>
<1> DEFINE R == Passes!Resolving(c)
           n == Cardinality(R)
           W == Passes!Wanted(c)
<1>1. R \in SUBSET {1, 2} /\ (c = <<>> => R = {})
  BY AttachmentsAre DEF Passes!Resolving
<1>2. n \in Nat /\ (R = {} => n = 0) /\ \A k \in 1..n : Passes!Nth(R, k) \in R
  BY <1>1, NthOfTwo
<1>3. W = [k \in 1..n |-> <<c[Passes!Nth(R, k)].target, c[Passes!Nth(R, k)].resolve>>]
  BY CardinalityIs DEF Passes!Wanted
<1>4. ASSUME NEW i \in R
      PROVE  /\ i \in DOMAIN c /\ c[i].resolve # Passes!None
             /\ c[i].target \in Passes!Target /\ c[i].resolve \in Passes!Target
  BY <1>4, AttachmentsAre DEF Passes!Resolving, Passes!Attachment
<1> HIDE DEF R, n, W
<1>5. ASSUME NEW k \in 1..n
      PROVE  \E i \in R : W[k] = <<c[i].target, c[i].resolve>>
  BY <1>2, <1>3
<1>6. \A k \in 1..n : W[k] \in Passes!Target \X Passes!Target
  BY <1>4, <1>5
<1>7. W \in [1..n -> Passes!Target \X Passes!Target]
  BY <1>3, <1>6
<1>8. W \in Seq(Passes!Target \X Passes!Target) /\ Len(W) = n
  BY <1>2, <1>7
<1>9. <<>> \o W = W
  BY <1>8
<1>10. c = <<>> => W = <<>>
  BY <1>1, <1>2, <1>8
<1> QED
  BY <1>4, <1>5, <1>8, <1>9, <1>10 DEF W

(* Resolving one render target into another leaves every state as it was.  *)
LEMMA ResolveRestores ==
  ASSUME PassInv, NEW r \in Passes!Target, NEW t \in Passes!Target, r # t,
         passesLayout[r] = "RenderTarget", passesLayout[t] = "RenderTarget"
  PROVE  Passes!Resolve(passesState, <<r, t>>) = passesState
<1>1. ASSUME NEW l \in Passes!Target, passesLayout[l] = "RenderTarget", NEW s \in Passes!First(l)
      PROVE  s \in Passes!Subresource /\ passesState[s] = {"RENDER_TARGET"}
  <2>1. /\ s \in Passes!Subresource /\ s.of = l.of /\ s.layer = l.layer
        /\ l \in Passes!Layer /\ l.of \in Colour
    BY <1>1 DEF Passes!First, Passes!Target
  <2>2. PICK i \in PassBuffer \cup Passes!Image : l \in [of : {i}, layer : 1..Layers[i]]
    BY <2>1 DEF Passes!Layer
  <2>3. LayerOf(s) = l
    BY <2>1, <2>2 DEF LayerOf
  <2>4. Passes!Masked(l.of, "RenderTarget") = {"RENDER_TARGET"}
    BY <2>1, PassesAssumption DEF Passes!UsableAssumption, Passes!Masked, Passes!ToD3D12State
  <2> QED
    BY <1>1, <2>1, <2>3, <2>4 DEF PassInv, StatesAreMasked
<1>2. Passes!First(r) \cap Passes!First(t) = {}
  <2> SUFFICES ASSUME NEW s \in Passes!First(r), s \in Passes!First(t) PROVE FALSE
    OBVIOUS
  <2>1. r.of = t.of /\ r.layer = t.layer
    BY DEF Passes!First
  <2>2. PICK i \in PassBuffer \cup Passes!Image : r \in [of : {i}, layer : 1..Layers[i]]
    BY DEF Passes!Target, Passes!Layer
  <2>3. PICK j \in PassBuffer \cup Passes!Image : t \in [of : {j}, layer : 1..Layers[j]]
    BY DEF Passes!Target, Passes!Layer
  <2> QED
    BY <2>1, <2>2, <2>3
<1> DEFINE A == Passes!First(r)
           B == Passes!First(t)
           D == Passes!Subresource
           RT == {"RENDER_TARGET"}
           n1 == Passes!Transition(passesState, B, RT, {"RESOLVE_DEST"})
           n2 == Passes!Transition(n1, A, RT, {"RESOLVE_SOURCE"})
           n3 == Passes!Transition(n2, B, {"RESOLVE_DEST"}, RT)
           n4 == Passes!Transition(n3, A, {"RESOLVE_SOURCE"}, RT)
<1>3. Passes!Resolve(passesState, <<r, t>>) = n4
  BY DEF Passes!Resolve
<1>4. DOMAIN passesState = D /\ passesState = [s \in D |-> passesState[s]]
  BY DEF PassInv, PassTypes
<1>5. /\ \A s \in A : s \in D /\ s \notin B /\ passesState[s] = RT
      /\ \A s \in B : s \in D /\ s \notin A /\ passesState[s] = RT
  BY <1>1, <1>2
<1> HIDE DEF A, B, D, RT
<1>6. n1 = [s \in D |-> IF s \in B THEN {"RESOLVE_DEST"} ELSE passesState[s]]
  BY <1>4, <1>5 DEF Passes!Transition
<1>7. n2 = [s \in D |-> IF s \in B THEN {"RESOLVE_DEST"} ELSE IF s \in A THEN {"RESOLVE_SOURCE"} ELSE passesState[s]]
  <2> HIDE DEF n1
  <2> QED
    BY <1>5, <1>6 DEF Passes!Transition
<1>8. n3 = [s \in D |-> IF s \in B THEN RT ELSE IF s \in A THEN {"RESOLVE_SOURCE"} ELSE passesState[s]]
  <2> HIDE DEF n2
  <2> QED
    BY <1>5, <1>7 DEF Passes!Transition
<1>9. n4 = [s \in D |-> IF s \in B THEN RT ELSE IF s \in A THEN RT ELSE passesState[s]]
  <2> HIDE DEF n3
  <2> QED
    BY <1>5, <1>8 DEF Passes!Transition
<1> HIDE DEF n4
<1>10. \A s \in D : (IF s \in B THEN RT ELSE IF s \in A THEN RT ELSE passesState[s]) = passesState[s]
  BY <1>5
<1> QED
  BY <1>3, <1>4, <1>9, <1>10

(* However many resolves a pass asked for, its end leaves every state.     *)
LEMMA EndSettles ==
  ASSUME PassInv
  PROVE  Passes!settled[Len(resolves)] = passesState
<1> DEFINE n == Len(resolves)
           Is(g) == g = [m \in 0..n |-> IF m = 0 THEN passesState ELSE Passes!Resolve(g[m - 1], resolves[m])]
           all0 == [m \in 0..n |-> passesState]
<1>1. /\ passesPass.colour \in Passes!Attachments /\ resolves = Passes!Wanted(passesPass.colour)
  BY DEF PassInv, PassTypes, PassIsRemembered
<1>2. n \in Nat
  BY <1>1, WantedOf
<1>3. ASSUME NEW m \in 1..n
      PROVE  Passes!Resolve(passesState, resolves[m]) = passesState
  <2>1. PICK i \in DOMAIN passesPass.colour :
          /\ passesPass.colour[i].resolve # Passes!None
          /\ resolves[m] = <<passesPass.colour[i].target, passesPass.colour[i].resolve>>
    BY <1>1, WantedOf
  <2>2. passesPass.colour[i] \in Passes!Attachment
    BY <1>1, AttachmentsAre
  <2>3. passesPass.colour[i].target \in Passes!Target /\ passesPass.colour[i].resolve \in Passes!Target
    BY <2>1, <2>2 DEF Passes!Attachment
  <2> QED
    BY <2>1, <2>3, ResolveRestores DEF PassInv, PassIsRemembered
<1>4. Is(all0)
  <2>1. \A m \in 0..n : m = 0 \/ (m \in 1..n /\ m - 1 \in 0..n)
    BY <1>2
  <2>2. ASSUME NEW m \in 0..n
        PROVE  all0[m] = IF m = 0 THEN passesState ELSE Passes!Resolve(all0[m - 1], resolves[m])
    BY <1>3, <2>1
  <2> QED
    BY <2>2
<1>5. Is(Passes!settled)
  <2>1. Passes!settled = CHOOSE g : Is(g)
    BY DEF Passes!settled
  <2> HIDE DEF Is
  <2> QED
    BY <1>4, <2>1
<1>6. n \in {0, 1, 2}
  <2> DEFINE R == Passes!Resolving(passesPass.colour)
  <2>1. R \in SUBSET {1, 2}
    BY <1>1, AttachmentsAre DEF Passes!Resolving
  <2>2. Cardinality(R) \in {0, 1, 2}
    BY <2>1, NthOfTwo
  <2>3. n = Cardinality(R)
    BY <1>1, <2>2, CardinalityIs DEF Passes!Wanted
  <2> QED
    BY <2>2, <2>3
<1>7. Passes!settled[0] = passesState
  BY <1>2, <1>5
<1>8. n >= 1 => Passes!settled[1] = passesState
  <2>1. n >= 1 => Passes!settled[1] = Passes!Resolve(Passes!settled[0], resolves[1])
    BY <1>2, <1>5
  <2> QED
    BY <1>2, <1>3, <1>7, <2>1
<1>9. n >= 2 => Passes!settled[2] = passesState
  <2>1. n >= 2 => Passes!settled[2] = Passes!Resolve(Passes!settled[1], resolves[2])
    BY <1>2, <1>5
  <2> QED
    BY <1>2, <1>3, <1>8, <2>1
<1> HIDE DEF n
<1>10. ASSUME n = 0 PROVE Passes!settled[n] = passesState
  BY <1>7, <1>10
<1>11. ASSUME n = 1 PROVE Passes!settled[n] = passesState
  BY <1>8, <1>11
<1>12. ASSUME n = 2 PROVE Passes!settled[n] = passesState
  BY <1>9, <1>12
<1>13. Passes!settled[n] = passesState
  BY <1>6, <1>10, <1>11, <1>12
<1> QED
  BY <1>13 DEF n

(* A barrier, within what images and buffers are made for.                 *)
LEMMA BarrierKeepsStates ==
  ASSUME PassInv, NEW i \in PassBuffer \cup Passes!Image, NEW slice \in Passes!Slices(i),
         NEW from \in Usable[i], NEW to \in Usable[i], Passes!Barrier(i, slice, from, to)
  PROVE  PassInv'
<1> DEFINE before == Passes!Masked(i, from)
           after == Passes!Masked(i, to)
<1>1. /\ passesPass = Passes!NoPass
      /\ \A m \in slice : passesLayout[[of |-> i, layer |-> m]] = from
      /\ passesLayout' = [l \in Passes!Layer |-> IF l.of = i /\ l.layer \in slice THEN to ELSE passesLayout[l]]
      /\ passesState' = IF before = after THEN passesState
                        ELSE Passes!Transition(passesState, Passes!Named(i, slice), before, after)
      /\ UNCHANGED <<passesPass, targets, depth, resolves, passesResolved, touched>>
  BY DEF Passes!Barrier, Passes!Outside
<1> HIDE DEF before, after
<1>2. passesState = [s \in Passes!Subresource |-> passesState[s]]
  BY DEF PassInv, PassTypes
<1>3. ASSUME NEW s \in Passes!Subresource
      PROVE  /\ LayerOf(s) \in Passes!Layer
             /\ LayerOf(s).of = s.of /\ LayerOf(s).layer = s.layer
  <2>1. PICK l \in Passes!Layer : s.of = l.of /\ s.layer = l.layer
    BY DEF Passes!Subresource
  <2>2. PICK j \in PassBuffer \cup Passes!Image : l \in [of : {j}, layer : 1..Layers[j]]
    BY DEF Passes!Layer
  <2>3. LayerOf(s) = l
    BY <2>1, <2>2 DEF LayerOf
  <2> QED
    BY <2>1, <2>3
<1>4. ASSUME NEW s \in Passes!Subresource
      PROVE  /\ passesState'[s] = Passes!Masked(s.of, passesLayout'[LayerOf(s)])
  <2>1. CASE s.of = i /\ s.layer \in slice
    <3>1. passesLayout[LayerOf(s)] = from /\ passesLayout'[LayerOf(s)] = to
      BY <1>1, <1>3, <2>1 DEF LayerOf
    <3>2. passesState[s] = before
      BY <2>1, <3>1 DEF PassInv, StatesAreMasked, before
    <3>3. passesState'[s] = after
      BY <1>1, <1>2, <2>1, <3>2 DEF Passes!Transition, Passes!Named
    <3> QED
      BY <2>1, <3>1, <3>3 DEF after
  <2>2. CASE ~(s.of = i /\ s.layer \in slice)
    <3>1. passesLayout'[LayerOf(s)] = passesLayout[LayerOf(s)]
      BY <1>1, <1>3, <2>2
    <3>2. passesState'[s] = passesState[s]
      BY <1>1, <1>2, <2>2 DEF Passes!Transition, Passes!Named
    <3> QED
      BY <3>1, <3>2 DEF PassInv, StatesAreMasked
  <2> QED
    BY <2>1, <2>2
<1>5. StatesAreMasked'
  BY <1>4 DEF StatesAreMasked, Passes!Subresource, Passes!Layer, Passes!Image, LayerOf
<1>6. PassTypes'
  <2>1. passesState' = [s \in Passes!Subresource |-> passesState'[s]]
    BY <1>1, <1>2 DEF Passes!Transition
  <2>2. /\ DOMAIN passesLayout' = Passes!Layer
        /\ \A l \in Passes!Layer : passesLayout'[l] \in Usable[l.of]
    BY <1>1 DEF PassInv, PassTypes
  <2> QED
    BY <1>1, <2>1, <2>2 DEF PassInv, PassTypes
<1>7. PassIsRemembered'
  <2>1. DOMAIN passesPass.colour = {} /\ passesPass.colour = <<>> /\ passesPass.depth = Passes!None
    BY <1>1 DEF Passes!NoPass
  <2>2. resolves' = Passes!Wanted(passesPass'.colour) /\ DOMAIN passesPass'.colour = {}
    BY <1>1, <2>1 DEF PassInv, PassIsRemembered
  <2> QED
    BY <1>1, <2>1, <2>2 DEF PassIsRemembered
<1>8. Passes!TouchesOnlyAttached'
  BY <1>1 DEF Passes!TouchesOnlyAttached, Passes!Outside
<1> QED
  BY <1>5, <1>6, <1>7, <1>8 DEF PassInv

(* Barriers, passes with their resolves, and clears.                       *)
LEMMA PassesHold ==
  ASSUME PassInv, [Passes!Next]_(Passes!vars)
  PROVE  PassInv'
<1>1. ASSUME NEW i \in PassBuffer \cup Passes!Image, NEW slice \in Passes!Slices(i),
             NEW from \in Usable[i], NEW to \in Usable[i], Passes!Barrier(i, slice, from, to)
      PROVE  PassInv'
  BY <1>1, BarrierKeepsStates
<1>2. ASSUME NEW c \in Passes!Attachments, NEW d \in Passes!DepthTarget \cup {Passes!None},
             NEW load \in BOOLEAN, Passes!BeginRenderPass(c, d, load)
      PROVE  PassInv'
  <2>1. /\ passesPass = Passes!NoPass /\ Passes!Attachable(c, d)
        /\ passesPass' = [colour |-> c, depth |-> d]
        /\ targets' = [i \in 1..MaxTargets |-> IF i \in DOMAIN c THEN c[i].target ELSE targets[i]]
        /\ depth' = IF d = Passes!None THEN depth ELSE d
        /\ resolves' = resolves \o Passes!Wanted(c)
        /\ touched' = IF load THEN {} ELSE {c[i].target : i \in DOMAIN c} \cup ({d} \ {Passes!None})
        /\ passesLayout' = passesLayout /\ passesState' = passesState
    BY <1>2 DEF Passes!BeginRenderPass, Passes!Outside
  <2>2. PassTypes'
    BY <2>1 DEF PassInv, PassTypes
  <2>3. StatesAreMasked'
    BY <2>1 DEF PassInv, StatesAreMasked
  <2>4. resolves' = Passes!Wanted(c)
    <3>1. passesPass.colour = <<>>
      BY <2>1 DEF Passes!NoPass
    <3>2. resolves = <<>>
      BY <3>1, WantedOf DEF PassInv, PassIsRemembered, PassTypes
    <3> QED
      BY <2>1, <3>2, WantedOf
  <2>5. ASSUME NEW i \in DOMAIN c, c[i].resolve # Passes!None
        PROVE  /\ c[i].target # c[i].resolve
               /\ passesLayout[c[i].target] = "RenderTarget" /\ passesLayout[c[i].resolve] = "RenderTarget"
    <3>1. c[i] \in Passes!Attachment
      BY AttachmentsAre
    <3>2. c[i].target \in Passes!Target
      BY <3>1 DEF Passes!Attachment
    <3>3. c[i].target # Passes!None
      <4>1. PICK j \in PassBuffer \cup Passes!Image : c[i].target \in [of : {j}, layer : 1..Layers[j]]
        BY <3>2 DEF Passes!Target, Passes!Layer
      <4> QED
        BY <4>1 DEF Passes!None
    <3> QED
      BY <2>1, <2>5, <3>3 DEF Passes!Attachable
  <2>6. PassIsRemembered'
    BY <2>1, <2>4, <2>5 DEF PassIsRemembered
  <2>7. Passes!TouchesOnlyAttached'
    BY <2>1 DEF Passes!TouchesOnlyAttached
  <2> QED
    BY <2>2, <2>3, <2>6, <2>7 DEF PassInv
<1>3. CASE Passes!EndRenderPass
  <2>1. /\ passesState' = passesState /\ passesPass' = Passes!NoPass /\ resolves' = <<>>
        /\ targets' = [i \in 1..MaxTargets |-> Passes!None]
        /\ passesLayout' = passesLayout
    BY <1>3, EndSettles DEF Passes!EndRenderPass
  <2>2. /\ passesPass'.colour = <<>> /\ passesPass'.depth = Passes!None /\ DOMAIN <<>> = {}
        /\ <<>> \in Passes!Attachments
    BY <2>1 DEF Passes!NoPass, Passes!Attachments
  <2>3. PassTypes'
    BY <2>1, <2>2 DEF PassInv, PassTypes
  <2>4. StatesAreMasked'
    BY <2>1 DEF PassInv, StatesAreMasked
  <2>5. PassIsRemembered'
    BY <2>1, <2>2, WantedOf DEF PassIsRemembered
  <2>6. Passes!TouchesOnlyAttached'
    BY <2>1 DEF Passes!TouchesOnlyAttached, Passes!Outside
  <2> QED
    BY <2>3, <2>4, <2>5, <2>6 DEF PassInv
<1>4. ASSUME NEW i \in 1..MaxTargets, Passes!ClearColour(i)
      PROVE  PassInv'
  <2>1. /\ i \in DOMAIN passesPass.colour /\ touched' = touched \cup {targets[i]}
        /\ UNCHANGED <<passesLayout, passesState, passesPass, targets, depth, resolves>>
    BY <1>4 DEF Passes!ClearColour
  <2>2. targets[i] = passesPass.colour[i].target
    BY <2>1 DEF PassInv, PassIsRemembered
  <2>3. Passes!TouchesOnlyAttached'
    BY <2>1, <2>2 DEF PassInv, Passes!TouchesOnlyAttached, Passes!Outside
  <2> QED
    BY <2>1, <2>3 DEF PassInv, PassTypes, StatesAreMasked, PassIsRemembered
<1>5. CASE Passes!ClearDepth
  <2>1. /\ passesPass.depth # Passes!None /\ touched' = touched \cup {depth}
        /\ UNCHANGED <<passesLayout, passesState, passesPass, targets, depth, resolves>>
    BY <1>5 DEF Passes!ClearDepth
  <2>2. Passes!TouchesOnlyAttached'
    BY <2>1 DEF PassInv, PassIsRemembered, Passes!TouchesOnlyAttached, Passes!Outside
  <2> QED
    BY <2>1, <2>2 DEF PassInv, PassTypes, StatesAreMasked, PassIsRemembered
<1>6. CASE Passes!Complete
  <2>1. /\ passesPass = Passes!NoPass /\ resolves' = <<>>
        /\ UNCHANGED <<passesLayout, passesState, passesPass, targets, depth, touched>>
    BY <1>6 DEF Passes!Complete, Passes!Outside
  <2>2. resolves = <<>>
    BY <2>1, WantedOf DEF Passes!NoPass, PassInv, PassIsRemembered, PassTypes
  <2> QED
    BY <2>1, <2>2 DEF PassInv, PassTypes, StatesAreMasked, PassIsRemembered, Passes!TouchesOnlyAttached, Passes!Outside
<1>7. CASE UNCHANGED Passes!vars
  BY <1>7 DEF Passes!vars, PassInv, PassTypes, StatesAreMasked, PassIsRemembered,
     Passes!TouchesOnlyAttached, Passes!Outside
<1> QED
  BY <1>1, <1>2, <1>3, <1>4, <1>5, <1>6, <1>7 DEF Passes!Next

(* What an image is made for says which bits its states may have.          *)
LEMMA MaskedIsLegal ==
  ASSUME NEW i \in PassBuffer \cup Passes!Image, NEW l \in Usable[i]
  PROVE  /\ Passes!Masked(i, l) # Passes!Lost
         /\ Passes!Asks(i, l) \subseteq Passes!Masked(i, l)
         /\ Passes!Legal(Passes!Masked(i, l))
         /\ l = "PresentSrc" => Passes!Masked(i, l) = {}
<1> USE DEF Passes!Masked, Passes!Asks, Passes!ToD3D12State, Passes!Lost
<1>1. /\ i \in PassBuffer => i \notin Colour /\ i \notin Depth /\ l \in Passes!BufferLayout
      /\ i \in Colour => i \notin PassBuffer /\ i \notin Depth /\ l \in Passes!ImageLayout
      /\ i \in Depth => i \notin PassBuffer /\ i \notin Colour /\ l \in Passes!ImageLayout \ {"BlitDst"}
  BY PassesAssumption DEF Passes!UsableAssumption
<1>2. l \in {"Undefined", "UnorderedAccess", "ReadOnly", "TransferSrc", "TransferDst", "RenderTarget",
             "RenderTargetReadOnly", "BlitSrc", "BlitDst", "PresentSrc"}
  BY <1>1 DEF Passes!BufferLayout, Passes!ImageLayout, Passes!Image
<1>3. Passes!Masked(i, l) # Passes!Lost
  BY <1>1, <1>2 DEF Passes!Image, Passes!BufferLayout
<1>4. Passes!Asks(i, l) \subseteq Passes!Masked(i, l)
  BY <1>1, <1>2 DEF Passes!Image, Passes!BufferLayout
<1>5. Passes!Legal(Passes!Masked(i, l))
  BY <1>1, <1>2 DEF Passes!Image, Passes!BufferLayout, Passes!Legal, Passes!Writes
<1>6. l = "PresentSrc" => Passes!Masked(i, l) = {}
  BY <1>1, <1>2 DEF Passes!Image, Passes!BufferLayout
<1> QED
  BY <1>3, <1>4, <1>5, <1>6

(* ImageBarrier and the render passes: every subresource is in a state     *)
(* Direct3D knows that allows what its layout promises, for any images,    *)
(* layers, targets and layouts they are made for; and a pass clears,       *)
(* discards and resolves what it was begun with, each once.                *)
THEOREM StatesAreKept ==
  Passes!Spec => PassesKeepTheStates
<1>1. Passes!Init => PassInv
  <2> SUFFICES ASSUME Passes!Init PROVE PassInv
    OBVIOUS
  <2>1. /\ passesLayout = [l \in Passes!Layer |-> "Undefined"]
        /\ passesState = [s \in Passes!Subresource |-> {}]
        /\ passesPass = Passes!NoPass /\ targets = [i \in 1..MaxTargets |-> Passes!None]
        /\ resolves = <<>> /\ touched = {}
    BY DEF Passes!Init
  <2>2. /\ passesPass.colour = <<>> /\ passesPass.depth = Passes!None /\ DOMAIN <<>> = {}
        /\ <<>> \in Passes!Attachments
    BY <2>1 DEF Passes!NoPass, Passes!Attachments
  <2>3. \A l \in Passes!Layer : l.of \in PassBuffer \cup Passes!Image
    BY DEF Passes!Layer
  <2>4. PassTypes
    BY <2>1, <2>2, <2>3, PassesAssumption DEF PassTypes, Passes!UsableAssumption, Passes!Image
  <2>5. StatesAreMasked
    <3> SUFFICES ASSUME NEW s \in Passes!Subresource
                 PROVE  passesState[s] = Passes!Masked(s.of, passesLayout[LayerOf(s)])
      BY DEF StatesAreMasked
    <3>1. PICK l \in Passes!Layer : s.of = l.of /\ s.layer = l.layer
      BY DEF Passes!Subresource
    <3>2. PICK i \in PassBuffer \cup Passes!Image : l \in [of : {i}, layer : 1..Layers[i]]
      BY DEF Passes!Layer
    <3>3. LayerOf(s) = l /\ s.of = i
      BY <3>1, <3>2 DEF LayerOf
    <3>4. Passes!Masked(i, "Undefined") = {}
      BY DEF Passes!Masked, Passes!ToD3D12State, Passes!Image
    <3> QED
      BY <2>1, <3>3, <3>4
  <2>6. PassIsRemembered
    BY <2>1, <2>2, WantedOf DEF PassIsRemembered
  <2>7. Passes!TouchesOnlyAttached
    BY <2>1 DEF Passes!TouchesOnlyAttached
  <2> QED
    BY <2>4, <2>5, <2>6, <2>7 DEF PassInv
<1>2. PassInv /\ [Passes!Next]_(Passes!vars) => PassInv'
  BY PassesHold
<1>3. ASSUME PassInv
      PROVE  Passes!StatesFollowLayouts
  <2> SUFFICES ASSUME NEW s \in Passes!Subresource
               PROVE  LET l == passesLayout[[of |-> s.of, layer |-> s.layer]] IN
                      /\ passesState[s] # Passes!Lost
                      /\ Passes!Asks(s.of, l) \subseteq passesState[s] /\ Passes!Legal(passesState[s])
                      /\ l = "PresentSrc" => passesState[s] = {}
    BY DEF Passes!StatesFollowLayouts
  <2>1. PICK l \in Passes!Layer : s.of = l.of /\ s.layer = l.layer
    BY DEF Passes!Subresource
  <2>2. PICK i \in PassBuffer \cup Passes!Image : l \in [of : {i}, layer : 1..Layers[i]]
    BY DEF Passes!Layer
  <2>3. [of |-> s.of, layer |-> s.layer] = l /\ s.of = i
    BY <2>1, <2>2
  <2>4. passesLayout[l] \in Usable[i] /\ passesState[s] = Passes!Masked(i, passesLayout[l])
    BY <1>3, <2>1, <2>2, <2>3 DEF PassInv, PassTypes, StatesAreMasked, LayerOf
  <2> QED
    BY <2>3, <2>4, MaskedIsLegal
<1>4. PassInv => (part = "passes" => Passes!StatesFollowLayouts /\ Passes!TouchesOnlyAttached)
  BY <1>3 DEF PassInv
<1>5. PassInv => [Passes!EndRenderPass => passesResolved' = Passes!Wanted(passesPass.colour)]_(Passes!vars)
  BY DEF PassInv, PassIsRemembered, Passes!EndRenderPass
<1> QED
  BY <1>1, <1>2, <1>4, <1>5, PTL DEF Passes!Spec, PassesKeepTheStates, Passes!ResolvesItsOwn

-----------------------------------------------------------------------------
(* VulkanRecording *)

BarrierTypes ==
  /\ barriersPending \in Seq([image : BarrierImage, old : Barriers!VkLayout, new : Barriers!VkLayout,
                              from : Queue, to : Queue])
  /\ DOMAIN barriersAsked = BarrierImage /\ \A i \in BarrierImage : barriersAsked[i] \in Layout
  /\ DOMAIN barriersLayout = BarrierImage
  /\ queue \in Queue

(* A pending barrier of an image that never changed queues is its only     *)
(* one, and takes it to where the application thinks it is; without one it *)
(* is there.                                                               *)
OneBarrierEach ==
  /\ \A k \in DOMAIN barriersPending : barriersPending[k].image \notin handed =>
       /\ barriersPending[k].from = barriersPending[k].to
       /\ barriersPending[k].new = Barriers!ToVkImageLayout(barriersAsked[barriersPending[k].image])
  /\ \A j, k \in DOMAIN barriersPending :
       barriersPending[j].image = barriersPending[k].image /\ barriersPending[j].image \notin handed => j = k
  /\ \A i \in BarrierImage \ handed : Barriers!Batch(i) = {} =>
       barriersLayout[i] = Barriers!ToVkImageLayout(barriersAsked[i])

BarrierInv ==
  /\ BarrierTypes /\ OneBarrierEach
  /\ completed => barriersPending = <<>>
  /\ \A k \in DOMAIN barriersPending : barriersPending[k].image \in SwapImage => barriersPending[k].image \in refs
  /\ barriersPass \subseteq BarrierImage
  /\ \A i \in barriersPass : barriersAsked[i] = "RenderTarget"
  /\ Barriers!CommandsFindTheirLayouts

(* A batch, in whatever order it is carried out, takes the images that     *)
(* never changed queues to where the application thinks they are, and      *)
(* moves no image of a swap chain that is not known.                       *)
LEMMA BatchSettles ==
  ASSUME BarrierInv, Barriers!FlushBarriers
  PROVE  /\ barriersPending' = <<>> /\ DOMAIN barriersLayout' = BarrierImage
         /\ \A i \in BarrierImage \ handed : barriersLayout'[i] = Barriers!ToVkImageLayout(barriersAsked[i])
         /\ \A i \in BarrierImage : i \in SwapImage /\ barriersLayout'[i] # barriersLayout[i] => i \in refs
<1>1. PICK place \in Barriers!Orders :
        barriersLayout' = [i \in BarrierImage |-> IF Barriers!Batch(i) = {} THEN barriersLayout[i]
                                           ELSE Barriers!LastOf(Barriers!Batch(i), place).new]
  BY DEF Barriers!FlushBarriers
<1>2. barriersPending' = <<>> /\ DOMAIN barriersLayout' = BarrierImage
  BY <1>1 DEF Barriers!FlushBarriers
<1>3. ASSUME NEW i \in BarrierImage \ handed
      PROVE  barriersLayout'[i] = Barriers!ToVkImageLayout(barriersAsked[i])
  <2>1. CASE Barriers!Batch(i) = {}
    BY <1>1, <2>1 DEF BarrierInv, OneBarrierEach
  <2>2. CASE Barriers!Batch(i) # {}
    <3>1. PICK k \in DOMAIN barriersPending : barriersPending[k].image = i
      BY <2>2 DEF Barriers!Batch
    <3>2. Barriers!Batch(i) = {k}
      BY <3>1 DEF Barriers!Batch, BarrierInv, OneBarrierEach
    <3>3. place[k] \in Nat
      BY <3>1 DEF Barriers!Orders, BarrierInv, BarrierTypes
    <3>4. (CHOOSE n \in {k} : \A j \in {k} : place[j] <= place[n]) = k
      BY <3>3
    <3>5. Barriers!LastOf(Barriers!Batch(i), place) = barriersPending[k]
      BY <3>2, <3>4 DEF Barriers!LastOf
    <3>6. barriersPending[k].new = Barriers!ToVkImageLayout(barriersAsked[i])
      BY <3>1 DEF BarrierInv, OneBarrierEach
    <3> QED
      BY <1>1, <2>2, <3>5, <3>6
  <2> QED
    BY <2>1, <2>2
<1>4. ASSUME NEW i \in BarrierImage, i \in SwapImage, barriersLayout'[i] # barriersLayout[i]
      PROVE  i \in refs
  <2>1. PICK k \in DOMAIN barriersPending : barriersPending[k].image = i
    BY <1>1, <1>4 DEF Barriers!Batch
  <2> QED
    BY <1>4, <2>1 DEF BarrierInv
<1> QED
  BY <1>2, <1>3, <1>4

(* A batch with nothing else leaves the invariant's first part.            *)
LEMMA SettledBatch ==
  ASSUME BarrierInv, Barriers!FlushBarriers, UNCHANGED barriersAsked, handed' = handed, queue' \in Queue
  PROVE  /\ BarrierTypes' /\ OneBarrierEach'
         /\ \A k \in DOMAIN barriersPending' : FALSE
<1>1. /\ barriersPending' = <<>> /\ DOMAIN barriersLayout' = BarrierImage
      /\ \A i \in BarrierImage \ handed : barriersLayout'[i] = Barriers!ToVkImageLayout(barriersAsked[i])
  BY BatchSettles
<1>2. DOMAIN <<>> = {} /\ <<>> \in Seq([image : BarrierImage, old : Barriers!VkLayout, new : Barriers!VkLayout,
                              from : Queue, to : Queue])
  OBVIOUS
<1>3. BarrierTypes'
  BY <1>1, <1>2 DEF BarrierTypes, BarrierInv, Barriers!VkLayout
<1>4. OneBarrierEach'
  BY <1>1, <1>2 DEF OneBarrierEach
<1> QED
  BY <1>1, <1>2, <1>3, <1>4

(* A barrier put behind the others.                                        *)
LEMMA BarrierAdded ==
  ASSUME BarrierInv, NEW i \in BarrierImage, NEW b,
         b \in [image : {i}, old : Barriers!VkLayout, new : Barriers!VkLayout, from : Queue, to : Queue],
         barriersPending' = Append(barriersPending, b),
         Barriers!CheckIfSwapchainReference({i}),
         handed' = handed \/ handed' = handed \cup {i},
         DOMAIN barriersAsked' = BarrierImage, \A j \in BarrierImage : barriersAsked'[j] \in Layout,
         \A j \in BarrierImage \ {i} : barriersAsked'[j] = barriersAsked[j],
         i \notin handed' => /\ Barriers!Batch(i) = {} /\ b.from = b.to
                             /\ b.new = Barriers!ToVkImageLayout(barriersAsked'[i]),
         UNCHANGED <<queue, barriersLayout>>
  PROVE  /\ BarrierTypes' /\ OneBarrierEach'
         /\ \A k \in DOMAIN barriersPending' :
              barriersPending'[k].image \in SwapImage => barriersPending'[k].image \in refs'
<1> DEFINE p == barriersPending
           B == [image : BarrierImage, old : Barriers!VkLayout, new : Barriers!VkLayout, from : Queue, to : Queue]
           n == Len(p) + 1
<1>1. b \in B /\ b.image = i
  OBVIOUS
<1>2. p \in Seq(B) /\ DOMAIN p = 1..Len(p) /\ Len(p) \in Nat
  BY DEF BarrierInv, BarrierTypes
<1>3. /\ barriersPending' \in Seq(B) /\ DOMAIN barriersPending' = 1..n
      /\ barriersPending'[n] = b /\ \A k \in DOMAIN p : barriersPending'[k] = p[k]
  BY <1>1, <1>2
<1>4. \A k \in 1..n : k \in DOMAIN p \/ k = n
  BY <1>2
<1>5. BarrierTypes'
  BY <1>3 DEF BarrierTypes, BarrierInv, Barriers!VkLayout
<1> HIDE DEF B
<1>6. ASSUME NEW k \in DOMAIN p
      PROVE  p[k].image \in BarrierImage /\ k \in 1..n
  <2>1. p[k] \in B
    BY <1>2, SMT
  <2>2. k \in 1..n
    BY <1>2
  <2> QED
    BY <2>1, <2>2 DEF B
<1>7. \A k \in DOMAIN p : p[k].image = i => i \in handed'
  BY DEF Barriers!Batch
<1> HIDE DEF p, n
<1>8. ASSUME NEW k \in DOMAIN barriersPending', barriersPending'[k].image \notin handed'
      PROVE  /\ barriersPending'[k].from = barriersPending'[k].to
             /\ barriersPending'[k].new = Barriers!ToVkImageLayout(barriersAsked'[barriersPending'[k].image])
  <2>1. CASE k = n
    BY <1>1, <1>3, <1>8, <2>1
  <2>2. CASE k \in DOMAIN p
    <3>1. p[k].image \in BarrierImage \ {i} /\ p[k].image \notin handed /\ barriersPending'[k] = p[k]
      BY <1>3, <1>6, <1>7, <1>8, <2>2
    <3>2. p[k].from = p[k].to /\ p[k].new = Barriers!ToVkImageLayout(barriersAsked[p[k].image])
      BY <2>2, <3>1 DEF BarrierInv, OneBarrierEach, p
    <3> QED
      BY <3>1, <3>2
  <2> QED
    BY <1>3, <1>4, <2>1, <2>2
<1>9. ASSUME NEW j \in DOMAIN barriersPending', NEW k \in DOMAIN barriersPending',
             barriersPending'[j].image = barriersPending'[k].image, barriersPending'[j].image \notin handed'
      PROVE  j = k
  <2>1. CASE j \in DOMAIN p /\ k \in DOMAIN p
    <3>1. p[j].image = p[k].image /\ p[j].image \notin handed
      BY <1>3, <1>9, <2>1
    <3> QED
      BY <2>1, <3>1 DEF BarrierInv, OneBarrierEach, p
  <2>2. CASE j = n /\ k = n
    BY <2>2
  <2>3. CASE j = n /\ k \in DOMAIN p
    BY <1>1, <1>3, <1>7, <1>9, <2>3
  <2>4. CASE j \in DOMAIN p /\ k = n
    BY <1>1, <1>3, <1>7, <1>9, <2>4
  <2>5. (j \in DOMAIN p \/ j = n) /\ (k \in DOMAIN p \/ k = n)
    BY <1>3, <1>4
  <2> QED
    BY <2>1, <2>2, <2>3, <2>4, <2>5
<1>10. ASSUME NEW j \in BarrierImage \ handed', Barriers!Batch(j)' = {}
       PROVE  barriersLayout'[j] = Barriers!ToVkImageLayout(barriersAsked'[j])
  <2>1. \A k \in DOMAIN barriersPending' : barriersPending'[k].image # j
    BY <1>10 DEF Barriers!Batch
  <2>2. n \in DOMAIN barriersPending'
    BY <1>2, <1>3 DEF n
  <2>3. j # i
    BY <1>1, <1>3, <2>1, <2>2
  <2>4. Barriers!Batch(j) = {}
    BY <1>3, <1>6, <2>1 DEF Barriers!Batch, p
  <2> QED
    BY <2>3, <2>4 DEF BarrierInv, OneBarrierEach
<1>11. OneBarrierEach'
  BY <1>8, <1>9, <1>10 DEF OneBarrierEach
<1>12. ASSUME NEW k \in DOMAIN barriersPending', barriersPending'[k].image \in SwapImage
       PROVE  barriersPending'[k].image \in refs'
  <2>1. refs \subseteq refs' /\ (i \in SwapImage => i \in refs')
    BY DEF Barriers!CheckIfSwapchainReference
  <2>2. CASE k = n
    BY <1>1, <1>3, <1>12, <2>1, <2>2
  <2>3. CASE k \in DOMAIN p
    BY <1>3, <1>12, <2>1, <2>3 DEF BarrierInv, p
  <2> QED
    BY <1>3, <1>4, <2>2, <2>3
<1> QED
  BY <1>5, <1>11, <1>12

(* A command that finds the layouts it names.                              *)
LEMMA CommandFinds ==
  ASSUME BarrierInv, Barriers!FlushBarriers, NEW i \in BarrierImage, NEW l, barriersAsked[i] = l, i \notin handed
  PROVE  Barriers!ToVkImageLayout(l) = barriersLayout'[i]
BY BatchSettles

(* Commands with a batch in front of them.                                 *)
LEMMA CommandsHold ==
  ASSUME BarrierInv, Barriers!FlushBarriers, NEW S, NEW l,
         S \subseteq BarrierImage, \A i \in S : barriersAsked[i] = l,
         used' = {Barriers!Names(i, l) : i \in S},
         barriersPass' \subseteq BarrierImage, \A i \in barriersPass' : barriersAsked[i] = "RenderTarget",
         UNCHANGED <<queue, completed, barriersAsked, handed>>
  PROVE  BarrierInv'
<1>1. /\ BarrierTypes' /\ OneBarrierEach'
      /\ \A k \in DOMAIN barriersPending' : FALSE
  BY SettledBatch DEF BarrierInv, BarrierTypes
<1>2. barriersPending' = <<>>
  BY BatchSettles
<1>3. ASSUME NEW u \in used', u[1] \notin handed'
      PROVE  u[2] = u[3]
  <2>1. PICK i \in S : u = <<i, Barriers!ToVkImageLayout(l), barriersLayout'[i]>>
    BY <1>3 DEF Barriers!Names
  <2>2. i \in BarrierImage /\ barriersAsked[i] = l /\ i \notin handed
    BY <1>3, <2>1
  <2> QED
    BY <2>1, <2>2, CommandFinds
<1> QED
  BY <1>1, <1>2, <1>3 DEF BarrierInv, Barriers!CommandsFindTheirLayouts

(* A command that copies from one image to another.                        *)
LEMMA TwoImagesHold ==
  ASSUME BarrierInv, NEW src \in BarrierImage, NEW dst \in BarrierImage, NEW from, NEW to,
         Barriers!TwoImages(src, dst, from, to)
  PROVE  BarrierInv'
<1>1. /\ Barriers!FlushBarriers /\ barriersAsked[src] = from /\ barriersAsked[dst] = to
      /\ used' = {Barriers!Names(src, from), Barriers!Names(dst, to)}
      /\ UNCHANGED <<queue, barriersPass, completed, barriersAsked, handed>>
  BY DEF Barriers!TwoImages, Barriers!Ready, Barriers!list
<1>2. /\ BarrierTypes' /\ OneBarrierEach'
      /\ \A k \in DOMAIN barriersPending' : FALSE
  BY <1>1, SettledBatch DEF BarrierInv, BarrierTypes
<1>3. barriersPending' = <<>>
  BY <1>1, BatchSettles
<1>4. ASSUME NEW u \in used', u[1] \notin handed'
      PROVE  u[2] = u[3]
  <2>1. CASE u = <<src, Barriers!ToVkImageLayout(from), barriersLayout'[src]>>
    BY <1>1, <1>4, <2>1, CommandFinds
  <2>2. CASE u = <<dst, Barriers!ToVkImageLayout(to), barriersLayout'[dst]>>
    BY <1>1, <1>4, <2>2, CommandFinds
  <2> QED
    BY <1>1, <1>4, <2>1, <2>2 DEF Barriers!Names
<1> QED
  BY <1>1, <1>2, <1>3, <1>4 DEF BarrierInv, Barriers!CommandsFindTheirLayouts

(* Lists with their barriers and commands.                                 *)
LEMMA BarriersHold ==
  ASSUME BarrierInv, [Barriers!Next]_(Barriers!vars)
  PROVE  BarrierInv'
<1> DEFINE B == [image : BarrierImage, old : Barriers!VkLayout, new : Barriers!VkLayout, from : Queue, to : Queue]
<1>1. \A l \in Layout : Barriers!ToVkImageLayout(l) \in Barriers!VkLayout
  BY DEF Barriers!VkLayout
<1>2. "Undefined" \in Barriers!VkLayout
  <2>1. Barriers!ToVkImageLayout("Undefined") = "Undefined"
    BY DEF Barriers!ToVkImageLayout
  <2> QED
    BY <1>1, <2>1, BarriersAssumption DEF Barriers!LayoutAssumption
<1>3. ASSUME NEW i \in BarrierImage, NEW l \in Layout, Barriers!ImageBarrier(i, l)
      PROVE  BarrierInv'
  <2> DEFINE b == [image |-> i, old |-> Barriers!ToVkImageLayout(barriersAsked[i]),
                   new |-> Barriers!ToVkImageLayout(l), from |-> queue, to |-> queue]
  <2>1. /\ ~completed /\ barriersPass = {} /\ \A c \in Barriers!Barriers(i) : Barriers!Crosses(c)
        /\ barriersPending' = Append(barriersPending, b) /\ barriersAsked' = [barriersAsked EXCEPT ![i] = l]
        /\ Barriers!CheckIfSwapchainReference({i})
        /\ UNCHANGED <<queue, barriersPass, completed, barriersLayout, handed, used>>
    BY <1>3 DEF Barriers!ImageBarrier, Barriers!Outside, Barriers!Recording, Barriers!list
  <2>2. barriersAsked[i] \in Layout /\ queue \in Queue
    BY DEF BarrierInv, BarrierTypes
  <2>3. b \in [image : {i}, old : Barriers!VkLayout, new : Barriers!VkLayout, from : Queue, to : Queue]
    BY <1>1, <2>2
  <2>4. /\ DOMAIN barriersAsked' = BarrierImage /\ barriersAsked'[i] = l
        /\ \A j \in BarrierImage \ {i} : barriersAsked'[j] = barriersAsked[j]
    BY <2>1 DEF BarrierInv, BarrierTypes
  <2>5. \A j \in BarrierImage : barriersAsked'[j] \in Layout
    BY <2>4 DEF BarrierInv, BarrierTypes
  <2>6. ASSUME i \notin handed
        PROVE  Barriers!Batch(i) = {}
    <3> SUFFICES ASSUME NEW k \in DOMAIN barriersPending, barriersPending[k].image = i PROVE FALSE
      BY DEF Barriers!Batch
    <3>1. barriersPending[k] \in Barriers!Barriers(i)
      BY DEF Barriers!Barriers, Barriers!Range, Range
    <3>2. barriersPending[k].from = barriersPending[k].to
      BY <2>6 DEF BarrierInv, OneBarrierEach
    <3> QED
      BY <2>1, <3>1, <3>2 DEF Barriers!Crosses
  <2>7. b.from = b.to /\ b.new = Barriers!ToVkImageLayout(barriersAsked'[i])
    BY <2>4
  <2> HIDE DEF b
  <2>8. /\ BarrierTypes' /\ OneBarrierEach'
        /\ \A k \in DOMAIN barriersPending' :
              barriersPending'[k].image \in SwapImage => barriersPending'[k].image \in refs'
    BY <2>1, <2>3, <2>4, <2>5, <2>6, <2>7, BarrierAdded
  <2> QED
    BY <2>1, <2>8 DEF BarrierInv, Barriers!CommandsFindTheirLayouts
<1>4. ASSUME NEW i \in BarrierImage, NEW from \in Queue, NEW to \in Queue, Barriers!Handover(i, from, to), ~completed
      PROVE  BarrierInv'
  <2> DEFINE b == [image |-> i, old |-> "Undefined", new |-> "Undefined", from |-> from, to |-> to]
  <2>1. /\ barriersPending' = Append(barriersPending, b) /\ handed' = handed \cup {i}
        /\ Barriers!CheckIfSwapchainReference({i})
        /\ UNCHANGED <<queue, barriersPass, completed, barriersAsked, barriersLayout, used>>
    BY <1>4 DEF Barriers!Handover, Barriers!list
  <2>2. b \in [image : {i}, old : Barriers!VkLayout, new : Barriers!VkLayout, from : Queue, to : Queue]
    BY <1>2
  <2> HIDE DEF b
  <2>3. DOMAIN barriersAsked = BarrierImage /\ \A j \in BarrierImage : barriersAsked[j] \in Layout
    BY DEF BarrierInv, BarrierTypes
  <2>4. /\ BarrierTypes' /\ OneBarrierEach'
        /\ \A k \in DOMAIN barriersPending' :
              barriersPending'[k].image \in SwapImage => barriersPending'[k].image \in refs'
    BY <2>1, <2>2, <2>3, BarrierAdded
  <2> QED
    BY <1>4, <2>1, <2>4 DEF BarrierInv, Barriers!CommandsFindTheirLayouts
<1>5. ASSUME NEW i \in BarrierImage, NEW q \in Queue, Barriers!TransferImageOwnership(i, q)
      PROVE  BarrierInv'
  BY <1>4, <1>5 DEF Barriers!TransferImageOwnership, Barriers!Outside, Barriers!Recording, BarrierInv, BarrierTypes
<1>6. ASSUME NEW i \in BarrierImage, NEW q \in Queue, Barriers!AcquireImageOwnership(i, q)
      PROVE  BarrierInv'
  BY <1>4, <1>6 DEF Barriers!AcquireImageOwnership, Barriers!Outside, Barriers!Recording, BarrierInv, BarrierTypes
<1>7. ASSUME NEW i \in BarrierImage, NEW l, Barriers!OneImage(i, l)
      PROVE  BarrierInv'
  <2>1. /\ Barriers!FlushBarriers /\ barriersAsked[i] = l /\ used' = {Barriers!Names(i, l)}
        /\ UNCHANGED <<queue, barriersPass, completed, barriersAsked, handed>>
    BY <1>7 DEF Barriers!OneImage, Barriers!Ready, Barriers!list
  <2> DEFINE S == {i}
  <2>2. used' = {Barriers!Names(j, l) : j \in S} /\ \A j \in S : barriersAsked[j] = l
    BY <2>1
  <2>3. barriersPass' \subseteq BarrierImage /\ \A j \in barriersPass' : barriersAsked[j] = "RenderTarget"
    BY <2>1 DEF BarrierInv
  <2>4. S \subseteq BarrierImage
    OBVIOUS
  <2> HIDE DEF S
  <2> QED
    BY <2>1, <2>2, <2>3, <2>4, CommandsHold
<1>8. ASSUME NEW src \in BarrierImage, NEW dst \in BarrierImage,
             Barriers!CopyImageToImage(src, dst) \/ Barriers!BlitImageToImage(src, dst)
      PROVE  BarrierInv'
  BY <1>8, TwoImagesHold DEF Barriers!CopyImageToImage, Barriers!BlitImageToImage
<1>9. ASSUME NEW S \in SUBSET BarrierImage, Barriers!Dispatch(S)
      PROVE  BarrierInv'
  <2>1. /\ Barriers!FlushBarriers /\ \A i \in S : barriersAsked[i] = "UnorderedAccess"
        /\ used' = {Barriers!Names(i, "UnorderedAccess") : i \in S}
        /\ UNCHANGED <<queue, barriersPass, completed, barriersAsked, handed>>
    BY <1>9 DEF Barriers!Dispatch, Barriers!Ready, Barriers!list
  <2>2. barriersPass' \subseteq BarrierImage /\ \A j \in barriersPass' : barriersAsked[j] = "RenderTarget"
    BY <2>1 DEF BarrierInv
  <2>3. S \subseteq BarrierImage
    OBVIOUS
  <2> QED
    BY <2>1, <2>2, <2>3, CommandsHold
<1>10. ASSUME NEW S \in SUBSET BarrierImage, Barriers!BeginRenderPass(S)
       PROVE  BarrierInv'
  <2>1. /\ Barriers!FlushBarriers /\ \A i \in S : barriersAsked[i] = "RenderTarget"
        /\ used' = {Barriers!Names(i, "RenderTarget") : i \in S} /\ barriersPass' = S
        /\ UNCHANGED <<queue, completed, barriersAsked, handed>>
    BY <1>10 DEF Barriers!BeginRenderPass, Barriers!Ready
  <2>2. S \subseteq BarrierImage
    OBVIOUS
  <2> QED
    BY <2>1, <2>2, CommandsHold
<1>11. CASE Barriers!Draw
  <2>1. /\ Barriers!FlushBarriers /\ used' = {Barriers!Names(i, "RenderTarget") : i \in barriersPass}
        /\ UNCHANGED <<queue, barriersPass, completed, barriersAsked, handed>>
    BY <1>11 DEF Barriers!Draw, Barriers!list
  <2>2. barriersPass \subseteq BarrierImage /\ \A i \in barriersPass : barriersAsked[i] = "RenderTarget"
    BY DEF BarrierInv
  <2> QED
    BY <2>1, <2>2, CommandsHold
<1>12. CASE Barriers!EndRenderPass \/ Barriers!Complete
  <2>1. /\ Barriers!FlushBarriers /\ barriersPass' = {} /\ used' = {}
        /\ UNCHANGED <<queue, barriersAsked, handed>>
    BY <1>12 DEF Barriers!EndRenderPass, Barriers!Complete, Barriers!Outside
  <2>2. /\ BarrierTypes' /\ OneBarrierEach' /\ \A k \in DOMAIN barriersPending' : FALSE
    BY <2>1, SettledBatch DEF BarrierInv, BarrierTypes
  <2>3. barriersPending' = <<>>
    BY <2>1, BatchSettles
  <2> QED
    BY <2>1, <2>2, <2>3 DEF BarrierInv, Barriers!CommandsFindTheirLayouts
<1>13. ASSUME NEW q \in Queue, Barriers!GetCommandBuffer(q)
       PROVE  BarrierInv'
  <2>1. /\ completed /\ barriersPending' = <<>> /\ queue' = q /\ completed' = FALSE
        /\ UNCHANGED <<barriersPass, barriersAsked, barriersLayout, handed, used>>
    BY <1>13 DEF Barriers!GetCommandBuffer
  <2>2. barriersPending = <<>> /\ barriersPending' = barriersPending
    BY <2>1 DEF BarrierInv
  <2>3. DOMAIN <<>> = {}
    OBVIOUS
  <2>4. BarrierTypes'
    BY <2>1, <2>2 DEF BarrierInv, BarrierTypes, Barriers!VkLayout
  <2>5. OneBarrierEach'
    BY <2>1, <2>2 DEF BarrierInv, OneBarrierEach, Barriers!Batch
  <2> QED
    BY <2>1, <2>2, <2>3, <2>4, <2>5 DEF BarrierInv, Barriers!CommandsFindTheirLayouts
<1>14. CASE UNCHANGED Barriers!vars
  BY <1>14 DEF Barriers!vars, Barriers!list, BarrierInv, BarrierTypes, OneBarrierEach, Barriers!Batch,
       Barriers!VkLayout, Barriers!CommandsFindTheirLayouts
<1> QED
  BY <1>3, <1>5, <1>6, <1>7, <1>8, <1>9, <1>10, <1>11, <1>12, <1>13, <1>14
     DEF Barriers!Next, Barriers!CopyBufferToImage, Barriers!CopyImageToBuffer, Barriers!ClearUnorderedAccessView

(* FlushBarriers: a command finds every image that never changed queues in *)
(* the layout the code names for it, whatever order a batch is carried out *)
(* in and however many barriers are pending; and a list that moves a swap  *)
(* chain's image has the swap chain among its references.                  *)
THEOREM LayoutsAreInTime ==
  Barriers!Spec => BarriersAreInTime
<1>1. Barriers!Init => BarrierInv
  <2> SUFFICES ASSUME Barriers!Init PROVE BarrierInv
    OBVIOUS
  <2>1. /\ queue \in Queue /\ barriersPending = <<>> /\ barriersPass = {} /\ completed = FALSE
        /\ refs = {} /\ handed = {} /\ used = {}
        /\ DOMAIN barriersAsked = BarrierImage /\ \A i \in BarrierImage : barriersAsked[i] = "Undefined"
        /\ DOMAIN barriersLayout = BarrierImage /\ \A i \in BarrierImage : barriersLayout[i] = "Undefined"
    BY DEF Barriers!Init
  <2>2. DOMAIN <<>> = {} /\ Barriers!ToVkImageLayout("Undefined") = "Undefined" /\ "Undefined" \in Layout
    BY BarriersAssumption DEF Barriers!ToVkImageLayout, Barriers!LayoutAssumption
  <2>3. BarrierTypes
    BY <2>1, <2>2 DEF BarrierTypes
  <2>4. OneBarrierEach
    BY <2>1, <2>2 DEF OneBarrierEach
  <2> QED
    BY <2>1, <2>2, <2>3, <2>4 DEF BarrierInv, Barriers!CommandsFindTheirLayouts
<1>2. BarrierInv /\ [Barriers!Next]_(Barriers!vars) => BarrierInv'
  BY BarriersHold
<1> DEFINE Known == \A i \in SwapImage : barriersLayout'[i] # barriersLayout[i] => i \in refs'
<1>3. ASSUME BarrierInv, [Barriers!Next]_(Barriers!vars)
      PROVE  Known
  <2>1. CASE barriersLayout' = barriersLayout
    BY <2>1
  <2>2. CASE barriersLayout' # barriersLayout
    <3>1. Barriers!FlushBarriers /\ refs \subseteq refs'
      BY <1>3, <2>2 DEF Barriers!Next, Barriers!vars, Barriers!list, Barriers!ImageBarrier,
         Barriers!TransferImageOwnership, Barriers!AcquireImageOwnership, Barriers!Handover,
         Barriers!CopyBufferToImage, Barriers!CopyImageToBuffer, Barriers!ClearUnorderedAccessView,
         Barriers!OneImage, Barriers!CopyImageToImage, Barriers!BlitImageToImage, Barriers!TwoImages,
         Barriers!Dispatch, Barriers!BeginRenderPass, Barriers!Draw, Barriers!EndRenderPass,
         Barriers!Complete, Barriers!GetCommandBuffer, Barriers!CheckIfSwapchainReference
    <3> QED
      BY <1>3, <3>1, BatchSettles, BarriersAssumption DEF Barriers!LayoutAssumption
  <2> QED
    BY <2>1, <2>2
<1>4. BarrierInv => Barriers!CommandsFindTheirLayouts
  BY DEF BarrierInv
<1>5. BarrierInv /\ [Barriers!Next]_(Barriers!vars) => [Known]_(Barriers!vars)
  BY <1>3
<1>6. []Barriers!CommandsFindTheirLayouts => [](part = "barriers" => Barriers!CommandsFindTheirLayouts)
  <2>1. Barriers!CommandsFindTheirLayouts => (part = "barriers" => Barriers!CommandsFindTheirLayouts)
    OBVIOUS
  <2> QED
    BY <2>1, PTL
<1> QED
  BY <1>1, <1>2, <1>4, <1>5, <1>6, PTL DEF Barriers!Spec, BarriersAreInTime, Barriers!SwapMovesAreKnown
=============================================================================

-------------------------- MODULE D3DDeviceProofs --------------------------
(***************************************************************************)
(* Theorems about D3DDevice when each queue has one thread that submits to *)
(* it, for every value of the constants.  First that destruction is safe:  *)
(* the types, the parts of IInv, each preserved by every step together     *)
(* with the parts it leans on, and what that invariant says.  Then the     *)
(* order in which resources are destroyed, what the destructor leaves, and *)
(* that the backend keeps the promise of IDevice.                          *)
(***************************************************************************)
EXTENDS D3DDevice, SequenceLemmas

-----------------------------------------------------------------------------
(* Types.                                                                  *)

(* The records the variables hold. *)
Stage == {"idle", "counted", "numbered", "tracked", "executed", "snapped", "signalled"}
DriverEntry == [kind : {"work", "signal"}, value : Value, cmds : SUBSET Nat, uses : SUBSET Resource]
Pending == [queue : Queue, value : Value]
SubmitCall == [stage : Stage, value : Value, snapshot : [Queue -> Value]]
Recorded == [uses : SUBSET Resource, scratch : SUBSET Scratch]
PooledBuffer == [cmd : 1 .. Len(content), value : Value]
Deleted == [resource : Resource, snapshot : [Queue -> Value]]
Collection == [phase : {"idle", "submits", "deletes", "drain"}, at : Nat, left : Nat]

(* What TypeOK says of each variable and of what it holds. *)
LEMMA Types ==
  ASSUME TypeOK
  PROVE  /\ MaxSubmits \in Nat /\ Value \subseteq Nat /\ 0 \in Value /\ Never \in Nat
         /\ cpuValue \in [Queue -> Value] /\ fence \in [Queue -> Value]
         /\ driver \in [Queue -> Seq(DriverEntry)]
         /\ pendingSubmits \in Seq(Pending)
         /\ call \in [Thread -> SubmitCall]
         /\ content \in Seq(Recorded) /\ Len(content) \in Nat
         /\ held \in [Thread -> SUBSET (1 .. Len(content))]
         /\ pooled \in [Queue -> Seq(PooledBuffer)]
         /\ onDestroy \in Seq(Resource)
         /\ deferredDeletes \in Seq(Deleted)
         /\ gc \in Collection
         /\ QueueOf \in [Thread -> Queue]
<1>1. MaxSubmits \in Nat /\ Value \subseteq Nat /\ 0 \in Value /\ Never \in Nat
  BY BoundAssumption DEF Value, Never
<1>2. /\ cpuValue \in [Queue -> Value] /\ fence \in [Queue -> Value]
      /\ onDestroy \in Seq(Resource) /\ QueueOf \in [Thread -> Queue]
      /\ held \in [Thread -> SUBSET (1 .. Len(content))]
  BY QueueOfAssumption DEF TypeOK
<1>3. driver \in [Queue -> Seq(DriverEntry)] /\ pendingSubmits \in Seq(Pending)
  BY DEF TypeOK, DriverEntry, Pending
<1>4. call \in [Thread -> SubmitCall] /\ gc \in Collection
  BY DEF TypeOK, SubmitCall, Stage, Collection
<1>5. /\ content \in Seq(Recorded) /\ pooled \in [Queue -> Seq(PooledBuffer)]
      /\ deferredDeletes \in Seq(Deleted)
  BY DEF TypeOK, Recorded, PooledBuffer, Deleted
<1>6. Len(content) \in Nat
  BY <1>5, LenProperties
<1> QED
  BY <1>1, <1>2, <1>3, <1>4, <1>5, <1>6

(* A new device has its types right. *)
LEMMA InitTypeOK == Init => TypeOK
<1> SUFFICES ASSUME Init PROVE TypeOK
  OBVIOUS
<1>1. MaxSubmits \in Nat /\ 0 \in Value /\ 1 \in Nat /\ Never \in 0 .. Never /\ DtorCollects \in 0 .. DtorCollects
  BY BoundAssumption DEF Value, Never, DtorCollects
<1>2. /\ call \in [Thread -> SubmitCall] /\ gc \in Collection
      /\ oldest \in [Queue -> 0 .. Never] /\ cpuValue \in [Queue -> Value] /\ fence \in [Queue -> Value]
  BY <1>1 DEF Init, Idle, GcIdle, SubmitCall, Stage, Collection
<1>3. /\ driver \in [Queue -> Seq(DriverEntry)] /\ pendingSubmits \in Seq(Pending)
      /\ content \in Seq(Recorded) /\ onDestroy \in Seq(Resource) /\ deferredDeletes \in Seq(Deleted)
  BY EmptySeq DEF Init
<1>4. held \in [Thread -> SUBSET (1 .. Len(content))] /\ pooled \in [Queue -> Seq(PooledBuffer)]
  BY EmptySeq DEF Init
<1> QED
  BY <1>1, <1>2, <1>3, <1>4
  DEF Init, TypeOK, DriverEntry, Pending, SubmitCall, Stage, Recorded, PooledBuffer, Deleted, Collection

(* With one thread to a queue no other thread keeps room from it. *)
LEMMA RoomForOne ==
  ASSUME OneThreadAQueue, TypeOK, NEW t \in Thread
  PROVE  Room(t) => cpuValue[QueueOf[t]] + 1 \in Value
<1>1. Reserved(QueueOf[t]) \ {t} = {}
  BY DEF Reserved, OneThreadAQueue
<1>2. Cardinality(Reserved(QueueOf[t]) \ {t}) = 0
  BY <1>1, FS_EmptySet
<1>3. cpuValue[QueueOf[t]] \in Value /\ MaxSubmits \in Nat
  BY Types
<1> QED
  BY <1>2, <1>3 DEF Room, Value

(* What RestoreCommandBuffer puts among the deferred deletes: each scratch *)
(* object of the list once, with the snapshot of the submission.           *)
Relinquished(t, c) == SetToSeq({[resource |-> r, snapshot |-> call[t].snapshot] : r \in content[c].scratch})

LEMMA RelinquishedElements ==
  ASSUME TypeOK, ScratchInv, NEW t \in Thread, NEW c \in held[t]
  PROVE  /\ Relinquished(t, c) \in Seq(Deleted) /\ Len(Relinquished(t, c)) \in Nat
         /\ \A i \in 1 .. Len(Relinquished(t, c)) :
              /\ Relinquished(t, c)[i].resource \in content[c].scratch
              /\ Relinquished(t, c)[i].snapshot = call[t].snapshot
         /\ \A i, j \in 1 .. Len(Relinquished(t, c)) :
              Relinquished(t, c)[i].resource = Relinquished(t, c)[j].resource => i = j
         /\ \A r \in content[c].scratch : \E i \in 1 .. Len(Relinquished(t, c)) :
              Relinquished(t, c)[i].resource = r
<1> DEFINE S == content[c].scratch
           zombie(r) == [resource |-> r, snapshot |-> call[t].snapshot]
           Z == {zombie(r) : r \in S}
           f == [r \in S |-> zombie(r)]
<1>1. c \in 1 .. Len(content) /\ content[c] \in Recorded /\ call[t] \in SubmitCall /\ Scratch \subseteq Resource
  BY Types, ElementOfSeq, MembersAssumption
<1>2. IsFiniteSet(S) /\ S \subseteq Resource /\ call[t].snapshot \in [Queue -> Value]
  BY <1>1 DEF ScratchInv, Recorded, SubmitCall
<1>3. f \in Surjection(S, Z)
  BY DEF Surjection
<1>4. IsFiniteSet(Z)
  BY <1>2, <1>3, FS_Surjection
<1>5. Z \subseteq Deleted
  BY <1>2 DEF Deleted
<1>6. \A z \in Z : z.resource \in S /\ z.snapshot = call[t].snapshot /\ z = zombie(z.resource)
  OBVIOUS
<1>7. \A r \in S : zombie(r) \in Z /\ zombie(r).resource = r
  OBVIOUS
<1>8. Relinquished(t, c) = SetToSeq(Z)
  BY DEF Relinquished
<1> HIDE DEF Z, f
<1> DEFINE s == SetToSeq(Z)
<1>9. /\ s \in Seq(Z) /\ Len(s) \in Nat
      /\ \A x \in Z : \E i \in 1 .. Len(s) : s[i] = x
      /\ \A i, j \in 1 .. Len(s) : s[i] = s[j] => i = j
  BY <1>4, SetToSeqElements, LenProperties
<1> HIDE DEF s
<1>10. s \in Seq(Deleted) /\ \A i \in 1 .. Len(s) : s[i] \in Z
  BY <1>5, <1>9, SeqMonotonic, ElementOfSeq
<1>11. \A i, j \in 1 .. Len(s) : s[i].resource = s[j].resource => s[i] = s[j]
  BY <1>6, <1>10
<1>12. \A i \in 1 .. Len(s) : s[i].resource \in S /\ s[i].snapshot = call[t].snapshot
  BY <1>6, <1>10
<1>13. \A i, j \in 1 .. Len(s) : s[i].resource = s[j].resource => i = j
  BY <1>9, <1>11
<1>14. \A r \in S : \E i \in 1 .. Len(s) : s[i].resource = r
  <2> TAKE r \in S
  <2>1. PICK i \in 1 .. Len(s) : s[i] = zombie(r)
    BY <1>7, <1>9
  <2> QED
    BY <1>7, <2>1
<1> QED
  BY <1>8, <1>9, <1>10, <1>12, <1>13, <1>14 DEF s

(* A thread with a list is counted by its queue. *)
LEMMA HoldsOne ==
  ASSUME TypeOK, OpenInv, NEW t \in Thread
  PROVE  /\ IsFiniteSet(held[t]) /\ Cardinality(held[t]) \in Nat
         /\ held[t] # {} => openLists[QueueOf[t]] \in Nat \ {0}
<1>1. held[t] \subseteq 1 .. Len(content) /\ Len(content) \in Nat
  BY Types
<1>2. IsFiniteSet(held[t]) /\ Cardinality(held[t]) \in Nat
  <2>1. 1 \in Int /\ Len(content) \in Int
    BY <1>1
  <2>2. IsFiniteSet(1 .. Len(content))
    BY <2>1, FS_Interval
  <2> QED
    BY <1>1, <2>2, FS_Subset, FS_CardinalityType
<1>3. held[t] # {} => Cardinality(held[t]) # 0
  BY <1>2, FS_EmptySet
<1>4. openLists[QueueOf[t]] = Cardinality(held[t]) + IF call[t].stage = "counted" THEN 1 ELSE 0
  BY DEF OpenInv
<1> QED
  BY <1>2, <1>3, <1>4

(* The collector's index is at an element while it is not beyond the last. *)
LEMMA FirstOn ==
  ASSUME TypeOK, ScanInv
  PROVE  /\ gc.phase = "submits" /\ gc.at <= Len(pendingSubmits) => gc.at \in 1 .. Len(pendingSubmits)
         /\ gc.phase = "deletes" /\ gc.at <= Len(deferredDeletes) => gc.at \in 1 .. Len(deferredDeletes)
<1>1. Len(pendingSubmits) \in Nat /\ Len(deferredDeletes) \in Nat
  BY Types, LenProperties
<1> QED
  BY <1>1 DEF ScanInv

(* The collector drains requests that are there. *)
LEMMA GcCounts ==
  ASSUME TypeOK, ScanInv
  PROVE  /\ gc.at \in Nat /\ gc.left \in Nat /\ Len(onDestroy) \in Nat
         /\ gc.phase = "drain" /\ gc.left > 0 => onDestroy # <<>> /\ gc.left - 1 <= Len(Tail(onDestroy))
<1>1. gc \in Collection /\ onDestroy \in Seq(Resource) /\ Len(onDestroy) \in Nat
  BY Types, LenProperties
<1>2. gc.at \in Nat /\ gc.left \in Nat
  BY <1>1 DEF Collection
<1>3. onDestroy # <<>> => Len(Tail(onDestroy)) = Len(onDestroy) - 1
  BY <1>1, TailElements
<1>4. onDestroy = <<>> => Len(onDestroy) = 0
  BY <1>1
<1> QED
  BY <1>1, <1>2, <1>3, <1>4 DEF ScanInv

(* What ExecuteCommandLists hands to the driver. *)
LEMMA ExecutedEntry ==
  ASSUME TypeOK, NEW t \in Thread
  PROVE  Work(held[t], UNION {content[c].uses : c \in held[t]}) \in DriverEntry
<1>1. \A c \in 1 .. Len(content) : content[c] \in Recorded
  BY Types, ElementOfSeq
<1>2. \A c \in 1 .. Len(content) : content[c].uses \subseteq Resource
  BY <1>1 DEF Recorded
<1>3. held[t] \subseteq 1 .. Len(content) /\ held[t] \in SUBSET Nat /\ 0 \in Value
  BY Types
<1>4. UNION {content[c].uses : c \in held[t]} \in SUBSET Resource
  BY <1>2, <1>3
<1> QED
  BY <1>3, <1>4 DEF Work, DriverEntry

(* Every step of the threads, the GPU, the collector and the destructor    *)
(* keeps the types.                                                        *)
LEMMA NextTypeOK ==
  ASSUME OneThreadAQueue, TypeOK, OpenInv, ScratchInv, ScanInv, [Next]_vars
  PROVE  TypeOK'
<1> USE DEF submitVars, listVars, lifeVars, gcVars
<1>a. UNCHANGED vars => TypeOK'
  BY DEF TypeOK, vars
<1>b. \A s \in SubmitCall, st \in Stage : [s EXCEPT !.stage = st] \in SubmitCall
  BY DEF SubmitCall
<1>c. /\ Idle \in SubmitCall /\ Blank \in Recorded
      /\ \A st \in Stage, v \in Value : [Idle EXCEPT !.stage = st, !.value = v] \in SubmitCall
  BY Types DEF Idle, Blank, SubmitCall, Stage, Recorded
<1>d. call' \in [Thread -> SubmitCall] => call' \in [Thread -> [stage : {"idle", "counted", "numbered", "tracked", "executed", "snapped", "signalled"},
                          value : Value, snapshot : [Queue -> Value]]]
  BY DEF SubmitCall, Stage
<1>e. /\ gc \in Collection /\ gc.at \in Nat /\ gc.left \in Nat
      /\ Len(pendingSubmits) \in Nat /\ Len(deferredDeletes) \in Nat /\ Len(onDestroy) \in Nat
  <2>1. gc \in Collection
    BY Types
  <2> QED
    BY <2>1, Types, LenProperties DEF Collection
<1>1. ASSUME NEW t \in Thread, AskForCommandBuffer(t) PROVE TypeOK'
  <2>1. call' \in [Thread -> SubmitCall]
    BY <1>1, <1>b, Types DEF AskForCommandBuffer, Stage
  <2>2. openLists' \in [Queue -> Nat]
    <3>1. openLists \in [Queue -> Nat] /\ QueueOf[t] \in Queue
      BY Types DEF TypeOK
    <3> QED
      BY <1>1, <3>1 DEF AskForCommandBuffer, IncrementCommandReference
  <2> QED
    BY <1>1, <1>d, <2>1, <2>2 DEF AskForCommandBuffer, TypeOK
<1>2. ASSUME NEW t \in Thread, TakeCommandBuffer(t) PROVE TypeOK'
  <2> DEFINE q == QueueOf[t]
  <2>0. q \in Queue /\ pooled[q] \in Seq(PooledBuffer) /\ Len(pooled[q]) \in Nat
    BY Types, LenProperties
  <2>1. call' \in [Thread -> SubmitCall]
    BY <1>2, <1>c, Types DEF TakeCommandBuffer
  <2>2. CASE \E i \in DOMAIN pooled[q] :
               /\ pooled' = [pooled EXCEPT ![q] = RemoveAt(@, i)]
               /\ held' = [held EXCEPT ![t] = @ \cup {pooled[q][i].cmd}]
               /\ UNCHANGED content
    <3>1. PICK i \in 1 .. Len(pooled[q]) :
               /\ pooled' = [pooled EXCEPT ![q] = RemoveAt(@, i)]
               /\ held' = [held EXCEPT ![t] = @ \cup {pooled[q][i].cmd}]
               /\ UNCHANGED content
      BY <2>0, <2>2, LenProperties
    <3>2. pooled[q][i] \in PooledBuffer /\ RemoveAt(pooled[q], i) \in Seq(PooledBuffer)
      BY <2>0, <3>1, ElementOfSeq, RemoveAtProperties
    <3>3. pooled' \in [Queue -> Seq(PooledBuffer)]
      BY <2>0, <3>1, <3>2, Types
    <3>4. held' \in [Thread -> SUBSET (1 .. Len(content))]
      BY <3>1, <3>2, Types DEF PooledBuffer
    <3> QED
      BY <1>2, <1>d, <2>1, <3>1, <3>3, <3>4 DEF TakeCommandBuffer, TypeOK, PooledBuffer
  <2>3. CASE /\ content' = Append(content, Blank)
             /\ held' = [held EXCEPT ![t] = @ \cup {Len(content) + 1}]
             /\ UNCHANGED pooled
    <3>1. content' \in Seq(Recorded) /\ Len(content') = Len(content) + 1 /\ Len(content) \in Nat
      BY <1>c, <2>3, Types, AppendElements
    <3>2. 1 .. Len(content) \subseteq 1 .. Len(content') /\ Len(content) + 1 \in 1 .. Len(content')
      BY <3>1
    <3>3. held' \in [Thread -> SUBSET (1 .. Len(content'))]
      BY <2>3, <3>2, Types
    <3>4. [cmd : 1 .. Len(content), value : Value] \subseteq [cmd : 1 .. Len(content'), value : Value]
      BY <3>2
    <3>5. Seq([cmd : 1 .. Len(content), value : Value]) \subseteq Seq([cmd : 1 .. Len(content'), value : Value])
      BY <3>4, SeqMonotonic
    <3>6. pooled' \in [Queue -> Seq([cmd : 1 .. Len(content'), value : Value])]
      BY <2>3, <3>5, Types DEF PooledBuffer
    <3> QED
      BY <1>2, <1>d, <2>1, <3>1, <3>3, <3>6 DEF TakeCommandBuffer, TypeOK, Recorded
  <2> QED
    BY <1>2, <2>2, <2>3 DEF TakeCommandBuffer
<1>3. ASSUME NEW t \in Thread, NEW c \in held[t], NEW r \in Resource, Record(t, c, r) PROVE TypeOK'
  <2>1. c \in 1 .. Len(content) /\ content[c] \in Recorded
    BY Types, ElementOfSeq
  <2>2. [content[c] EXCEPT !.uses = content[c].uses \cup {r}] \in Recorded
    BY <2>1 DEF Recorded
  <2>3. content' = [content EXCEPT ![c] = [content[c] EXCEPT !.uses = content[c].uses \cup {r}]]
    BY <1>3 DEF Record
  <2>4. content' \in Seq(Recorded) /\ Len(content') = Len(content)
    BY <2>1, <2>2, <2>3, Types, ExceptSeq
  <2> QED
    BY <1>3, <2>4 DEF Record, TypeOK, Recorded
<1>4. ASSUME NEW t \in Thread, NEW c \in held[t], NEW r \in Resource, RecordScratch(t, c, r) PROVE TypeOK'
  <2>1. c \in 1 .. Len(content) /\ content[c] \in Recorded
    BY Types, ElementOfSeq
  <2>2. [uses |-> content[c].uses \cup {r}, scratch |-> content[c].scratch \cup {r}] \in Recorded
    BY <1>4, <2>1 DEF Recorded, RecordScratch
  <2>3. content' \in Seq(Recorded) /\ Len(content') = Len(content)
    BY <1>4, <2>1, <2>2, Types, ExceptSeq DEF RecordScratch
  <2> QED
    BY <1>4, <2>3 DEF RecordScratch, TypeOK, Recorded
<1>5. ASSUME NEW t \in Thread, SubmitNumber(t) PROVE TypeOK'
  <2>1. cpuValue[QueueOf[t]] + 1 \in Value
    BY <1>5, RoomForOne DEF SubmitNumber
  <2>2. cpuValue' \in [Queue -> Value]
    BY <1>5, <2>1, Types DEF SubmitNumber
  <2>3. call' \in [Thread -> SubmitCall]
    BY <1>5, <1>c, <2>1, Types DEF SubmitNumber, Stage
  <2> QED
    BY <1>5, <1>d, <2>2, <2>3 DEF SubmitNumber, TypeOK
<1>6. ASSUME NEW t \in Thread, SubmitTrack(t) PROVE TypeOK'
  <2>1. [queue |-> QueueOf[t], value |-> call[t].value] \in Pending
    BY Types DEF Pending, SubmitCall
  <2>2. pendingSubmits' \in Seq(Pending)
    BY <1>6, <2>1, Types, AppendElements DEF SubmitTrack
  <2>3. call' \in [Thread -> SubmitCall]
    BY <1>6, <1>b, Types DEF SubmitTrack, Stage
  <2> QED
    BY <1>6, <1>d, <2>2, <2>3 DEF SubmitTrack, TypeOK, Pending
<1>7. ASSUME NEW t \in Thread, SubmitExecute(t) PROVE TypeOK'
  <2> DEFINE w == Work(held[t], UNION {content[c].uses : c \in held[t]})
  <2>4. w \in DriverEntry
    BY ExecutedEntry
  <2> HIDE DEF w
  <2>5. Append(driver[QueueOf[t]], w) \in Seq(DriverEntry)
    BY <2>4, Types, AppendElements
  <2>6. driver' \in [Queue -> Seq(DriverEntry)]
    BY <1>7, <2>5, Types DEF SubmitExecute, w
  <2>7. call' \in [Thread -> SubmitCall]
    BY <1>7, <1>b, Types DEF SubmitExecute, Stage
  <2> QED
    BY <1>7, <1>d, <2>6, <2>7 DEF SubmitExecute, TypeOK, DriverEntry
<1>8. ASSUME NEW t \in Thread, SubmitSnapshot(t) PROVE TypeOK'
  <2>1. [call[t] EXCEPT !.stage = "snapped", !.snapshot = cpuValue] \in SubmitCall
    BY Types DEF SubmitCall, Stage
  <2>2. call' = [call EXCEPT ![t] = [call[t] EXCEPT !.stage = "snapped", !.snapshot = cpuValue]]
    BY <1>8, Types DEF SubmitSnapshot, SubmitCall
  <2>3. call' \in [Thread -> SubmitCall]
    BY <2>1, <2>2, Types
  <2> QED
    BY <1>8, <1>d, <2>3 DEF SubmitSnapshot, TypeOK
<1>9. ASSUME NEW t \in Thread, SubmitSignal(t) PROVE TypeOK'
  <2>1. Signal(call[t].value) \in DriverEntry
    BY Types DEF Signal, DriverEntry, SubmitCall
  <2>2. Append(driver[QueueOf[t]], Signal(call[t].value)) \in Seq(DriverEntry)
    BY <2>1, Types, AppendElements
  <2>3. driver' \in [Queue -> Seq(DriverEntry)]
    BY <1>9, <2>2, Types DEF SubmitSignal
  <2>4. call' \in [Thread -> SubmitCall]
    BY <1>9, <1>b, <1>c, Types DEF SubmitSignal, Stage
  <2> QED
    BY <1>9, <1>d, <2>3, <2>4 DEF SubmitSignal, TypeOK, DriverEntry
<1>10. ASSUME NEW t \in Thread, NEW c \in held[t], RestoreCommandBuffer(t, c) PROVE TypeOK'
  <2>0. c \in 1 .. Len(content) /\ call[t].value \in Value /\ QueueOf[t] \in Queue
    BY Types DEF SubmitCall
  <2>1. content' \in Seq(Recorded) /\ Len(content') = Len(content)
    <3>1. content \in Seq(Recorded) /\ content' = [content EXCEPT ![c] = Blank]
      BY <1>10, Types DEF RestoreCommandBuffer
    <3> QED
      BY ZenonT(60), <1>c, <2>0, <3>1, ExceptSeq
  <2>2. deferredDeletes' = deferredDeletes \o Relinquished(t, c)
    BY <1>10 DEF RestoreCommandBuffer, Relinquished
  <2>3. deferredDeletes' \in Seq(Deleted)
    BY <2>2, RelinquishedElements, Types, ConcatProperties
  <2>4. [cmd |-> c, value |-> call[t].value] \in PooledBuffer
    BY <2>0 DEF PooledBuffer
  <2>5. Append(pooled[QueueOf[t]], [cmd |-> c, value |-> call[t].value]) \in Seq(PooledBuffer)
    BY <2>4, Types, AppendElements
  <2>6. pooled' \in [Queue -> Seq(PooledBuffer)]
    BY <1>10, <2>5, Types DEF RestoreCommandBuffer
  <2>7. call' \in [Thread -> SubmitCall]
    BY <1>10, <1>c, Types DEF RestoreCommandBuffer
  <2>8. held' \in [Thread -> SUBSET (1 .. Len(content))]
    BY <1>10, Types DEF RestoreCommandBuffer
  <2>9. openLists' \in [Queue -> Nat]
    <3>1. openLists[QueueOf[t]] \in Nat \ {0} /\ openLists \in [Queue -> Nat]
      BY <1>10, <2>0, HoldsOne DEF TypeOK, RestoreCommandBuffer
    <3>2. openLists' = [openLists EXCEPT ![QueueOf[t]] = openLists[QueueOf[t]] - 1]
      BY <1>10 DEF RestoreCommandBuffer, DecrementCommandReference
    <3> QED
      <4>1. openLists[QueueOf[t]] - 1 \in Nat
        BY <3>1
      <4> QED
        BY <3>1, <3>2, <4>1
  <2>10. life' \in [Resource -> {"live", "deferred", "zombie", "destroyed"}]
    BY <1>10 DEF RestoreCommandBuffer, TypeOK
  <2>11. UNCHANGED <<cpuValue, fence, driver, pendingSubmits, onDestroy, gc, oldest, device>>
    BY <1>10 DEF RestoreCommandBuffer
  <2> QED
    BY <1>d, <2>1, <2>3, <2>6, <2>7, <2>8, <2>9, <2>10, <2>11 DEF TypeOK, Recorded, Deleted, PooledBuffer
<1>11. ASSUME NEW q \in Queue, GpuStep(q) PROVE TypeOK'
  <2>1. Head(driver[q]) \in DriverEntry /\ Tail(driver[q]) \in Seq(DriverEntry)
    BY <1>11, Types, HeadTailProperties DEF GpuStep
  <2>2. driver' \in [Queue -> Seq(DriverEntry)]
    BY <1>11, <2>1, Types DEF GpuStep
  <2>3. fence' \in [Queue -> Value]
    BY <1>11, <2>1, Types DEF GpuStep, DriverEntry
  <2> QED
    BY <1>11, <2>2, <2>3 DEF GpuStep, TypeOK, DriverEntry
<1>12. ASSUME NEW r \in Resource, TryEnqueueDestroyDeferred(r) \/ DestroyImmediately(r) PROVE TypeOK'
  <2>1. life' \in [Resource -> {"live", "deferred", "zombie", "destroyed"}]
    BY <1>12 DEF TryEnqueueDestroyDeferred, DestroyImmediately, TypeOK
  <2>2. onDestroy' \in Seq(Resource)
    <3>1. onDestroy \in Seq(Resource) /\ Append(onDestroy, r) \in Seq(Resource)
      BY Types, AppendElements
    <3> QED
      BY <1>12, <3>1 DEF TryEnqueueDestroyDeferred, DestroyImmediately
  <2> QED
    BY <1>12, <2>1, <2>2 DEF TryEnqueueDestroyDeferred, DestroyImmediately, TypeOK
<1>13. ASSUME GcBegin PROVE TypeOK'
  <2>1. oldest' \in [Queue -> 0 .. Never] /\ gc' \in Collection
    BY <1>13, Types DEF GcBegin, Collection
  <2>2. device' \in [state : {"alive", "collecting", "destroyed"}, collects : 0 .. DtorCollects]
    BY <1>13 DEF GcBegin, TypeOK, DtorCollects
  <2> QED
    BY <1>13, <2>1, <2>2 DEF GcBegin, TypeOK, Collection
<1>14. ASSUME GcSubmit PROVE TypeOK'
  <2> DEFINE s == pendingSubmits[gc.at]
  <2>1. gc.at \in Nat /\ [gc EXCEPT !.at = gc.at + 1] \in Collection
    BY <1>e DEF Collection
  <2>2. CASE pendingSubmits' = RemoveAt(pendingSubmits, gc.at) /\ UNCHANGED gcVars
    <3>1. PICK k \in 1 .. Len(pendingSubmits) : k = gc.at
      BY <1>14, FirstOn DEF GcSubmit
    <3>2. pendingSubmits' \in Seq(Pending)
      BY <2>2, <3>1, Types, RemoveAtProperties
    <3> QED
      BY <1>14, <2>2, <3>2 DEF GcSubmit, TypeOK, Pending
  <2>3. CASE /\ oldest' = [oldest EXCEPT ![s.queue] = IF @ <= fence[s.queue] THEN @ ELSE fence[s.queue]]
             /\ gc' = [gc EXCEPT !.at = @ + 1]
             /\ UNCHANGED pendingSubmits
    <3>1. oldest' \in [Queue -> 0 .. Never]
      <4>1. \A q \in Queue : fence[q] \in 0 .. Never
        BY Types DEF Value, Never
      <4>2. oldest \in [Queue -> 0 .. Never]
        BY DEF TypeOK
      <4>3. \A q \in Queue : (IF oldest[q] <= fence[q] THEN oldest[q] ELSE fence[q]) \in 0 .. Never
        BY <4>1, <4>2
      <4> QED
        BY <2>3, <4>2, <4>3
    <3> QED
      BY <1>14, <2>1, <2>3, <3>1 DEF GcSubmit, TypeOK, Collection
  <2> QED
    BY <1>14, <2>2, <2>3 DEF GcSubmit
<1>15. ASSUME GcDelete PROVE TypeOK'
  <2> DEFINE z == deferredDeletes[gc.at]
  <2>1. gc.at \in Nat /\ [gc EXCEPT !.at = gc.at + 1] \in Collection
    BY <1>e DEF Collection
  <2>2. CASE /\ deferredDeletes' = RemoveAt(deferredDeletes, gc.at)
             /\ life' = [life EXCEPT ![z.resource] = "destroyed"]
             /\ UNCHANGED gc
    <3>1. PICK k \in 1 .. Len(deferredDeletes) : k = gc.at
      BY <1>15, FirstOn DEF GcDelete
    <3>2. deferredDeletes' \in Seq(Deleted)
      BY <2>2, <3>1, Types, RemoveAtProperties
    <3>3. life' \in [Resource -> {"live", "deferred", "zombie", "destroyed"}]
      BY <2>2 DEF TypeOK
    <3> QED
      BY <1>15, <2>2, <3>2, <3>3 DEF GcDelete, TypeOK, Deleted
  <2>3. CASE gc' = [gc EXCEPT !.at = @ + 1] /\ UNCHANGED <<deferredDeletes, life>>
    BY <1>15, <2>1, <2>3 DEF GcDelete, TypeOK, Collection
  <2> QED
    BY <1>15, <2>2, <2>3 DEF GcDelete
<1>16. ASSUME GcDrain PROVE TypeOK'
  <2>1. onDestroy # <<>> /\ gc.left \in Nat \ {0}
    BY <1>16, Types, LenProperties, EmptySeq DEF GcDrain, ScanInv, Collection
  <2>2. Head(onDestroy) \in Resource /\ onDestroy' \in Seq(Resource)
    BY <1>16, <2>1, Types, HeadTailProperties DEF GcDrain
  <2>3. [resource |-> Head(onDestroy), snapshot |-> cpuValue] \in Deleted
    BY <2>2, Types DEF Deleted
  <2>4. deferredDeletes' \in Seq(Deleted)
    BY <1>16, <2>3, Types, AppendElements DEF GcDrain
  <2>5. life' \in [Resource -> {"live", "deferred", "zombie", "destroyed"}]
    BY <1>16 DEF GcDrain, TypeOK
  <2>6. gc' \in Collection
    BY <1>16, <1>e, <2>1 DEF GcDrain, Collection
  <2> QED
    BY <1>16, <2>2, <2>4, <2>5, <2>6 DEF GcDrain, TypeOK, Deleted, Collection
<1>17. ASSUME GcSubmitsDone \/ GcDeletesDone \/ GcEnd PROVE TypeOK'
  <2>1. gc' \in Collection
    <3>1. [gc EXCEPT !.phase = "deletes", !.at = 1] \in Collection
      BY <1>e DEF Collection
    <3>2. GcIdle \in Collection
      BY DEF GcIdle, Collection
    <3>3. [phase |-> "drain", at |-> 1, left |-> Len(onDestroy)] \in Collection
      BY <1>e DEF Collection
    <3> QED
      BY <1>17, <3>1, <3>2, <3>3 DEF GcSubmitsDone, GcDeletesDone, GcEnd
  <2>2. oldest' \in [Queue -> 0 .. Never]
    <3>1. Never \in Nat
      BY Types
    <3>2. Never \in 0 .. Never
      BY <3>1
    <3>3. oldest \in [Queue -> 0 .. Never]
      BY DEF TypeOK
    <3> QED
      BY <1>17, <3>2, <3>3 DEF GcSubmitsDone, GcDeletesDone, GcEnd
  <2> QED
    BY <1>17, <2>1, <2>2 DEF GcSubmitsDone, GcDeletesDone, GcEnd, TypeOK, Collection
<1>18. ASSUME DtorWaitIdle \/ DtorEnd PROVE TypeOK'
  BY <1>18 DEF DtorWaitIdle, DtorEnd, TypeOK
<1> QED
  BY <1>a, <1>1, <1>2, <1>3, <1>4, <1>5, <1>6, <1>7, <1>8, <1>9, <1>10, <1>11, <1>12, <1>13, <1>14, <1>15,
     <1>16, <1>17, <1>18 DEF Next, SubmitStep, GcStep, Terminated

-----------------------------------------------------------------------------
(* The lists.                                                              *)

(* Every step of SubmitQueue but the last moves its thread to a stage that *)
(* is not that of GetCommandBuffer, and leaves the lists alone.            *)
LEMMA SubmitStages ==
  ASSUME TypeOK, NEW t \in Thread,
         SubmitNumber(t) \/ SubmitTrack(t) \/ SubmitExecute(t) \/ SubmitSnapshot(t) \/ SubmitSignal(t)
  PROVE  /\ UNCHANGED <<openLists, held, content, pooled, gc>>
         /\ \A u \in Thread : u # t => call'[u] = call[u]
         /\ call[t].stage # "counted" /\ call'[t].stage # "counted"
<1>1. call \in [Thread -> SubmitCall] /\ call[t] \in SubmitCall
  BY Types
<1> USE DEF gcVars
<1>2. CASE SubmitNumber(t)
  BY <1>1, <1>2 DEF SubmitNumber, SubmitCall, Idle
<1>3. CASE SubmitTrack(t)
  BY <1>1, <1>3 DEF SubmitTrack, SubmitCall
<1>4. CASE SubmitExecute(t)
  BY <1>1, <1>4 DEF SubmitExecute, SubmitCall
<1>5. CASE SubmitSnapshot(t)
  BY <1>1, <1>5 DEF SubmitSnapshot, SubmitCall
<1>6. CASE SubmitSignal(t)
  BY <1>1, <1>6 DEF SubmitSignal, SubmitCall, Idle
<1> QED
  BY <1>2, <1>3, <1>4, <1>5, <1>6

(* What is taken is not in the thread's hands yet. *)
LEMMA TakenIsNew ==
  ASSUME TypeOK, ListsInv, NEW t \in Thread, TakeCommandBuffer(t)
  PROVE  \E c \in 1 .. Len(content) + 1 :
           /\ held' = [held EXCEPT ![t] = held[t] \cup {c}]
           /\ \A u \in Thread : c \notin held[u]
           /\ \/ \E i \in 1 .. Len(pooled[QueueOf[t]]) :
                   /\ pooled[QueueOf[t]][i].cmd = c
                   /\ fence[QueueOf[t]] > pooled[QueueOf[t]][i].value
                   /\ pooled' = [pooled EXCEPT ![QueueOf[t]] = RemoveAt(pooled[QueueOf[t]], i)]
                   /\ UNCHANGED content
              \/ c = Len(content) + 1 /\ content' = Append(content, Blank) /\ UNCHANGED pooled
<1> DEFINE q == QueueOf[t]
<1>1. /\ q \in Queue /\ pooled[q] \in Seq(PooledBuffer) /\ DOMAIN pooled[q] = 1 .. Len(pooled[q])
      /\ Len(content) \in Nat
      /\ \A u \in Thread : held[u] \subseteq 1 .. Len(content)
  BY Types, LenProperties
<1>2. CASE \E i \in DOMAIN pooled[q] :
             /\ Reusable(q, pooled[q][i])
             /\ pooled' = [pooled EXCEPT ![q] = RemoveAt(@, i)]
             /\ held' = [held EXCEPT ![t] = @ \cup {pooled[q][i].cmd}]
             /\ UNCHANGED content
  <2>1. PICK i \in 1 .. Len(pooled[q]) :
             /\ Reusable(q, pooled[q][i])
             /\ pooled' = [pooled EXCEPT ![q] = RemoveAt(@, i)]
             /\ held' = [held EXCEPT ![t] = @ \cup {pooled[q][i].cmd}]
             /\ UNCHANGED content
    BY <1>1, <1>2
  <2>2. pooled[q][i].cmd \in 1 .. Len(content)
    <3>1. pooled[q][i] \in PooledBuffer
      BY <1>1, <2>1, ElementOfSeq
    <3> QED
      BY <3>1 DEF PooledBuffer
  <2>3. pooled[q][i].cmd \in 1 .. Len(content) + 1
    BY <1>1, <2>2
  <2>4. \A u \in Thread : pooled[q][i].cmd \notin held[u]
    BY <1>1 DEF ListsInv
  <2> QED
    BY <2>1, <2>3, <2>4 DEF Reusable
<1>3. CASE /\ content' = Append(content, Blank)
           /\ held' = [held EXCEPT ![t] = @ \cup {Len(content) + 1}]
           /\ UNCHANGED pooled
  <2>1. Len(content) + 1 \in 1 .. Len(content) + 1 /\ Len(content) + 1 \notin 1 .. Len(content)
    BY <1>1
  <2>2. \A u \in Thread : Len(content) + 1 \notin held[u]
    BY <1>1, <2>1
  <2> QED
    BY <1>3, <2>1, <2>2
<1> QED
  BY <1>2, <1>3 DEF TakeCommandBuffer

(* The counts of open lists are kept, and the collector's exclusion. *)
LEMMA OpenStep ==
  ASSUME OneThreadAQueue, TypeOK, OpenInv, ListsInv, [Next]_vars
  PROVE  OpenInv'
<1> USE DEF submitVars, listVars, lifeVars, gcVars
<1>0. /\ call \in [Thread -> SubmitCall] /\ held \in [Thread -> SUBSET (1 .. Len(content))]
      /\ openLists \in [Queue -> Nat] /\ \A t \in Thread : QueueOf[t] \in Queue /\ call[t] \in SubmitCall
  <2>1. openLists \in [Queue -> Nat]
    BY DEF TypeOK
  <2> QED
    BY <2>1, Types
<1>a. ASSUME UNCHANGED <<openLists, held>>, gc'.phase = gc.phase \/ gc'.phase = "idle",
             \A u \in Thread : (call'[u].stage = "counted") <=> (call[u].stage = "counted")
      PROVE  OpenInv'
  BY <1>a DEF OpenInv
<1>1. ASSUME NEW t \in Thread, AskForCommandBuffer(t) PROVE OpenInv'
  <2>1. /\ openLists'[QueueOf[t]] = openLists[QueueOf[t]] + 1
        /\ \A u \in Thread : u # t => openLists'[QueueOf[u]] = openLists[QueueOf[u]]
    BY <1>0, <1>1 DEF AskForCommandBuffer, IncrementCommandReference, OneThreadAQueue
  <2>2. /\ call[t].stage # "counted" /\ call'[t].stage = "counted"
        /\ \A u \in Thread : u # t => call'[u] = call[u]
    BY <1>0, <1>1 DEF AskForCommandBuffer, SubmitCall
  <2>3. UNCHANGED <<held, gc>>
    BY <1>1 DEF AskForCommandBuffer
  <2>4. ASSUME NEW u \in Thread
        PROVE  openLists'[QueueOf[u]] = Cardinality(held'[u]) + IF call'[u].stage = "counted" THEN 1 ELSE 0
    <3>1. openLists[QueueOf[u]] = Cardinality(held[u]) + IF call[u].stage = "counted" THEN 1 ELSE 0
      BY DEF OpenInv
    <3>2. Cardinality(held[u]) \in Nat
      BY HoldsOne
    <3> QED
      BY <2>1, <2>2, <2>3, <3>1, <3>2
  <2> QED
    BY <2>3, <2>4 DEF OpenInv
<1>2. ASSUME NEW t \in Thread, TakeCommandBuffer(t) PROVE OpenInv'
  <2>1. PICK c : held' = [held EXCEPT ![t] = held[t] \cup {c}] /\ c \notin held[t]
    BY <1>2, TakenIsNew
  <2>2. /\ IsFiniteSet(held[t]) /\ Cardinality(held[t]) \in Nat
        /\ Cardinality(held[t] \cup {c}) = Cardinality(held[t]) + 1
    BY <2>1, HoldsOne, FS_AddElement
  <2>3. UNCHANGED <<openLists, gc>> /\ gc.phase = "idle" /\ call[t].stage = "counted"
    BY <1>2 DEF TakeCommandBuffer, SharedAccess
  <2>4. call'[t].stage = "idle" /\ \A u \in Thread : u # t => call'[u] = call[u]
    BY <1>0, <1>2 DEF TakeCommandBuffer, Idle
  <2>5. held'[t] = held[t] \cup {c} /\ \A u \in Thread : u # t => held'[u] = held[u]
    BY <1>0, <2>1
  <2>6. ASSUME NEW u \in Thread
        PROVE  openLists'[QueueOf[u]] = Cardinality(held'[u]) + IF call'[u].stage = "counted" THEN 1 ELSE 0
    <3>1. openLists[QueueOf[u]] = Cardinality(held[u]) + IF call[u].stage = "counted" THEN 1 ELSE 0
      BY DEF OpenInv
    <3>2. CASE u = t
      <4>1. Cardinality(held'[t]) = Cardinality(held[t]) + 1
        BY <2>2, <2>5
      <4> QED
        BY <2>2, <2>3, <2>4, <3>1, <3>2, <4>1
    <3> QED
      BY <2>3, <2>4, <2>5, <3>1, <3>2
  <2> QED
    BY <2>3, <2>6 DEF OpenInv
<1>3. ASSUME NEW t \in Thread, NEW c \in held[t], RestoreCommandBuffer(t, c) PROVE OpenInv'
  <2>1. /\ openLists'[QueueOf[t]] = openLists[QueueOf[t]] - 1
        /\ \A u \in Thread : u # t => openLists'[QueueOf[u]] = openLists[QueueOf[u]]
    BY <1>0, <1>3 DEF RestoreCommandBuffer, DecrementCommandReference, OneThreadAQueue
  <2>2. /\ IsFiniteSet(held[t]) /\ Cardinality(held[t]) \in Nat
        /\ Cardinality(held[t] \ {c}) = Cardinality(held[t]) - 1
    BY HoldsOne, FS_RemoveElement
  <2>3. held'[t] = held[t] \ {c} /\ \A u \in Thread : u # t => held'[u] = held[u]
    BY <1>0, <1>3 DEF RestoreCommandBuffer
  <2>4. /\ call[t].stage # "counted" /\ call'[t].stage # "counted"
        /\ \A u \in Thread : u # t => call'[u] = call[u]
    BY <1>0, <1>3 DEF RestoreCommandBuffer, Idle
  <2>5. gc.phase = "idle" /\ UNCHANGED gc
    BY <1>3 DEF RestoreCommandBuffer, SharedAccess
  <2>6. ASSUME NEW u \in Thread
        PROVE  openLists'[QueueOf[u]] = Cardinality(held'[u]) + IF call'[u].stage = "counted" THEN 1 ELSE 0
    <3>1. openLists[QueueOf[u]] = Cardinality(held[u]) + IF call[u].stage = "counted" THEN 1 ELSE 0
      BY DEF OpenInv
    <3>2. CASE u = t
      <4>1. Cardinality(held'[t]) = Cardinality(held[t]) - 1
        BY <2>2, <2>3
      <4> QED
        BY <2>1, <2>2, <2>4, <3>1, <3>2, <4>1
    <3> QED
      BY <2>1, <2>3, <2>4, <3>1, <3>2
  <2> QED
    BY <2>5, <2>6 DEF OpenInv
<1>4. ASSUME GcBegin PROVE OpenInv'
  <2>1. \A u \in Thread : held[u] = {}
    BY <1>0, <1>4, HoldsOne DEF GcBegin, NoOpenCommands
  <2> QED
    BY <1>4, <2>1 DEF GcBegin, OpenInv
<1>5. ASSUME NEW t \in Thread,
             SubmitNumber(t) \/ SubmitTrack(t) \/ SubmitExecute(t) \/ SubmitSnapshot(t) \/ SubmitSignal(t)
      PROVE  OpenInv'
  <2>1. /\ UNCHANGED <<openLists, held, gc>>
        /\ \A u \in Thread : (call'[u].stage = "counted") <=> (call[u].stage = "counted")
    BY <1>5, SubmitStages
  <2> QED
    BY <1>a, <2>1
<1>6. ASSUME NEW t \in Thread, NEW c \in held[t], NEW r \in Resource, Record(t, c, r) \/ RecordScratch(t, c, r)
      PROVE  OpenInv'
  BY <1>a, <1>6 DEF Record, RecordScratch
<1>7. ASSUME NEW q \in Queue, GpuStep(q) PROVE OpenInv'
  BY <1>a, <1>7 DEF GpuStep
<1>8. ASSUME NEW r \in Resource, TryEnqueueDestroyDeferred(r) \/ DestroyImmediately(r) PROVE OpenInv'
  BY <1>a, <1>8 DEF TryEnqueueDestroyDeferred, DestroyImmediately
<1>9. ASSUME GcStep PROVE OpenInv'
  <2>1. UNCHANGED listVars /\ gc.phase # "idle"
    BY <1>9 DEF GcStep, GcSubmit, GcSubmitsDone, GcDelete, GcDeletesDone, GcDrain, GcEnd
  <2> QED
    BY <2>1 DEF OpenInv
<1>10. ASSUME DtorWaitIdle \/ DtorEnd \/ UNCHANGED vars PROVE OpenInv'
  BY <1>a, <1>10 DEF DtorWaitIdle, DtorEnd, vars
<1> QED
  BY <1>1, <1>2, <1>3, <1>4, <1>5, <1>6, <1>7, <1>8, <1>9, <1>10 DEF Next, SubmitStep, Terminated

(* Command buffers go from a pool to a thread and back, one at a time. *)
LEMMA ListsStep ==
  ASSUME TypeOK, ListsInv, [Next]_vars
  PROVE  ListsInv'
<1> USE DEF submitVars, listVars, lifeVars, gcVars
<1>0. /\ held \in [Thread -> SUBSET (1 .. Len(content))] /\ pooled \in [Queue -> Seq(PooledBuffer)]
      /\ content \in Seq(Recorded) /\ Len(content) \in Nat
      /\ \A q \in Queue : pooled[q] \in Seq(PooledBuffer) /\ Len(pooled[q]) \in Nat
  BY Types, LenProperties
<1>1. \A q \in Queue : \A i \in 1 .. Len(pooled[q]) : pooled[q][i].cmd \in 1 .. Len(content)
  <2> TAKE q \in Queue
  <2> TAKE i \in 1 .. Len(pooled[q])
  <2>1. pooled[q][i] \in PooledBuffer
    BY <1>0, ElementOfSeq
  <2> QED
    BY <2>1 DEF PooledBuffer
<1>2. ASSUME UNCHANGED <<held, pooled>>,
             \A c \in 1 .. Len(content) : (\A t \in Thread : c \notin held[t]) => content'[c] = content[c]
      PROVE  ListsInv'
  <2>1. \A q \in Queue : \A i \in 1 .. Len(pooled[q]) :
          content'[pooled[q][i].cmd] = content[pooled[q][i].cmd]
    BY <1>1, <1>2 DEF ListsInv
  <2> QED
    BY <1>2, <2>1 DEF ListsInv
<1>3. ASSUME NEW t \in Thread, TakeCommandBuffer(t) PROVE ListsInv'
  <2> DEFINE q == QueueOf[t]
  <2>1. PICK c \in 1 .. Len(content) + 1 :
           /\ held' = [held EXCEPT ![t] = held[t] \cup {c}]
           /\ \A u \in Thread : c \notin held[u]
           /\ \/ \E i \in 1 .. Len(pooled[q]) :
                   /\ pooled[q][i].cmd = c
                   /\ pooled' = [pooled EXCEPT ![q] = RemoveAt(pooled[q], i)]
                   /\ UNCHANGED content
              \/ c = Len(content) + 1 /\ content' = Append(content, Blank) /\ UNCHANGED pooled
    BY <1>3, TakenIsNew
  <2>2. held'[t] = held[t] \cup {c} /\ \A u \in Thread : u # t => held'[u] = held[u]
    BY <1>0, <2>1
  <2>3. \A u, v \in Thread : \A d \in held'[u] : d \in held'[v] => u = v
    BY <2>1, <2>2 DEF ListsInv
  <2>4. CASE \E i \in 1 .. Len(pooled[q]) :
               /\ pooled[q][i].cmd = c
               /\ pooled' = [pooled EXCEPT ![q] = RemoveAt(pooled[q], i)]
               /\ UNCHANGED content
    <3>1. PICK i \in 1 .. Len(pooled[q]) :
               /\ pooled[q][i].cmd = c
               /\ pooled' = [pooled EXCEPT ![q] = RemoveAt(pooled[q], i)]
               /\ UNCHANGED content
      BY <2>4
    <3>2. q \in Queue /\ pooled'[q] = RemoveAt(pooled[q], i) /\ \A p \in Queue : p # q => pooled'[p] = pooled[p]
      BY <1>0, <3>1, Types
    <3>3. PICK f \in [1 .. Len(pooled'[q]) -> 1 .. Len(pooled[q])] :
               /\ \A j \in 1 .. Len(pooled'[q]) : f[j] # i /\ pooled'[q][j] = pooled[q][f[j]]
               /\ \A j, k \in 1 .. Len(pooled'[q]) : f[j] = f[k] => j = k
      <4>1. pooled[q] \in Seq(PooledBuffer)
        BY <1>0, <3>2
      <4> QED
        BY SMTT(30), <3>2, <4>1, RemoveAtPlaces
    <3>4. \A p \in Queue : \A j \in 1 .. Len(pooled'[p]) : \E k \in 1 .. Len(pooled[p]) :
            /\ pooled'[p][j] = pooled[p][k]
            /\ pooled'[p][j].cmd # c
      <4> TAKE p \in Queue
      <4> TAKE j \in 1 .. Len(pooled'[p])
      <4>1. CASE p = q
        <5>1. f[j] \in 1 .. Len(pooled[q]) /\ f[j] # i /\ pooled'[q][j] = pooled[q][f[j]]
          BY <3>3, <4>1
        <5>2. pooled[q][f[j]].cmd # pooled[q][i].cmd
          BY <3>2, <5>1 DEF ListsInv
        <5> QED
          BY <3>1, <4>1, <5>1, <5>2
      <4>2. CASE p # q
        <5>1. j \in 1 .. Len(pooled[p]) /\ pooled'[p][j] = pooled[p][j]
          BY <3>2, <4>2
        <5>2. pooled[p][j].cmd # pooled[q][i].cmd
          BY <3>2, <4>2, <5>1 DEF ListsInv
        <5> QED
          BY <3>1, <5>1, <5>2
      <4> QED
        BY <4>1, <4>2
    <3>5. \A p \in Queue : \A j \in 1 .. Len(pooled'[p]) :
            /\ content'[pooled'[p][j].cmd] = Blank
            /\ \A u \in Thread : pooled'[p][j].cmd \notin held'[u]
      <4> TAKE p \in Queue
      <4> TAKE j \in 1 .. Len(pooled'[p])
      <4>1. PICK k \in 1 .. Len(pooled[p]) : pooled'[p][j] = pooled[p][k] /\ pooled'[p][j].cmd # c
        BY <3>4
      <4>2. content[pooled[p][k].cmd] = Blank /\ \A u \in Thread : pooled[p][k].cmd \notin held[u]
        BY DEF ListsInv
      <4> QED
        BY <2>2, <3>1, <4>1, <4>2
    <3>6. \A o, p \in Queue : \A j \in 1 .. Len(pooled'[o]), k \in 1 .. Len(pooled'[p]) :
            pooled'[o][j].cmd = pooled'[p][k].cmd => o = p /\ j = k
      <4> TAKE o, p \in Queue
      <4> TAKE j \in 1 .. Len(pooled'[o]), k \in 1 .. Len(pooled'[p])
      <4> HAVE pooled'[o][j].cmd = pooled'[p][k].cmd
      <4>1. o = p
        <5>1. PICK a \in 1 .. Len(pooled[o]) : pooled'[o][j] = pooled[o][a]
          BY <3>4
        <5>2. PICK b \in 1 .. Len(pooled[p]) : pooled'[p][k] = pooled[p][b]
          BY <3>4
        <5> QED
          BY <5>1, <5>2 DEF ListsInv
      <4>2. CASE o = q
        <5>1. /\ f[j] \in 1 .. Len(pooled[q]) /\ f[k] \in 1 .. Len(pooled[q])
              /\ pooled'[q][j] = pooled[q][f[j]] /\ pooled'[q][k] = pooled[q][f[k]]
          BY <3>3, <4>1, <4>2
        <5>2. f[j] = f[k]
          BY <3>2, <4>1, <4>2, <5>1 DEF ListsInv
        <5> QED
          BY <3>3, <4>1, <4>2, <5>2
      <4>3. CASE o # q
        BY <3>2, <4>1, <4>3 DEF ListsInv
      <4> QED
        BY <4>1, <4>2, <4>3
    <3> QED
      BY <2>3, <3>5, <3>6 DEF ListsInv
  <2>5. CASE c = Len(content) + 1 /\ content' = Append(content, Blank) /\ UNCHANGED pooled
    <3>1. Blank \in Recorded
      BY DEF Blank, Recorded
    <3>2. \A d \in 1 .. Len(content) : content'[d] = content[d] /\ d # c
      BY <1>0, <2>5, <3>1, AppendElements
    <3> QED
      BY <1>1, <2>2, <2>3, <2>5, <3>2 DEF ListsInv
  <2> QED
    BY <2>1, <2>4, <2>5
<1>4. ASSUME NEW t \in Thread, NEW c \in held[t], NEW r \in Resource, Record(t, c, r) \/ RecordScratch(t, c, r)
      PROVE  ListsInv'
  <2>1. UNCHANGED <<held, pooled>> /\ \A d \in 1 .. Len(content) : d # c => content'[d] = content[d]
    BY <1>0, <1>4 DEF Record, RecordScratch
  <2> QED
    BY <1>2, <2>1
<1>5. ASSUME NEW t \in Thread, NEW c \in held[t], RestoreCommandBuffer(t, c) PROVE ListsInv'
  <2> DEFINE q == QueueOf[t]
             p == [cmd |-> c, value |-> call[t].value]
  <2>0. q \in Queue /\ c \in 1 .. Len(content) /\ p \in PooledBuffer
    <3>1. call[t] \in SubmitCall /\ c \in 1 .. Len(content) /\ q \in Queue
      BY Types
    <3> QED
      BY <3>1 DEF SubmitCall, PooledBuffer
  <2>1. held'[t] = held[t] \ {c} /\ \A u \in Thread : u # t => held'[u] = held[u]
    BY <1>0, <1>5 DEF RestoreCommandBuffer
  <2>2. content'[c] = Blank /\ \A d \in 1 .. Len(content) : d # c => content'[d] = content[d]
    BY <1>0, <1>5, <2>0 DEF RestoreCommandBuffer
  <2>3. pooled'[q] = Append(pooled[q], p) /\ \A o \in Queue : o # q => pooled'[o] = pooled[o]
    BY <1>0, <1>5, <2>0 DEF RestoreCommandBuffer
  <2> HIDE DEF p
  <2>4. p.cmd = c
    BY DEF p
  <2>5. \A o \in Queue : \A i \in 1 .. Len(pooled'[o]) :
          \/ i \in 1 .. Len(pooled[o]) /\ pooled'[o][i] = pooled[o][i] /\ pooled'[o][i].cmd # c
          \/ o = q /\ i = Len(pooled[q]) + 1 /\ pooled'[o][i] = p
    <3> TAKE o \in Queue
    <3> TAKE i \in 1 .. Len(pooled'[o])
    <3>1. \/ i \in 1 .. Len(pooled[o]) /\ pooled'[o][i] = pooled[o][i]
          \/ o = q /\ i = Len(pooled[q]) + 1 /\ pooled'[o][i] = p
      <4>1. CASE o = q
        <5>1. pooled[q] \in Seq(PooledBuffer) /\ pooled'[q] = Append(pooled[q], p)
          BY <1>0, <2>0, <2>3
        <5> QED
          BY <2>0, <4>1, <5>1, AppendElements
      <4>2. CASE o # q
        BY <2>3, <4>2
      <4> QED
        BY <4>1, <4>2
    <3>2. i \in 1 .. Len(pooled[o]) => pooled[o][i].cmd # c
      BY DEF ListsInv
    <3> QED
      BY <3>1, <3>2
  <2>6. \A u, v \in Thread : \A d \in held'[u] : d \in held'[v] => u = v
    BY <2>1 DEF ListsInv
  <2>7. \A o \in Queue : \A i \in 1 .. Len(pooled'[o]) :
          /\ content'[pooled'[o][i].cmd] = Blank
          /\ \A u \in Thread : pooled'[o][i].cmd \notin held'[u]
    <3> TAKE o \in Queue
    <3> TAKE i \in 1 .. Len(pooled'[o])
    <3>1. CASE i \in 1 .. Len(pooled[o]) /\ pooled'[o][i] = pooled[o][i] /\ pooled'[o][i].cmd # c
      <4>1. content[pooled[o][i].cmd] = Blank /\ \A u \in Thread : pooled[o][i].cmd \notin held[u]
        BY <3>1 DEF ListsInv
      <4>2. pooled[o][i].cmd \in 1 .. Len(content)
        BY <1>1, <3>1
      <4>3. content'[pooled[o][i].cmd] = content[pooled[o][i].cmd]
        BY <2>2, <3>1, <4>2
      <4> QED
        BY <2>1, <3>1, <4>1, <4>3
    <3>2. CASE pooled'[o][i] = p
      <4>1. \A u \in Thread : c \notin held'[u]
        BY <2>1 DEF ListsInv
      <4> QED
        BY <2>2, <2>4, <3>2, <4>1
    <3> QED
      BY <2>5, <3>1, <3>2
  <2>8. \A o, r \in Queue : \A i \in 1 .. Len(pooled'[o]), j \in 1 .. Len(pooled'[r]) :
          pooled'[o][i].cmd = pooled'[r][j].cmd => o = r /\ i = j
    <3>1. \A o, r \in Queue : \A i \in 1 .. Len(pooled[o]), j \in 1 .. Len(pooled[r]) :
            pooled[o][i].cmd = pooled[r][j].cmd => o = r /\ i = j
      BY DEF ListsInv
    <3> SUFFICES ASSUME NEW o \in Queue, NEW r \in Queue, NEW i \in 1 .. Len(pooled'[o]), NEW j \in 1 .. Len(pooled'[r]),
                        pooled'[o][i].cmd = pooled'[r][j].cmd
                 PROVE  o = r /\ i = j
      OBVIOUS
    <3>2. \/ i \in 1 .. Len(pooled[o]) /\ pooled'[o][i] = pooled[o][i] /\ pooled'[o][i].cmd # c
          \/ o = q /\ i = Len(pooled[q]) + 1 /\ pooled'[o][i] = p
      BY <2>5
    <3>3. \/ j \in 1 .. Len(pooled[r]) /\ pooled'[r][j] = pooled[r][j] /\ pooled'[r][j].cmd # c
          \/ r = q /\ j = Len(pooled[q]) + 1 /\ pooled'[r][j] = p
      BY <2>5
    <3> QED
      BY <2>4, <3>1, <3>2, <3>3
  <2> QED
    BY <2>6, <2>7, <2>8 DEF ListsInv
<1>6. ASSUME NEW t \in Thread,
             SubmitNumber(t) \/ SubmitTrack(t) \/ SubmitExecute(t) \/ SubmitSnapshot(t) \/ SubmitSignal(t)
      PROVE  ListsInv'
  BY <1>2, <1>6, SubmitStages
<1>7. ASSUME UNCHANGED <<held, pooled, content>> PROVE ListsInv'
  BY <1>2, <1>7
<1>8. ASSUME NEW t \in Thread, AskForCommandBuffer(t) PROVE ListsInv'
  BY <1>7, <1>8 DEF AskForCommandBuffer
<1>9. ASSUME NEW q \in Queue, GpuStep(q) PROVE ListsInv'
  BY <1>7, <1>9 DEF GpuStep
<1>10. ASSUME NEW r \in Resource, TryEnqueueDestroyDeferred(r) \/ DestroyImmediately(r) PROVE ListsInv'
  BY <1>7, <1>10 DEF TryEnqueueDestroyDeferred, DestroyImmediately
<1>11. ASSUME GcBegin \/ GcStep PROVE ListsInv'
  BY <1>7, <1>11 DEF GcBegin, GcStep, GcSubmit, GcSubmitsDone, GcDelete, GcDeletesDone, GcDrain, GcEnd
<1>12. ASSUME DtorWaitIdle \/ DtorEnd \/ UNCHANGED vars PROVE ListsInv'
  BY <1>7, <1>12 DEF DtorWaitIdle, DtorEnd, vars
<1> QED
  BY <1>3, <1>4, <1>5, <1>6, <1>8, <1>9, <1>10, <1>11, <1>12 DEF Next, SubmitStep, Terminated

-----------------------------------------------------------------------------
(* The fence values.                                                       *)

(* The numbers in the state, one by one. *)
LEMMA Numbers ==
  ASSUME TypeOK
  PROVE  /\ \A q \in Queue : /\ cpuValue[q] \in Nat /\ fence[q] \in Nat /\ cpuValue[q] \in Value
                             /\ fence[q] \in Value
                             /\ driver[q] \in Seq(DriverEntry) /\ Len(driver[q]) \in Nat
         /\ \A q \in Queue : \A i \in 1 .. Len(driver[q]) :
              driver[q][i] \in DriverEntry /\ driver[q][i].value \in Value /\ driver[q][i].value \in Nat
         /\ \A t \in Thread : /\ QueueOf[t] \in Queue /\ call[t] \in SubmitCall
                              /\ call[t].value \in Value /\ call[t].value \in Nat
                              /\ call[t].snapshot \in [Queue -> Value]
         /\ Len(pendingSubmits) \in Nat
         /\ \A i \in 1 .. Len(pendingSubmits) : pendingSubmits[i] \in Pending
         /\ Len(deferredDeletes) \in Nat
         /\ \A i \in 1 .. Len(deferredDeletes) :
              /\ deferredDeletes[i] \in Deleted /\ deferredDeletes[i].resource \in Resource
              /\ \A q \in Queue : deferredDeletes[i].snapshot[q] \in Nat
<1>1. /\ Value \subseteq Nat
      /\ \A q \in Queue : /\ cpuValue[q] \in Value /\ fence[q] \in Value
                          /\ driver[q] \in Seq(DriverEntry) /\ Len(driver[q]) \in Nat
      /\ \A t \in Thread : QueueOf[t] \in Queue /\ call[t] \in SubmitCall
      /\ Len(pendingSubmits) \in Nat /\ Len(deferredDeletes) \in Nat
  BY Types, LenProperties
<1>2. \A q \in Queue : \A i \in 1 .. Len(driver[q]) : driver[q][i] \in DriverEntry
  BY <1>1, ElementOfSeq
<1>3. \A i \in 1 .. Len(pendingSubmits) : pendingSubmits[i] \in Pending
  BY Types, ElementOfSeq
<1>4. \A i \in 1 .. Len(deferredDeletes) : deferredDeletes[i] \in Deleted
  BY Types, ElementOfSeq
<1>5. \A t \in Thread : call[t].value \in Value /\ call[t].snapshot \in [Queue -> Value]
  BY <1>1 DEF SubmitCall
<1>6. \A e \in DriverEntry : e.value \in Value
  BY DEF DriverEntry
<1>7. \A z \in Deleted : z.resource \in Resource /\ \A q \in Queue : z.snapshot[q] \in Nat
  BY <1>1 DEF Deleted
<1> QED
  BY <1>1, <1>2, <1>3, <1>4, <1>5, <1>6, <1>7

(* What is on record stays so when another submission is put on record. *)
LEMMA AppendTracked ==
  ASSUME TypeOK, NEW p \in Pending, pendingSubmits' = Append(pendingSubmits, p)
  PROVE  /\ \A q, v : Tracked(pendingSubmits, q, v) => Tracked(pendingSubmits', q, v)
         /\ Tracked(pendingSubmits', p.queue, p.value)
<1>1. pendingSubmits \in Seq(Pending)
  BY Types
<1>2. /\ Len(pendingSubmits) \in Nat /\ Len(pendingSubmits') = Len(pendingSubmits) + 1
      /\ \A i \in 1 .. Len(pendingSubmits) :
           i \in 1 .. Len(pendingSubmits') /\ pendingSubmits'[i] = pendingSubmits[i]
      /\ pendingSubmits'[Len(pendingSubmits) + 1] = p
  BY <1>1, AppendElements, AppendProperties
<1>3. p = [queue |-> p.queue, value |-> p.value] /\ Len(pendingSubmits) + 1 \in 1 .. Len(pendingSubmits')
  BY <1>2 DEF Pending
<1> QED
  BY <1>2, <1>3 DEF Tracked

(* The collector forgets only submissions the fence has reached. *)
LEMMA RemoveTracked ==
  ASSUME TypeOK, NEW k \in 1 .. Len(pendingSubmits), Completed(pendingSubmits[k]),
         pendingSubmits' = RemoveAt(pendingSubmits, k)
  PROVE  \A q \in Queue : \A v \in Nat :
           Tracked(pendingSubmits, q, v) /\ fence[q] < v => Tracked(pendingSubmits', q, v)
<1> TAKE q \in Queue
<1> TAKE v \in Nat
<1> HAVE Tracked(pendingSubmits, q, v) /\ fence[q] < v
<1>1. PICK i \in 1 .. Len(pendingSubmits) : pendingSubmits[i] = [queue |-> q, value |-> v]
  BY DEF Tracked
<1>2. fence[q] \in Nat
  BY Numbers
<1>3. i # k
  BY <1>1, <1>2 DEF Completed
<1>4. pendingSubmits \in Seq(Pending)
  BY Types
<1>5. \E j \in 1 .. Len(pendingSubmits') : pendingSubmits'[j] = pendingSubmits[i]
  BY <1>3, <1>4, RemoveAtElements
<1> QED
  BY <1>1, <1>5 DEF Tracked

(* The fence of a queue, what the driver has still to signal and what is   *)
(* being submitted stay in order.                                          *)
LEMMA SignalStep ==
  ASSUME OneThreadAQueue, TypeOK, SignalInv, CallInv, ScanInv, [Next]_vars
  PROVE  SignalInv' /\ CallInv'
<1> USE DEF submitVars, listVars, lifeVars, gcVars
<1>0. /\ call \in [Thread -> SubmitCall] /\ cpuValue \in [Queue -> Value] /\ driver \in [Queue -> Seq(DriverEntry)]
      /\ fence \in [Queue -> Value]
  BY Types
<1>a. ASSUME UNCHANGED <<submitVars, call>> PROVE SignalInv' /\ CallInv'
  BY <1>a DEF SignalInv, CallInv
<1>b. ASSUME UNCHANGED submitVars, NEW t \in Thread, \A u \in Thread : u # t => call'[u] = call[u],
             call'[t] = call[t] \/ call'[t].stage \in {"idle", "counted"}
      PROVE  SignalInv' /\ CallInv'
  <2>1. SignalInv'
    BY <1>b DEF SignalInv
  <2>2. ASSUME NEW u \in Thread, call'[u] = call[u]
        PROVE  /\ call'[u].stage \in Numbered =>
                    /\ call'[u].value = cpuValue'[QueueOf[u]]
                    /\ fence'[QueueOf[u]] < call'[u].value
                    /\ \A i \in 1 .. Len(driver'[QueueOf[u]]) :
                         IsSignal(driver'[QueueOf[u]][i]) => driver'[QueueOf[u]][i].value < call'[u].value
               /\ call'[u].stage \in OnRecord => Tracked(pendingSubmits', QueueOf[u], call'[u].value)
               /\ call'[u].stage \in {"snapped", "signalled"} => call'[u].value <= call'[u].snapshot[QueueOf[u]]
    BY <1>b, <2>2 DEF CallInv
  <2>3. call'[t].stage \in {"idle", "counted"} =>
          call'[t].stage \notin Numbered \cup OnRecord \cup {"snapped", "signalled"}
    BY DEF Numbered, OnRecord
  <2> QED
    BY <1>b, <2>1, <2>2, <2>3 DEF CallInv
<1>1. ASSUME NEW t \in Thread, AskForCommandBuffer(t) PROVE SignalInv' /\ CallInv'
  BY <1>b, <1>1, <1>0 DEF AskForCommandBuffer, SubmitCall
<1>2. ASSUME NEW t \in Thread, TakeCommandBuffer(t) PROVE SignalInv' /\ CallInv'
  BY <1>b, <1>2, <1>0 DEF TakeCommandBuffer, Idle
<1>3. ASSUME NEW t \in Thread, NEW c \in held[t], RestoreCommandBuffer(t, c) PROVE SignalInv' /\ CallInv'
  BY <1>b, <1>3, <1>0 DEF RestoreCommandBuffer, Idle
<1>4. ASSUME NEW t \in Thread, SubmitNumber(t) PROVE SignalInv' /\ CallInv'
  <2> DEFINE q == QueueOf[t]
             v == cpuValue[q] + 1
  <2>1. q \in Queue /\ cpuValue[q] \in Nat /\ fence[q] \in Nat
    BY Numbers
  <2>2. /\ cpuValue'[q] = v /\ \A p \in Queue : p # q => cpuValue'[p] = cpuValue[p]
        /\ UNCHANGED <<fence, driver, pendingSubmits>>
    BY <1>0, <1>4, <2>1 DEF SubmitNumber
  <2>3. /\ call'[t].stage = "numbered" /\ call'[t].value = v
        /\ \A u \in Thread : u # t => call'[u] = call[u] /\ QueueOf[u] # q
    BY <1>0, <1>4 DEF SubmitNumber, Idle, OneThreadAQueue
  <2>4. /\ fence[q] < v
        /\ \A i \in 1 .. Len(driver[q]) : IsSignal(driver[q][i]) => driver[q][i].value < v /\ driver[q][i].value <= v
    BY SMTT(30), <2>1, Numbers DEF SignalInv
  <2>5. SignalInv'
    <3>1. \A p \in Queue : fence'[p] <= cpuValue'[p]
      BY <2>1, <2>2, <2>4 DEF SignalInv
    <3>2. \A p \in Queue : \A i \in 1 .. Len(driver[p]) : IsSignal(driver[p][i]) => driver[p][i].value <= cpuValue'[p]
      BY <2>2, <2>4 DEF SignalInv
    <3> QED
      BY <2>2, <3>1, <3>2 DEF SignalInv
  <2> HIDE DEF v
  <2>6. CallInv'
    <3>1. "numbered" \notin OnRecord
      BY DEF OnRecord
    <3>2. \A u \in Thread : u # t => cpuValue'[QueueOf[u]] = cpuValue[QueueOf[u]]
      BY <2>2, <2>3, Numbers
    <3> QED
      BY <2>2, <2>3, <2>4, <3>1, <3>2 DEF CallInv
  <2> QED
    BY <2>5, <2>6
<1>5. ASSUME NEW t \in Thread, SubmitTrack(t) PROVE SignalInv' /\ CallInv'
  <2> DEFINE p == [queue |-> QueueOf[t], value |-> call[t].value]
  <2>1. p \in Pending /\ pendingSubmits' = Append(pendingSubmits, p)
    BY <1>5, Numbers DEF SubmitTrack, Pending
  <2>2. /\ \A q, v : Tracked(pendingSubmits, q, v) => Tracked(pendingSubmits', q, v)
        /\ Tracked(pendingSubmits', p.queue, p.value)
    BY <2>1, AppendTracked
  <2>3. Tracked(pendingSubmits', QueueOf[t], call[t].value)
    BY <2>2
  <2>4. UNCHANGED <<cpuValue, fence, driver>>
    BY <1>5 DEF SubmitTrack
  <2>5. /\ call[t].stage = "numbered" /\ call'[t].stage = "tracked" /\ call'[t].value = call[t].value
        /\ \A u \in Thread : u # t => call'[u] = call[u]
    BY <1>0, <1>5 DEF SubmitTrack, SubmitCall
  <2>6. SignalInv'
    BY <2>2, <2>4, Numbers DEF SignalInv
  <2>7. ASSUME NEW u \in Thread
        PROVE  /\ call'[u].stage \in Numbered =>
                    /\ call'[u].value = cpuValue[QueueOf[u]]
                    /\ fence[QueueOf[u]] < call'[u].value
                    /\ \A i \in 1 .. Len(driver[QueueOf[u]]) :
                         IsSignal(driver[QueueOf[u]][i]) => driver[QueueOf[u]][i].value < call'[u].value
               /\ call'[u].stage \in OnRecord => Tracked(pendingSubmits', QueueOf[u], call'[u].value)
               /\ call'[u].stage \in {"snapped", "signalled"} => call'[u].value <= call'[u].snapshot[QueueOf[u]]
    <3>1. CASE u = t
      <4>1. "numbered" \in Numbered /\ "tracked" \notin {"snapped", "signalled"}
        BY DEF Numbered
      <4> QED
        BY <2>3, <2>5, <3>1, <4>1 DEF CallInv
    <3>2. CASE u # t
      BY <2>2, <2>5, <3>2 DEF CallInv
    <3> QED
      BY <3>1, <3>2
  <2> QED
    BY <2>4, <2>6, <2>7 DEF CallInv
<1>6. ASSUME NEW t \in Thread, SubmitExecute(t) PROVE SignalInv' /\ CallInv'
  <2> DEFINE q == QueueOf[t]
             w == Work(held[t], UNION {content[c].uses : c \in held[t]})
  <2>1. /\ driver'[q] = Append(driver[q], w) /\ \A p \in Queue : p # q => driver'[p] = driver[p]
        /\ UNCHANGED <<cpuValue, fence, pendingSubmits>>
    BY <1>0, <1>6, Numbers DEF SubmitExecute
  <2>2. /\ call[t].stage = "tracked" /\ call'[t].stage = "executed" /\ call'[t].value = call[t].value
        /\ \A u \in Thread : u # t => call'[u] = call[u]
    BY <1>0, <1>6 DEF SubmitExecute, SubmitCall
  <2>3. ~IsSignal(w)
    BY DEF IsSignal, Work
  <2>4. w \in DriverEntry
    BY <1>6, ExecutedEntry
  <2> HIDE DEF w
  <2>5. \A p \in Queue : \A i \in 1 .. Len(driver'[p]) : IsSignal(driver'[p][i]) =>
          i \in 1 .. Len(driver[p]) /\ driver'[p][i] = driver[p][i]
    <3> TAKE p \in Queue
    <3>1. CASE p = q
      <4>1. driver[p] \in Seq(DriverEntry) /\ driver'[p] = Append(driver[p], w)
        BY <2>1, <3>1, Numbers
      <4>2. \A i \in 1 .. Len(driver'[p]) :
              \/ i \in 1 .. Len(driver[p]) /\ driver'[p][i] = driver[p][i]
              \/ driver'[p][i] = w
        BY <2>4, <4>1, AppendElements
      <4> QED
        BY <2>3, <4>2
    <3> QED
      BY <2>1, <3>1
  <2>6. SignalInv'
    BY <2>1, <2>5 DEF SignalInv
  <2>7. "tracked" \in Numbered /\ "tracked" \in OnRecord /\ "executed" \notin {"snapped", "signalled"}
    BY DEF Numbered, OnRecord
  <2>8. CallInv'
    BY ZenonT(60), <2>1, <2>2, <2>5, <2>7, Numbers DEF CallInv
  <2> QED
    BY <2>6, <2>8
<1>7. ASSUME NEW t \in Thread, SubmitSnapshot(t) PROVE SignalInv' /\ CallInv'
  <2>1. UNCHANGED submitVars
    BY <1>7 DEF SubmitSnapshot
  <2>2. /\ call[t].stage = "executed" /\ call'[t].stage = "snapped" /\ call'[t].value = call[t].value
        /\ call'[t].snapshot = cpuValue
        /\ \A u \in Thread : u # t => call'[u] = call[u]
    BY <1>0, <1>7 DEF SubmitSnapshot, SubmitCall
  <2>3. "executed" \in Numbered /\ "executed" \in OnRecord
    BY DEF Numbered, OnRecord
  <2>4. cpuValue[QueueOf[t]] <= cpuValue[QueueOf[t]]
    BY Numbers
  <2>5. CallInv'
    BY <2>1, <2>2, <2>3, <2>4 DEF CallInv
  <2> QED
    BY <2>1, <2>5 DEF SignalInv
<1>8. ASSUME NEW t \in Thread, SubmitSignal(t) PROVE SignalInv' /\ CallInv'
  <2> DEFINE q == QueueOf[t]
             e == Signal(call[t].value)
  <2>0. q \in Queue /\ call[t].value \in Value /\ fence[q] \in Nat /\ cpuValue[q] \in Nat
    BY Numbers
  <2>1. /\ driver'[q] = Append(driver[q], e) /\ \A p \in Queue : p # q => driver'[p] = driver[p]
        /\ UNCHANGED <<cpuValue, fence, pendingSubmits>>
    BY <1>0, <1>8, <2>0 DEF SubmitSignal
  <2>2. /\ call[t].stage = "snapped" /\ \A u \in Thread : u # t => call'[u] = call[u]
        /\ \/ call'[t].stage = "idle"
           \/ call'[t].stage = "signalled" /\ call'[t].value = call[t].value /\ call'[t].snapshot = call[t].snapshot
    BY <1>0, <1>8 DEF SubmitSignal, SubmitCall, Idle
  <2>3. e \in DriverEntry /\ e.value = call[t].value
    BY <2>0 DEF DriverEntry, Signal
  <2> HIDE DEF e
  <2>4. \A p \in Queue : \A i \in 1 .. Len(driver'[p]) :
          \/ i \in 1 .. Len(driver[p]) /\ driver'[p][i] = driver[p][i]
          \/ p = q /\ i = Len(driver[q]) + 1 /\ driver'[p][i] = e
    <3> TAKE p \in Queue
    <3>1. CASE p = q
      BY SMTT(30), <2>0, <2>1, <2>3, <3>1, Numbers, AppendElements
    <3> QED
      BY <2>1, <3>1
  <2>5. "snapped" \in Numbered /\ "snapped" \in OnRecord /\ "signalled" \notin Numbered \cup OnRecord
        /\ "idle" \notin Numbered \cup OnRecord \cup {"snapped", "signalled"}
    BY DEF Numbered, OnRecord
  <2>6. /\ call[t].value = cpuValue[q] /\ fence[q] < call[t].value
        /\ Tracked(pendingSubmits, q, call[t].value)
        /\ \A i \in 1 .. Len(driver[q]) : IsSignal(driver[q][i]) => driver[q][i].value < e.value
        /\ call[t].value <= call[t].snapshot[q]
    BY <2>2, <2>3, <2>5 DEF CallInv
  <2>7. \A p \in Queue : \A i \in 1 .. Len(driver'[p]) : IsSignal(driver'[p][i]) =>
          /\ fence[p] < driver'[p][i].value
          /\ driver'[p][i].value <= cpuValue[p]
          /\ Tracked(pendingSubmits, p, driver'[p][i].value)
    <3> TAKE p \in Queue
    <3> TAKE i \in 1 .. Len(driver'[p])
    <3>1. CASE i \in 1 .. Len(driver[p]) /\ driver'[p][i] = driver[p][i]
      BY <3>1 DEF SignalInv
    <3>2. CASE p = q /\ driver'[p][i] = e
      BY <2>0, <2>3, <2>6, <3>2
    <3> QED
      BY <2>4, <3>1, <3>2
  <2>8. \A p \in Queue : \A i, j \in 1 .. Len(driver'[p]) :
          i < j /\ IsSignal(driver'[p][i]) /\ IsSignal(driver'[p][j]) =>
            driver'[p][i].value < driver'[p][j].value
    <3> TAKE p \in Queue
    <3> TAKE i, j \in 1 .. Len(driver'[p])
    <3> HAVE i < j /\ IsSignal(driver'[p][i]) /\ IsSignal(driver'[p][j])
    <3>1. Len(driver[p]) \in Nat
      BY Numbers
    <3>2. CASE p = q /\ j = Len(driver[q]) + 1 /\ driver'[p][j] = e
      <4>1. i \in 1 .. Len(driver[p]) /\ driver'[p][i] = driver[p][i]
        BY <2>4, <3>1, <3>2
      <4> QED
        BY <2>6, <3>2, <4>1
    <3>3. CASE j \in 1 .. Len(driver[p]) /\ driver'[p][j] = driver[p][j]
      <4>1. i \in 1 .. Len(driver[p]) /\ driver'[p][i] = driver[p][i]
        BY <2>4, <3>1, <3>3
      <4> QED
        BY <3>3, <4>1 DEF SignalInv
    <3> QED
      BY <2>4, <3>2, <3>3
  <2>9. SignalInv'
    BY <2>1, <2>7, <2>8 DEF SignalInv
  <2>10. ASSUME NEW u \in Thread, u # t
        PROVE  \A i \in 1 .. Len(driver'[QueueOf[u]]) : driver'[QueueOf[u]] = driver[QueueOf[u]]
    BY <2>1, <2>10, Numbers DEF OneThreadAQueue
  <2>11. CallInv'
    BY <2>1, <2>2, <2>5, <2>6, <2>10 DEF CallInv
  <2> QED
    BY <2>9, <2>11
<1>9. ASSUME NEW q \in Queue, GpuStep(q) PROVE SignalInv' /\ CallInv'
  <2> DEFINE h == Head(driver[q])
  <2>0. driver[q] \in Seq(DriverEntry) /\ driver[q] # <<>> /\ fence[q] \in Nat
    BY <1>9, Numbers DEF GpuStep
  <2>1. /\ driver'[q] = Tail(driver[q]) /\ \A p \in Queue : p # q => driver'[p] = driver[p]
        /\ UNCHANGED <<cpuValue, pendingSubmits, call>>
    BY <1>0, <1>9 DEF GpuStep
  <2>2. h = driver[q][1] /\ 1 \in 1 .. Len(driver[q]) /\ h \in DriverEntry
    BY <2>0, TailElements, Numbers
  <2>3. /\ fence'[q] = IF IsSignal(h) THEN h.value ELSE fence[q]
        /\ \A p \in Queue : p # q => fence'[p] = fence[p]
    BY <1>0, <1>9 DEF GpuStep, IsSignal
  <2>4. \A i \in 1 .. Len(driver'[q]) : i + 1 \in 1 .. Len(driver[q]) /\ driver'[q][i] = driver[q][i + 1]
    BY <2>0, <2>1, TailElements
  <2> HIDE DEF h
  <2>5. fence'[q] <= cpuValue[q]
    BY <2>2, <2>3 DEF SignalInv
  <2>6. \A i \in 1 .. Len(driver'[q]) : IsSignal(driver'[q][i]) =>
          /\ fence'[q] < driver'[q][i].value
          /\ driver'[q][i].value <= cpuValue[q]
          /\ Tracked(pendingSubmits, q, driver'[q][i].value)
    <3> TAKE i \in 1 .. Len(driver'[q])
    <3>1. 1 < i + 1
      BY <2>4
    <3> QED
      BY <2>2, <2>3, <2>4, <3>1 DEF SignalInv
  <2>7. \A i, j \in 1 .. Len(driver'[q]) :
          i < j /\ IsSignal(driver'[q][i]) /\ IsSignal(driver'[q][j]) => driver'[q][i].value < driver'[q][j].value
    <3> TAKE i, j \in 1 .. Len(driver'[q])
    <3>1. i < j => i + 1 < j + 1
      OBVIOUS
    <3> QED
      BY <2>4, <3>1 DEF SignalInv
  <2>8. SignalInv'
    BY <2>1, <2>3, <2>5, <2>6, <2>7 DEF SignalInv
  <2>9. ASSUME NEW u \in Thread, call[u].stage \in Numbered
        PROVE  /\ fence'[QueueOf[u]] < call[u].value
               /\ \A i \in 1 .. Len(driver'[QueueOf[u]]) :
                    IsSignal(driver'[QueueOf[u]][i]) => driver'[QueueOf[u]][i].value < call[u].value
    <3>1. /\ fence[QueueOf[u]] < call[u].value
          /\ \A i \in 1 .. Len(driver[QueueOf[u]]) :
               IsSignal(driver[QueueOf[u]][i]) => driver[QueueOf[u]][i].value < call[u].value
      BY <2>9 DEF CallInv
    <3>2. CASE QueueOf[u] = q
      BY <2>2, <2>3, <2>4, <3>1, <3>2
    <3>3. CASE QueueOf[u] # q
      <4>1. QueueOf[u] \in Queue
        BY Numbers
      <4> QED
        BY <2>1, <2>3, <3>1, <3>3, <4>1
    <3> QED
      BY <3>2, <3>3
  <2>10. CallInv'
    BY <2>1, <2>9 DEF CallInv
  <2> QED
    BY <2>8, <2>10
<1>10. ASSUME GcSubmit PROVE SignalInv' /\ CallInv'
  <2>1. UNCHANGED <<cpuValue, fence, driver, call>>
    BY <1>10 DEF GcSubmit
  <2>2. CASE Completed(pendingSubmits[gc.at]) /\ pendingSubmits' = RemoveAt(pendingSubmits, gc.at)
    <3>1. PICK k \in 1 .. Len(pendingSubmits) : k = gc.at
      BY <1>10, FirstOn DEF GcSubmit
    <3>2. \A q \in Queue : \A v \in Nat :
            Tracked(pendingSubmits, q, v) /\ fence[q] < v => Tracked(pendingSubmits', q, v)
      BY <2>2, <3>1, RemoveTracked
    <3>3. SignalInv'
      BY <2>1, <3>2, Numbers DEF SignalInv
    <3>4. \A u \in Thread : call[u].stage \in OnRecord => call[u].stage \in Numbered
      BY DEF OnRecord, Numbered
    <3>5. \A u \in Thread : call[u].stage \in OnRecord => Tracked(pendingSubmits', QueueOf[u], call[u].value)
      BY <3>2, <3>4, Numbers DEF CallInv
    <3>6. CallInv'
      BY <2>1, <3>5 DEF CallInv
    <3> QED
      BY <3>3, <3>6
  <2>3. CASE UNCHANGED pendingSubmits
    BY <1>a, <2>1, <2>3
  <2> QED
    BY <1>10, <2>2, <2>3 DEF GcSubmit
<1>11. ASSUME NEW t \in Thread, NEW c \in held[t], NEW r \in Resource, Record(t, c, r) \/ RecordScratch(t, c, r)
       PROVE  SignalInv' /\ CallInv'
  BY <1>a, <1>11 DEF Record, RecordScratch
<1>12. ASSUME NEW r \in Resource, TryEnqueueDestroyDeferred(r) \/ DestroyImmediately(r)
       PROVE  SignalInv' /\ CallInv'
  BY <1>a, <1>12 DEF TryEnqueueDestroyDeferred, DestroyImmediately
<1>13. ASSUME GcBegin \/ GcSubmitsDone \/ GcDelete \/ GcDeletesDone \/ GcDrain \/ GcEnd
       PROVE  SignalInv' /\ CallInv'
  BY <1>a, <1>13 DEF GcBegin, GcSubmitsDone, GcDelete, GcDeletesDone, GcDrain, GcEnd
<1>14. ASSUME DtorWaitIdle \/ DtorEnd \/ UNCHANGED vars PROVE SignalInv' /\ CallInv'
  BY <1>a, <1>14 DEF DtorWaitIdle, DtorEnd, vars
<1> QED
  BY <1>1, <1>2, <1>3, <1>4, <1>5, <1>6, <1>7, <1>8, <1>9, <1>10, <1>11, <1>12, <1>13, <1>14
  DEF Next, SubmitStep, GcStep, Terminated

-----------------------------------------------------------------------------
(* The work of the driver.                                                 *)

(* Where an entry of queue q that is work comes from, after a step: it was *)
(* there before and has kept what covers it, or thread t has submitted it. *)
Remains(q, i) ==
  \E k \in 1 .. Len(driver[q]) :
    /\ driver'[q][i] = driver[q][k]
    /\ \A v \in Value : Covered(q, k, v) => Covered(q, i, v)'
Arrives(t, q, i) ==
  /\ SubmitExecute(t) /\ q = QueueOf[t] /\ held[t] # {}
  /\ driver'[q][i] = Work(held[t], UNION {content[c].uses : c \in held[t]})
  /\ \A v \in Value : v = call[t].value => Covered(q, i, v)'
WorkStep ==
  \A q \in Queue : \A i \in 1 .. Len(driver'[q]) :
    \/ driver'[q][i].uses = {} /\ driver'[q][i].cmds = {}
    \/ Remains(q, i)
    \/ \E t \in Thread : Arrives(t, q, i)

(* No step takes from work what covers it but by finishing the work. *)
LEMMA WorkIsKept ==
  ASSUME TypeOK, [Next]_vars
  PROVE  WorkStep
<1> USE DEF submitVars, listVars, lifeVars, gcVars
<1>0. /\ call \in [Thread -> SubmitCall] /\ driver \in [Queue -> Seq(DriverEntry)]
      /\ held \in [Thread -> SUBSET (1 .. Len(content))]
  BY Types
<1>a. ASSUME UNCHANGED driver,
             \A u \in Thread : held[u] # {} /\ call[u].stage \in Executed =>
               held'[u] # {} /\ call'[u].stage \in Executed /\ call'[u].value = call[u].value
      PROVE  WorkStep
  <2>1. \A q \in Queue : \A i \in 1 .. Len(driver[q]) : \A v \in Value : Covered(q, i, v) => Covered(q, i, v)'
    BY <1>a DEF Covered
  <2> QED
    BY <1>a, <2>1 DEF WorkStep, Remains
<1>b. ASSUME UNCHANGED <<driver, held, call>> PROVE WorkStep
  BY <1>a, <1>b
<1>1. ASSUME NEW t \in Thread,
             AskForCommandBuffer(t) \/ TakeCommandBuffer(t) \/ SubmitNumber(t) \/ SubmitTrack(t)
             \/ \E c \in held[t] : RestoreCommandBuffer(t, c)
      PROVE  WorkStep
  <2>1. UNCHANGED driver
    BY <1>1 DEF AskForCommandBuffer, TakeCommandBuffer, SubmitNumber, SubmitTrack, RestoreCommandBuffer
  <2>2. call[t].stage \notin Executed
    BY <1>1 DEF AskForCommandBuffer, TakeCommandBuffer, SubmitNumber, SubmitTrack, RestoreCommandBuffer, Executed
  <2>3. \A u \in Thread : u # t => call'[u] = call[u] /\ held'[u] = held[u]
    BY <1>0, <1>1 DEF AskForCommandBuffer, TakeCommandBuffer, SubmitNumber, SubmitTrack, RestoreCommandBuffer
  <2> QED
    BY <1>a, <2>1, <2>2, <2>3
<1>2. ASSUME NEW t \in Thread, SubmitSnapshot(t) PROVE WorkStep
  <2>1. UNCHANGED <<driver, held>>
    BY <1>2 DEF SubmitSnapshot
  <2>2. /\ call'[t].stage = "snapped" /\ call'[t].value = call[t].value
        /\ \A u \in Thread : u # t => call'[u] = call[u]
    BY <1>0, <1>2 DEF SubmitSnapshot, SubmitCall
  <2>3. "snapped" \in Executed
    BY DEF Executed
  <2> QED
    BY <1>a, <2>1, <2>2, <2>3
<1>3. ASSUME NEW t \in Thread, SubmitExecute(t) PROVE WorkStep
  <2> DEFINE p == QueueOf[t]
             w == Work(held[t], UNION {content[c].uses : c \in held[t]})
  <2>1. /\ driver[p] \in Seq(DriverEntry) /\ w \in DriverEntry /\ p \in Queue
        /\ driver'[p] = Append(driver[p], w) /\ \A q \in Queue : q # p => driver'[q] = driver[q]
    BY <1>0, <1>3, Numbers, ExecutedEntry DEF SubmitExecute
  <2>2. /\ call[t].stage = "tracked" /\ call'[t].stage \in Executed /\ call'[t].value = call[t].value
        /\ \A u \in Thread : u # t => call'[u] = call[u]
        /\ UNCHANGED held
    BY <1>0, <1>3 DEF SubmitExecute, SubmitCall, Executed
  <2>3. call[t].stage \notin Executed
    BY <2>2 DEF Executed
  <2>4. held[t] = {} => w.uses = {} /\ w.cmds = {}
    BY DEF Work
  <2> HIDE DEF w
  <2>5. /\ \A i \in 1 .. Len(driver[p]) : i \in 1 .. Len(driver'[p]) /\ driver'[p][i] = driver[p][i]
        /\ \A i \in 1 .. Len(driver'[p]) :
             \/ i \in 1 .. Len(driver[p]) /\ driver'[p][i] = driver[p][i]
             \/ i = Len(driver[p]) + 1 /\ driver'[p][i] = w
    BY <2>1, AppendElements
  <2>6. \A q \in Queue : \A i \in 1 .. Len(driver[q]) : i \in 1 .. Len(driver'[q]) /\ driver'[q][i] = driver[q][i]
    BY <2>1, <2>5
  <2>7. \A q \in Queue : \A i \in 1 .. Len(driver[q]) : \A v \in Value : Covered(q, i, v) => Covered(q, i, v)'
    <3> TAKE q \in Queue
    <3> TAKE i \in 1 .. Len(driver[q])
    <3> TAKE v \in Value
    <3>1. \A u \in Thread : call[u].stage \in Executed => call'[u] = call[u]
      BY <2>2, <2>3
    <3> QED
      BY <2>2, <2>6, <3>1 DEF Covered
  <2>8. \A i, v : held[t] # {} /\ v = call[t].value => Covered(p, i, v)'
    BY <2>2 DEF Covered
  <2> SUFFICES ASSUME NEW q \in Queue, NEW i \in 1 .. Len(driver'[q])
               PROVE  \/ driver'[q][i].uses = {} /\ driver'[q][i].cmds = {}
                      \/ Remains(q, i)
                      \/ \E u \in Thread : Arrives(u, q, i)
    BY DEF WorkStep
  <2>9. CASE i \in 1 .. Len(driver[q])
    BY <2>6, <2>7, <2>9 DEF Remains
  <2>10. CASE i \notin 1 .. Len(driver[q])
    <3>1. q = p /\ driver'[q][i] = w
      BY <2>1, <2>5, <2>10
    <3>2. CASE held[t] = {}
      BY <2>4, <3>1, <3>2
    <3>3. CASE held[t] # {}
      <4>1. \A v \in Value : v = call[t].value => Covered(q, i, v)'
        BY <2>8, <3>1, <3>3
      <4> QED
        BY <1>3, <3>1, <3>3, <4>1 DEF Arrives, w
    <3> QED
      BY <3>2, <3>3
  <2> QED
    BY <2>9, <2>10
<1>4. ASSUME NEW t \in Thread, SubmitSignal(t) PROVE WorkStep
  <2> DEFINE p == QueueOf[t]
             e == Signal(call[t].value)
  <2>1. /\ driver[p] \in Seq(DriverEntry) /\ e \in DriverEntry /\ p \in Queue
        /\ driver'[p] = Append(driver[p], e) /\ \A q \in Queue : q # p => driver'[q] = driver[q]
    BY <1>0, <1>4, Numbers DEF SubmitSignal, Signal, DriverEntry
  <2>2. UNCHANGED held /\ \A u \in Thread : u # t => call'[u] = call[u]
    BY <1>0, <1>4 DEF SubmitSignal
  <2>3. e.uses = {} /\ e.cmds = {} /\ IsSignal(e) /\ e.value = call[t].value
    BY DEF Signal, IsSignal
  <2> HIDE DEF e
  <2>5. /\ Len(driver[p]) \in Nat
        /\ Len(driver[p]) + 1 \in 1 .. Len(driver'[p]) /\ driver'[p][Len(driver[p]) + 1] = e
        /\ \A i \in 1 .. Len(driver'[p]) :
             \/ i \in 1 .. Len(driver[p]) /\ driver'[p][i] = driver[p][i]
             \/ i = Len(driver[p]) + 1 /\ driver'[p][i] = e
    BY <2>1, AppendElements, AppendProperties
  <2>6. \A q \in Queue : \A i \in 1 .. Len(driver[q]) : i \in 1 .. Len(driver'[q]) /\ driver'[q][i] = driver[q][i]
    BY <2>1, AppendElements
  <2>7. \A q \in Queue : \A i \in 1 .. Len(driver[q]) : \A v \in Value : Covered(q, i, v) => Covered(q, i, v)'
    <3> TAKE q \in Queue
    <3> TAKE i \in 1 .. Len(driver[q])
    <3> TAKE v \in Value
    <3>1. CASE \E j \in 1 .. Len(driver[q]) : i < j /\ IsSignal(driver[q][j]) /\ driver[q][j].value = v
      BY <2>6, <3>1 DEF Covered
    <3>2. CASE q = p /\ v = call[t].value
      <4>1. i < Len(driver[q]) + 1
        BY <2>5, <3>2
      <4> QED
        BY <2>3, <2>5, <3>2, <4>1 DEF Covered
    <3>3. ASSUME NEW u \in Thread, QueueOf[u] = q, held[u] # {}, call[u].stage \in Executed, call[u].value = v
          PROVE  Covered(q, i, v)'
      <4>1. CASE u = t
        BY <3>2, <3>3, <4>1 DEF Covered
      <4>2. CASE u # t
        BY <2>2, <3>3, <4>2 DEF Covered
      <4> QED
        BY <4>1, <4>2
    <3> QED
      BY <3>1, <3>3 DEF Covered
  <2>8. \A q \in Queue : \A i \in 1 .. Len(driver'[q]) :
          \/ i \in 1 .. Len(driver[q])
          \/ driver'[q][i].uses = {} /\ driver'[q][i].cmds = {}
    <3> TAKE q \in Queue
    <3>1. CASE q = p
      BY <2>3, <2>5, <3>1
    <3>2. CASE q # p
      BY <2>1, <3>2
    <3> QED
      BY <3>1, <3>2
  <2> QED
    BY <2>6, <2>7, <2>8 DEF WorkStep, Remains
<1>5. ASSUME NEW p \in Queue, GpuStep(p) PROVE WorkStep
  <2>1. /\ driver[p] \in Seq(DriverEntry) /\ driver[p] # <<>>
        /\ driver'[p] = Tail(driver[p]) /\ \A q \in Queue : q # p => driver'[q] = driver[q]
        /\ UNCHANGED <<held, call>>
    BY <1>0, <1>5, Numbers DEF GpuStep
  <2>2. /\ \A i \in 1 .. Len(driver'[p]) : i + 1 \in 1 .. Len(driver[p]) /\ driver'[p][i] = driver[p][i + 1]
        /\ \A j \in 1 .. Len(driver[p]) : j # 1 => j - 1 \in 1 .. Len(driver'[p]) /\ driver'[p][j - 1] = driver[p][j]
    BY <2>1, TailElements
  <2>3. ASSUME NEW i \in 1 .. Len(driver'[p]), NEW v \in Value, Covered(p, i + 1, v)
        PROVE  Covered(p, i, v)'
    <3>1. CASE \E j \in 1 .. Len(driver[p]) : i + 1 < j /\ IsSignal(driver[p][j]) /\ driver[p][j].value = v
      <4>1. PICK j \in 1 .. Len(driver[p]) : i + 1 < j /\ IsSignal(driver[p][j]) /\ driver[p][j].value = v
        BY <3>1
      <4>2. j # 1 /\ i < j - 1
        BY <4>1
      <4> QED
        BY <2>2, <4>1, <4>2 DEF Covered
    <3> QED
      BY <2>1, <2>3, <3>1 DEF Covered
  <2>4. \A i \in 1 .. Len(driver'[p]) : Remains(p, i)
    BY <2>2, <2>3 DEF Remains
  <2>5. \A q \in Queue : q # p => \A i \in 1 .. Len(driver'[q]) : Remains(q, i)
    BY <2>1 DEF Remains, Covered
  <2> QED
    BY <2>4, <2>5 DEF WorkStep
<1>6. ASSUME NEW t \in Thread, NEW c \in held[t], NEW r \in Resource, Record(t, c, r) \/ RecordScratch(t, c, r)
      PROVE  WorkStep
  BY <1>b, <1>6 DEF Record, RecordScratch
<1>7. ASSUME NEW r \in Resource, TryEnqueueDestroyDeferred(r) \/ DestroyImmediately(r) PROVE WorkStep
  BY <1>b, <1>7 DEF TryEnqueueDestroyDeferred, DestroyImmediately
<1>8. ASSUME GcBegin \/ GcStep PROVE WorkStep
  BY <1>b, <1>8 DEF GcBegin, GcStep, GcSubmit, GcSubmitsDone, GcDelete, GcDeletesDone, GcDrain, GcEnd
<1>9. ASSUME DtorWaitIdle \/ DtorEnd \/ UNCHANGED vars PROVE WorkStep
  BY <1>b, <1>9 DEF DtorWaitIdle, DtorEnd, vars
<1> QED
  BY <1>1, <1>2, <1>3, <1>4, <1>5, <1>6, <1>7, <1>8, <1>9 DEF Next, SubmitStep, Terminated

(* Whatever uses something stays covered. *)
LEMMA CoverStep ==
  ASSUME TypeOK, CoverInv, [Next]_vars
  PROVE  CoverInv'
<1> SUFFICES ASSUME NEW q \in Queue, NEW i \in 1 .. Len(driver'[q]), driver'[q][i].uses # {}
             PROVE  \E v \in Value : Covered(q, i, v)'
  BY DEF CoverInv, Value
<1>1. CASE Remains(q, i)
  BY <1>1 DEF Remains, CoverInv
<1>2. ASSUME NEW t \in Thread, Arrives(t, q, i) PROVE \E v \in Value : Covered(q, i, v)'
  <2>1. PICK v \in Value : v = call[t].value
    BY Numbers
  <2> QED
    BY <1>2, <2>1 DEF Arrives
<1> QED
  BY <1>1, <1>2, WorkIsKept DEF WorkStep

(* The stages of a submission that has been executed. *)
Late == {"executed", "snapped", "signalled"}

(* A submission keeps its value while it has lists to put back. *)
LEMMA LateStays ==
  ASSUME TypeOK, [Next]_vars
  PROVE  \A t \in Thread : call[t].stage \in Late /\ held'[t] # {} =>
           call'[t].stage \in Late /\ call'[t].value = call[t].value
<1> USE DEF submitVars, listVars, lifeVars, gcVars
<1>0. call \in [Thread -> SubmitCall] /\ held \in [Thread -> SUBSET (1 .. Len(content))]
  BY Types
<1> DEFINE Stays == \A t \in Thread : call[t].stage \in Late /\ held'[t] # {} =>
                      call'[t].stage \in Late /\ call'[t].value = call[t].value
<1>1. ASSUME NEW t \in Thread,
             AskForCommandBuffer(t) \/ TakeCommandBuffer(t) \/ SubmitNumber(t) \/ SubmitTrack(t) \/ SubmitExecute(t)
      PROVE  Stays
  <2>1. call[t].stage \notin Late
    BY <1>1 DEF AskForCommandBuffer, TakeCommandBuffer, SubmitNumber, SubmitTrack, SubmitExecute, Late
  <2>2. \A u \in Thread : u # t => call'[u] = call[u]
    BY <1>0, <1>1 DEF AskForCommandBuffer, TakeCommandBuffer, SubmitNumber, SubmitTrack, SubmitExecute
  <2> QED
    BY <2>1, <2>2
<1>2. ASSUME NEW t \in Thread, SubmitSnapshot(t) \/ SubmitSignal(t) PROVE Stays
  <2>1. \A u \in Thread : u # t => call'[u] = call[u]
    BY <1>0, <1>2 DEF SubmitSnapshot, SubmitSignal
  <2>2. held'[t] # {} => call'[t].stage \in Late /\ call'[t].value = call[t].value
    BY <1>0, <1>2 DEF SubmitSnapshot, SubmitSignal, SubmitCall, Late
  <2> QED
    BY <2>1, <2>2
<1>3. ASSUME NEW t \in Thread, NEW c \in held[t], RestoreCommandBuffer(t, c) PROVE Stays
  <2>1. \A u \in Thread : u # t => call'[u] = call[u]
    BY <1>0, <1>3 DEF RestoreCommandBuffer
  <2>2. held'[t] # {} => call'[t] = call[t]
    BY <1>0, <1>3 DEF RestoreCommandBuffer
  <2> QED
    BY <2>1, <2>2
<1>4. ASSUME UNCHANGED call PROVE Stays
  BY <1>4
<1>5. ASSUME NEW t \in Thread, NEW c \in held[t], NEW r \in Resource, Record(t, c, r) \/ RecordScratch(t, c, r)
      PROVE  Stays
  BY <1>4, <1>5 DEF Record, RecordScratch
<1>6. ASSUME NEW q \in Queue, GpuStep(q) PROVE Stays
  BY <1>4, <1>6 DEF GpuStep
<1>7. ASSUME NEW r \in Resource, TryEnqueueDestroyDeferred(r) \/ DestroyImmediately(r) PROVE Stays
  BY <1>4, <1>7 DEF TryEnqueueDestroyDeferred, DestroyImmediately
<1>8. ASSUME GcBegin \/ GcStep PROVE Stays
  BY <1>4, <1>8 DEF GcBegin, GcStep, GcSubmit, GcSubmitsDone, GcDelete, GcDeletesDone, GcDrain, GcEnd
<1>9. ASSUME DtorWaitIdle \/ DtorEnd \/ UNCHANGED vars PROVE Stays
  BY <1>4, <1>9 DEF DtorWaitIdle, DtorEnd, vars
<1> HIDE DEF Stays
<1>10. Stays
  BY <1>1, <1>2, <1>3, <1>5, <1>6, <1>7, <1>8, <1>9 DEF Next, SubmitStep, Terminated
<1> QED
  BY <1>10 DEF Stays

(* What command buffers exist, threads hold and pools have comes from the  *)
(* step before, or from GetCommandBuffer or RestoreCommandBuffer.          *)
LEMMA ListsBefore ==
  ASSUME TypeOK, ListsInv, [Next]_vars
  PROVE  /\ Len(content) \in Nat /\ Len(content') \in Nat /\ Len(content) <= Len(content')
         /\ \A t \in Thread : \A c \in held'[t] :
              \/ c \in held[t]
              \/ TakeCommandBuffer(t) /\ c = Len(content) + 1 /\ content' = Append(content, Blank)
              \/ /\ TakeCommandBuffer(t) /\ UNCHANGED content
                 /\ \E i \in 1 .. Len(pooled[QueueOf[t]]) :
                      pooled[QueueOf[t]][i].cmd = c /\ fence[QueueOf[t]] > pooled[QueueOf[t]][i].value
         /\ \A q \in Queue : \A k \in 1 .. Len(pooled'[q]) :
              \/ \E j \in 1 .. Len(pooled[q]) : pooled'[q][k] = pooled[q][j]
              \/ \E t \in Thread : \E c \in held[t] :
                   /\ RestoreCommandBuffer(t, c) /\ q = QueueOf[t]
                   /\ pooled'[q][k] = [cmd |-> c, value |-> call[t].value]
<1> DEFINE
      Growing == Len(content) \in Nat /\ Len(content') \in Nat /\ Len(content) <= Len(content')
      Held(t, c) == \/ c \in held[t]
                    \/ TakeCommandBuffer(t) /\ c = Len(content) + 1 /\ content' = Append(content, Blank)
                    \/ /\ TakeCommandBuffer(t) /\ UNCHANGED content
                       /\ \E i \in 1 .. Len(pooled[QueueOf[t]]) :
                            pooled[QueueOf[t]][i].cmd = c /\ fence[QueueOf[t]] > pooled[QueueOf[t]][i].value
      Pooled(q, k) == \/ \E j \in 1 .. Len(pooled[q]) : pooled'[q][k] = pooled[q][j]
                      \/ \E t \in Thread : \E c \in held[t] :
                           /\ RestoreCommandBuffer(t, c) /\ q = QueueOf[t]
                           /\ pooled'[q][k] = [cmd |-> c, value |-> call[t].value]
      Before == /\ Growing
                /\ \A t \in Thread : \A c \in held'[t] : Held(t, c)
                /\ \A q \in Queue : \A k \in 1 .. Len(pooled'[q]) : Pooled(q, k)
<1> USE DEF submitVars, listVars, lifeVars, gcVars
<1>0. /\ held \in [Thread -> SUBSET (1 .. Len(content))] /\ pooled \in [Queue -> Seq(PooledBuffer)]
      /\ content \in Seq(Recorded) /\ Len(content) \in Nat /\ Blank \in Recorded
      /\ \A q \in Queue : pooled[q] \in Seq(PooledBuffer) /\ Len(pooled[q]) \in Nat
  BY Types, LenProperties DEF Blank, Recorded
<1>1. ASSUME UNCHANGED <<held, pooled>>, Len(content') = Len(content) PROVE Before
  BY <1>0, <1>1
<1>2. ASSUME NEW t \in Thread, TakeCommandBuffer(t) PROVE Before
  <2> DEFINE q == QueueOf[t]
  <2>1. PICK c \in 1 .. Len(content) + 1 :
           /\ held' = [held EXCEPT ![t] = held[t] \cup {c}]
           /\ \/ \E i \in 1 .. Len(pooled[q]) :
                   /\ pooled[q][i].cmd = c
                   /\ fence[q] > pooled[q][i].value
                   /\ pooled' = [pooled EXCEPT ![q] = RemoveAt(pooled[q], i)]
                   /\ UNCHANGED content
              \/ c = Len(content) + 1 /\ content' = Append(content, Blank) /\ UNCHANGED pooled
    BY <1>2, TakenIsNew
  <2>2. \A u \in Thread : \A d \in held'[u] : d \in held[u] \/ (u = t /\ d = c)
    BY <1>0, <2>1
  <2>3. CASE \E i \in 1 .. Len(pooled[q]) :
               /\ pooled[q][i].cmd = c
               /\ fence[q] > pooled[q][i].value
               /\ pooled' = [pooled EXCEPT ![q] = RemoveAt(pooled[q], i)]
               /\ UNCHANGED content
    <3>1. PICK i \in 1 .. Len(pooled[q]) :
               /\ pooled[q][i].cmd = c
               /\ fence[q] > pooled[q][i].value
               /\ pooled' = [pooled EXCEPT ![q] = RemoveAt(pooled[q], i)]
               /\ UNCHANGED content
      BY <2>3
    <3>2. /\ q \in Queue /\ pooled[q] \in Seq(PooledBuffer)
          /\ pooled'[q] = RemoveAt(pooled[q], i) /\ \A p \in Queue : p # q => pooled'[p] = pooled[p]
      BY <1>0, <3>1, Types
    <3>3. \A k \in 1 .. Len(pooled'[q]) : \E j \in 1 .. Len(pooled[q]) : pooled'[q][k] = pooled[q][j]
      BY SMTT(30), <3>2, RemoveAtElements
    <3>4. \A p \in Queue : \A k \in 1 .. Len(pooled'[p]) : Pooled(p, k)
      BY SMTT(30), <3>2, <3>3
    <3>5. \A u \in Thread : \A d \in held'[u] : Held(u, d)
      BY <1>2, <2>2, <3>1
    <3>6. Growing
      BY <1>0, <3>1
    <3> QED
      BY <3>4, <3>5, <3>6
  <2>4. CASE c = Len(content) + 1 /\ content' = Append(content, Blank) /\ UNCHANGED pooled
    <3>1. Len(content') = Len(content) + 1
      BY <1>0, <2>4, AppendElements
    <3>2. \A u \in Thread : \A d \in held'[u] : Held(u, d)
      BY <1>2, <2>2, <2>4
    <3>3. Growing
      BY <1>0, <3>1
    <3>4. \A p \in Queue : \A k \in 1 .. Len(pooled'[p]) : Pooled(p, k)
      BY <2>4
    <3> QED
      BY <3>2, <3>3, <3>4
  <2> QED
    BY <2>1, <2>3, <2>4
<1>3. ASSUME NEW t \in Thread, NEW c \in held[t], RestoreCommandBuffer(t, c) PROVE Before
  <2> DEFINE q == QueueOf[t]
             p == [cmd |-> c, value |-> call[t].value]
  <2>1. q \in Queue /\ c \in 1 .. Len(content) /\ p \in PooledBuffer
    <3>1. call[t] \in SubmitCall /\ c \in 1 .. Len(content) /\ q \in Queue
      BY Types
    <3> QED
      BY <3>1 DEF SubmitCall, PooledBuffer
  <2>2. \A u \in Thread : \A d \in held'[u] : d \in held[u]
    BY <1>0, <1>3 DEF RestoreCommandBuffer
  <2>3. pooled'[q] = Append(pooled[q], p) /\ \A o \in Queue : o # q => pooled'[o] = pooled[o]
    BY <1>0, <1>3, <2>1 DEF RestoreCommandBuffer
  <2>4. Len(content') = Len(content)
    <3>1. content' = [content EXCEPT ![c] = Blank]
      BY <1>3 DEF RestoreCommandBuffer
    <3> QED
      BY <1>0, <2>1, <3>1, ExceptSeq
  <2>5. \A k \in 1 .. Len(pooled'[q]) :
          \/ k \in 1 .. Len(pooled[q]) /\ pooled'[q][k] = pooled[q][k]
          \/ pooled'[q][k] = p
    <3>1. pooled[q] \in Seq(PooledBuffer)
      BY <1>0, <2>1
    <3> QED
      BY <2>1, <2>3, <3>1, AppendElements
  <2>6. \A o \in Queue : \A k \in 1 .. Len(pooled'[o]) : Pooled(o, k)
    BY <1>3, <2>3, <2>5
  <2>7. Growing
    BY <1>0, <2>4
  <2>8. \A u \in Thread : \A d \in held'[u] : Held(u, d)
    BY <2>2
  <2> QED
    BY <2>6, <2>7, <2>8
<1>4. ASSUME NEW t \in Thread, NEW c \in held[t], NEW r \in Resource, Record(t, c, r) \/ RecordScratch(t, c, r)
      PROVE  Before
  <2>1. c \in 1 .. Len(content) /\ UNCHANGED <<held, pooled>>
    BY <1>0, <1>4 DEF Record, RecordScratch
  <2>2. \E x : content' = [content EXCEPT ![c] = x]
    BY <1>4 DEF Record, RecordScratch
  <2>3. Len(content') = Len(content)
    BY <1>0, <2>1, <2>2
  <2> QED
    BY <1>1, <2>1, <2>3
<1>5. ASSUME NEW t \in Thread,
             AskForCommandBuffer(t) \/ SubmitNumber(t) \/ SubmitTrack(t) \/ SubmitExecute(t) \/ SubmitSnapshot(t)
             \/ SubmitSignal(t)
      PROVE  Before
  BY <1>1, <1>5 DEF AskForCommandBuffer, SubmitNumber, SubmitTrack, SubmitExecute, SubmitSnapshot, SubmitSignal
<1>6. ASSUME NEW q \in Queue, GpuStep(q) PROVE Before
  BY <1>1, <1>6 DEF GpuStep
<1>7. ASSUME NEW r \in Resource, TryEnqueueDestroyDeferred(r) \/ DestroyImmediately(r) PROVE Before
  BY <1>1, <1>7 DEF TryEnqueueDestroyDeferred, DestroyImmediately
<1>8. ASSUME GcBegin \/ GcStep PROVE Before
  BY <1>1, <1>8 DEF GcBegin, GcStep, GcSubmit, GcSubmitsDone, GcDelete, GcDeletesDone, GcDrain, GcEnd
<1>9. ASSUME DtorWaitIdle \/ DtorEnd \/ UNCHANGED vars PROVE Before
  BY <1>1, <1>9 DEF DtorWaitIdle, DtorEnd, vars
<1> HIDE DEF Before
<1>10. Before
  BY <1>2, <1>3, <1>4, <1>5, <1>6, <1>7, <1>8, <1>9 DEF Next, SubmitStep, Terminated
<1> QED
  BY <1>10 DEF Before

(* What covers work is still to be signalled. *)
LEMMA CoverAhead ==
  ASSUME TypeOK, SignalInv, CallInv, NEW q \in Queue, NEW i \in 1 .. Len(driver[q]), NEW v \in Value,
         Covered(q, i, v)
  PROVE  fence[q] < v
<1>1. CASE \E j \in 1 .. Len(driver[q]) : i < j /\ IsSignal(driver[q][j]) /\ driver[q][j].value = v
  BY <1>1 DEF SignalInv
<1>2. ASSUME NEW t \in Thread, QueueOf[t] = q, call[t].stage \in Executed, call[t].value = v
      PROVE  fence[q] < v
  <2>1. call[t].stage \in Numbered
    BY <1>2 DEF Executed, Numbered
  <2> QED
    BY <1>2, <2>1 DEF CallInv
<1> QED
  BY <1>1, <1>2 DEF Covered

(* The driver has no command buffer whose allocator may be reset. *)
LEMMA AllocatorStep ==
  ASSUME TypeOK, ListsInv, SignalInv, CallInv, AllocatorInv, [Next]_vars
  PROVE  AllocatorInv'
<1> SUFFICES ASSUME NEW q \in Queue, NEW i \in 1 .. Len(driver'[q]), NEW c \in driver'[q][i].cmds
             PROVE  /\ c \in 1 .. Len(content')
                    /\ \A t \in Thread : c \in held'[t] =>
                         /\ call'[t].stage \in Late
                         /\ QueueOf[t] = q
                         /\ Covered(q, i, call[t].value)'
                    /\ \A p \in Queue : \A k \in 1 .. Len(pooled'[p]) : pooled'[p][k].cmd = c =>
                         p = q /\ Covered(q, i, pooled[p][k].value)'
  BY DEF AllocatorInv, Late
<1>0. /\ \A t \in Thread : call[t].value \in Value
      /\ \A p \in Queue : \A k \in 1 .. Len(pooled[p]) : pooled[p][k].value \in Value
  <2>1. \A p \in Queue : \A k \in 1 .. Len(pooled[p]) : pooled[p][k] \in PooledBuffer
    BY Types, ElementOfSeq
  <2> QED
    BY <2>1, Numbers DEF PooledBuffer
<1>1. CASE Remains(q, i)
  <2>1. PICK k \in 1 .. Len(driver[q]) :
          /\ driver'[q][i] = driver[q][k]
          /\ \A v \in Value : Covered(q, k, v) => Covered(q, i, v)'
    BY <1>1 DEF Remains
  <2>2. c \in 1 .. Len(content)
    BY <2>1 DEF AllocatorInv
  <2>3. c \in 1 .. Len(content')
    BY <2>2, ListsBefore
  <2>4. ASSUME NEW t \in Thread, c \in held'[t]
        PROVE  call'[t].stage \in Late /\ QueueOf[t] = q /\ Covered(q, i, call[t].value)'
    <3>1. CASE c \in held[t]
      <4>1. PICK v \in Value : v = call[t].value
        BY <1>0
      <4>2. call[t].stage \in Late /\ QueueOf[t] = q /\ Covered(q, k, v)
        BY <2>1, <3>1, <4>1 DEF AllocatorInv, Late
      <4>3. Covered(q, i, v)' /\ call'[t].stage \in Late /\ call'[t].value = v
        BY <2>1, <2>4, <4>1, <4>2, LateStays
      <4> QED
        BY <4>2, <4>3 DEF Covered
    <3>2. CASE c = Len(content) + 1
      BY <2>2, <3>2, ListsBefore
    <3>3. ASSUME NEW j \in 1 .. Len(pooled[QueueOf[t]]), pooled[QueueOf[t]][j].cmd = c,
                 fence[QueueOf[t]] > pooled[QueueOf[t]][j].value
          PROVE  FALSE
      <4>1. QueueOf[t] \in Queue /\ QueueOf[t] = q
        BY <2>1, <3>3, Numbers DEF AllocatorInv
      <4>2. PICK v \in Value : v = pooled[q][j].value
        BY <1>0, <3>3, <4>1
      <4>3. Covered(q, k, v)
        BY <2>1, <3>3, <4>1, <4>2 DEF AllocatorInv
      <4>4. fence[q] < v /\ fence[q] \in Nat /\ v \in Nat
        BY <4>3, CoverAhead, Numbers, Types
      <4> QED
        BY <3>3, <4>1, <4>2, <4>4
    <3> QED
      BY <2>4, <3>1, <3>2, <3>3, ListsBefore
  <2>5. ASSUME NEW p \in Queue, NEW n \in 1 .. Len(pooled'[p]), pooled'[p][n].cmd = c
        PROVE  p = q /\ Covered(q, i, pooled[p][n].value)'
    <3>1. ASSUME NEW j \in 1 .. Len(pooled[p]), pooled'[p][n] = pooled[p][j]
          PROVE  p = q /\ Covered(q, i, pooled[p][n].value)'
      <4>1. PICK v \in Value : v = pooled[p][j].value
        BY <1>0
      <4>2. p = q /\ Covered(q, k, v)
        BY <2>1, <2>5, <3>1, <4>1 DEF AllocatorInv
      <4>3. Covered(q, i, v)' /\ v = pooled'[p][n].value
        BY <2>1, <3>1, <4>1, <4>2
      <4> QED
        BY <4>2, <4>3 DEF Covered
    <3>2. ASSUME NEW t \in Thread, NEW d \in held[t], p = QueueOf[t],
                 pooled'[p][n] = [cmd |-> d, value |-> call[t].value]
          PROVE  p = q /\ Covered(q, i, pooled[p][n].value)'
      <4>1. PICK v \in Value : v = call[t].value
        BY <1>0
      <4>2. d = c /\ pooled'[p][n].value = v
        BY <2>5, <3>2, <4>1
      <4>3. QueueOf[t] = q /\ Covered(q, k, v)
        BY <2>1, <4>1, <4>2 DEF AllocatorInv
      <4>4. Covered(q, i, v)'
        BY <2>1, <4>3
      <4> QED
        BY <3>2, <4>2, <4>3, <4>4 DEF Covered
    <3> QED
      BY ZenonT(60), <3>1, <3>2, ListsBefore
  <2> QED
    BY <2>3, <2>4, <2>5
<1>2. ASSUME NEW t \in Thread, Arrives(t, q, i)
      PROVE  /\ c \in 1 .. Len(content')
             /\ \A u \in Thread : c \in held'[u] =>
                  /\ call'[u].stage \in Late
                  /\ QueueOf[u] = q
                  /\ Covered(q, i, call[u].value)'
             /\ \A p \in Queue : \A k \in 1 .. Len(pooled'[p]) : pooled'[p][k].cmd = c =>
                  p = q /\ Covered(q, i, pooled[p][k].value)'
  <2>1. /\ call[t] \in SubmitCall /\ held[t] \subseteq 1 .. Len(content)
        /\ call \in [Thread -> SubmitCall]
    BY Types
  <2>2. UNCHANGED <<held, pooled, content>> /\ q = QueueOf[t]
    BY <1>2 DEF Arrives, SubmitExecute
  <2>3. call'[t].stage \in Late /\ call'[t].value = call[t].value
    BY <1>2, <2>1 DEF Arrives, SubmitExecute, SubmitCall, Late
  <2>4. c \in held[t]
    BY <1>2 DEF Arrives, Work
  <2>5. \A u \in Thread : c \in held[u] => u = t
    BY <2>4 DEF ListsInv
  <2>6. \A p \in Queue : \A k \in 1 .. Len(pooled[p]) : pooled[p][k].cmd # c
    BY <2>4 DEF ListsInv
  <2>7. PICK v \in Value : v = call[t].value
    BY <1>0
  <2>8. Covered(q, i, v)' /\ call'[t].value = v
    BY <1>2, <2>3, <2>7 DEF Arrives
  <2>9. Covered(q, i, call[t].value)'
    BY <2>8 DEF Covered
  <2> QED
    BY <2>1, <2>2, <2>3, <2>4, <2>5, <2>6, <2>9
<1> QED
  BY <1>1, <1>2, WorkIsKept DEF WorkStep

-----------------------------------------------------------------------------
(* Recorded uses and the life of resources, from one state to the next.    *)

(* What command buffer c holds after a step. *)
Kept(c) == c \in 1 .. Len(content) /\ content'[c] = content[c]
Blanked(c) ==
  /\ content'[c] = Blank
  /\ c \notin 1 .. Len(content) \/ \E t \in Thread : c \in held[t] /\ RestoreCommandBuffer(t, c)
Used(t, c, r) ==
  /\ Record(t, c, r) /\ c \in 1 .. Len(content)
  /\ content'[c].uses = content[c].uses \cup {r} /\ content'[c].scratch = content[c].scratch
Made(t, c, r) ==
  /\ RecordScratch(t, c, r) /\ c \in 1 .. Len(content)
  /\ content'[c].uses = content[c].uses \cup {r} /\ content'[c].scratch = content[c].scratch \cup {r}

LEMMA ContentBefore ==
  ASSUME TypeOK, [Next]_vars
  PROVE  \A c \in 1 .. Len(content') :
           \/ Kept(c)
           \/ Blanked(c)
           \/ \E t \in Thread, r \in Resource : c \in held[t] /\ (Used(t, c, r) \/ Made(t, c, r))
<1> DEFINE Before == \A c \in 1 .. Len(content') :
             \/ Kept(c)
             \/ Blanked(c)
             \/ \E t \in Thread, r \in Resource : c \in held[t] /\ (Used(t, c, r) \/ Made(t, c, r))
<1> USE DEF submitVars, listVars, lifeVars, gcVars
<1>0. /\ content \in Seq(Recorded) /\ held \in [Thread -> SUBSET (1 .. Len(content))] /\ Blank \in Recorded
      /\ \A t \in Thread : held[t] \subseteq 1 .. Len(content)
  BY Types DEF Blank, Recorded
<1>1. ASSUME UNCHANGED content PROVE Before
  BY <1>1 DEF Kept
<1>2. ASSUME NEW t \in Thread, TakeCommandBuffer(t) PROVE Before
  <2>1. UNCHANGED content \/ content' = Append(content, Blank)
    BY <1>2 DEF TakeCommandBuffer
  <2>2. ASSUME content' = Append(content, Blank) PROVE Before
    <3>1. \A c \in 1 .. Len(content') : c \notin 1 .. Len(content) => content'[c] = Blank
      BY <1>0, <2>2, AppendElements
    <3>2. \A c \in 1 .. Len(content) : content'[c] = content[c]
      BY <1>0, <2>2, AppendElements
    <3> QED
      BY <3>1, <3>2 DEF Kept, Blanked
  <2> QED
    BY <1>1, <2>1, <2>2
<1>3. ASSUME NEW t \in Thread, NEW c \in held[t], RestoreCommandBuffer(t, c) PROVE Before
  <2>1. content' = [content EXCEPT ![c] = Blank] /\ c \in 1 .. Len(content)
    BY <1>0, <1>3 DEF RestoreCommandBuffer
  <2> QED
    BY <1>0, <1>3, <2>1, ExceptSeq DEF Kept, Blanked
<1>4. ASSUME NEW t \in Thread, NEW c \in held[t], NEW r \in Resource, Record(t, c, r) PROVE Before
  <2> DEFINE x == [content[c] EXCEPT !.uses = content[c].uses \cup {r}]
  <2>1. content' = [content EXCEPT ![c] = x]
    BY <1>4 DEF Record
  <2>2. c \in 1 .. Len(content) /\ content[c] \in Recorded
    BY <1>0, ElementOfSeq
  <2>3. x.uses = content[c].uses \cup {r} /\ x.scratch = content[c].scratch
    BY <2>2 DEF Recorded
  <2> HIDE DEF x
  <2>4. /\ Len(content') = Len(content) /\ content'[c] = x
        /\ \A d \in 1 .. Len(content) : d # c => content'[d] = content[d]
    BY <1>0, <2>1, <2>2
  <2> QED
    BY <1>4, <2>2, <2>3, <2>4 DEF Kept, Used
<1>5. ASSUME NEW t \in Thread, NEW c \in held[t], NEW r \in Resource, RecordScratch(t, c, r) PROVE Before
  <2> DEFINE x == [uses |-> content[c].uses \cup {r}, scratch |-> content[c].scratch \cup {r}]
  <2>1. content' = [content EXCEPT ![c] = x]
    BY <1>5 DEF RecordScratch
  <2>2. c \in 1 .. Len(content)
    BY <1>0
  <2>3. x.uses = content[c].uses \cup {r} /\ x.scratch = content[c].scratch \cup {r}
    OBVIOUS
  <2> HIDE DEF x
  <2>4. /\ Len(content') = Len(content) /\ content'[c] = x
        /\ \A d \in 1 .. Len(content) : d # c => content'[d] = content[d]
    BY <1>0, <2>1, <2>2
  <2> QED
    BY <1>5, <2>2, <2>3, <2>4 DEF Kept, Made
<1>6. ASSUME NEW t \in Thread,
             AskForCommandBuffer(t) \/ SubmitNumber(t) \/ SubmitTrack(t) \/ SubmitExecute(t) \/ SubmitSnapshot(t)
             \/ SubmitSignal(t)
      PROVE  Before
  BY <1>1, <1>6 DEF AskForCommandBuffer, SubmitNumber, SubmitTrack, SubmitExecute, SubmitSnapshot, SubmitSignal
<1>7. ASSUME NEW q \in Queue, GpuStep(q) PROVE Before
  BY <1>1, <1>7 DEF GpuStep
<1>8. ASSUME NEW r \in Resource, TryEnqueueDestroyDeferred(r) \/ DestroyImmediately(r) PROVE Before
  BY <1>1, <1>8 DEF TryEnqueueDestroyDeferred, DestroyImmediately
<1>9. ASSUME GcBegin \/ GcStep PROVE Before
  BY <1>1, <1>9 DEF GcBegin, GcStep, GcSubmit, GcSubmitsDone, GcDelete, GcDeletesDone, GcDrain, GcEnd
<1>10. ASSUME DtorWaitIdle \/ DtorEnd \/ UNCHANGED vars PROVE Before
  BY <1>1, <1>10 DEF DtorWaitIdle, DtorEnd, vars
<1> HIDE DEF Before
<1>11. Before
  BY <1>2, <1>3, <1>4, <1>5, <1>6, <1>7, <1>8, <1>9, <1>10 DEF Next, SubmitStep, Terminated
<1> QED
  BY <1>11 DEF Before

(* A thread keeps its lists until it puts them back. *)
LEMMA HeldStays ==
  ASSUME TypeOK, [Next]_vars
  PROVE  \A t \in Thread : \A c \in held[t] : c \in held'[t] \/ RestoreCommandBuffer(t, c)
<1> DEFINE Stays == \A t \in Thread : \A c \in held[t] : c \in held'[t] \/ RestoreCommandBuffer(t, c)
<1> USE DEF submitVars, listVars, lifeVars, gcVars
<1>0. held \in [Thread -> SUBSET (1 .. Len(content))]
  BY Types
<1>1. ASSUME UNCHANGED held PROVE Stays
  BY <1>1
<1>2. ASSUME NEW t \in Thread, TakeCommandBuffer(t) PROVE Stays
  <2>1. \E c : held' = [held EXCEPT ![t] = held[t] \cup {c}]
    BY <1>2 DEF TakeCommandBuffer
  <2> QED
    BY <1>0, <2>1
<1>3. ASSUME NEW t \in Thread, NEW c \in held[t], RestoreCommandBuffer(t, c) PROVE Stays
  <2>1. held' = [held EXCEPT ![t] = held[t] \ {c}]
    BY <1>3 DEF RestoreCommandBuffer
  <2> QED
    BY <1>0, <1>3, <2>1
<1>4. ASSUME NEW t \in Thread, NEW c \in held[t], NEW r \in Resource, Record(t, c, r) \/ RecordScratch(t, c, r)
      PROVE  Stays
  BY <1>1, <1>4 DEF Record, RecordScratch
<1>5. ASSUME NEW t \in Thread,
             AskForCommandBuffer(t) \/ SubmitNumber(t) \/ SubmitTrack(t) \/ SubmitExecute(t) \/ SubmitSnapshot(t)
             \/ SubmitSignal(t)
      PROVE  Stays
  BY <1>1, <1>5 DEF AskForCommandBuffer, SubmitNumber, SubmitTrack, SubmitExecute, SubmitSnapshot, SubmitSignal
<1>6. ASSUME NEW q \in Queue, GpuStep(q) PROVE Stays
  BY <1>1, <1>6 DEF GpuStep
<1>7. ASSUME NEW r \in Resource, TryEnqueueDestroyDeferred(r) \/ DestroyImmediately(r) PROVE Stays
  BY <1>1, <1>7 DEF TryEnqueueDestroyDeferred, DestroyImmediately
<1>8. ASSUME GcBegin \/ GcStep PROVE Stays
  BY <1>1, <1>8 DEF GcBegin, GcStep, GcSubmit, GcSubmitsDone, GcDelete, GcDeletesDone, GcDrain, GcEnd
<1>9. ASSUME DtorWaitIdle \/ DtorEnd \/ UNCHANGED vars PROVE Stays
  BY <1>1, <1>9 DEF DtorWaitIdle, DtorEnd, vars
<1> HIDE DEF Stays
<1>10. Stays
  BY <1>2, <1>3, <1>4, <1>5, <1>6, <1>7, <1>8, <1>9 DEF Next, SubmitStep, Terminated
<1> QED
  BY <1>10 DEF Stays

(* How the life of resource r goes on in a step. *)
LifeGoesOn(r) ==
  \/ life'[r] = life[r]
  \/ TryEnqueueDestroyDeferred(r) /\ life'[r] = "deferred"
  \/ DestroyImmediately(r) /\ life'[r] = "destroyed"
  \/ \E t \in Thread : \E c \in held[t] :
       RestoreCommandBuffer(t, c) /\ r \in content[c].scratch /\ life'[r] = "zombie"
  \/ /\ GcDelete /\ gc.at \in 1 .. Len(deferredDeletes) /\ Ready(deferredDeletes[gc.at])
     /\ r = deferredDeletes[gc.at].resource /\ life'[r] = "destroyed"
  \/ GcDrain /\ onDestroy # <<>> /\ r = Head(onDestroy) /\ life'[r] = "zombie"

LEMMA LifeStep ==
  ASSUME TypeOK, ScanInv, [Next]_vars
  PROVE  \A r \in Resource : LifeGoesOn(r)
<1> DEFINE Step == \A r \in Resource : LifeGoesOn(r)
<1> USE DEF submitVars, listVars, lifeVars, gcVars
<1>0. DOMAIN life = Resource
  BY DEF TypeOK
<1>1. ASSUME UNCHANGED life PROVE Step
  BY <1>1 DEF LifeGoesOn
<1>2. ASSUME NEW t \in Thread, NEW c \in held[t], RestoreCommandBuffer(t, c) PROVE Step
  <2>1. life' = [r \in Resource |-> IF r \in content[c].scratch THEN "zombie" ELSE life[r]]
    BY <1>2 DEF RestoreCommandBuffer
  <2> QED
    BY <1>2, <2>1 DEF LifeGoesOn
<1>3. ASSUME NEW r \in Resource, TryEnqueueDestroyDeferred(r) PROVE Step
  <2>1. life' = [life EXCEPT ![r] = "deferred"]
    BY <1>3 DEF TryEnqueueDestroyDeferred
  <2> QED
    BY <1>0, <1>3, <2>1 DEF LifeGoesOn
<1>4. ASSUME NEW r \in Resource, DestroyImmediately(r) PROVE Step
  <2>1. life' = [life EXCEPT ![r] = "destroyed"]
    BY <1>4 DEF DestroyImmediately
  <2> QED
    BY <1>0, <1>4, <2>1 DEF LifeGoesOn
<1>5. ASSUME GcDelete PROVE Step
  <2>1. gc.at \in 1 .. Len(deferredDeletes)
    BY <1>5, FirstOn DEF GcDelete
  <2>2. \/ UNCHANGED life
        \/ /\ Ready(deferredDeletes[gc.at])
           /\ life' = [life EXCEPT ![deferredDeletes[gc.at].resource] = "destroyed"]
    BY <1>5 DEF GcDelete
  <2> QED
    BY <1>0, <1>5, <2>1, <2>2 DEF LifeGoesOn
<1>6. ASSUME GcDrain PROVE Step
  <2>1. onDestroy # <<>>
    BY <1>6, GcCounts DEF GcDrain
  <2>2. life' = [life EXCEPT ![Head(onDestroy)] = "zombie"]
    BY <1>6 DEF GcDrain
  <2> QED
    BY <1>0, <1>6, <2>1, <2>2 DEF LifeGoesOn
<1>7. ASSUME NEW t \in Thread,
             AskForCommandBuffer(t) \/ TakeCommandBuffer(t) \/ SubmitNumber(t) \/ SubmitTrack(t)
             \/ SubmitExecute(t) \/ SubmitSnapshot(t) \/ SubmitSignal(t)
      PROVE  Step
  BY <1>1, <1>7 DEF AskForCommandBuffer, TakeCommandBuffer, SubmitNumber, SubmitTrack, SubmitExecute,
                    SubmitSnapshot, SubmitSignal
<1>8. ASSUME NEW t \in Thread, NEW c \in held[t], NEW r \in Resource, Record(t, c, r) \/ RecordScratch(t, c, r)
      PROVE  Step
  BY <1>1, <1>8 DEF Record, RecordScratch
<1>9. ASSUME NEW q \in Queue, GpuStep(q) PROVE Step
  BY <1>1, <1>9 DEF GpuStep
<1>10. ASSUME GcBegin \/ GcSubmit \/ GcSubmitsDone \/ GcDeletesDone \/ GcEnd PROVE Step
  BY <1>1, <1>10 DEF GcBegin, GcSubmit, GcSubmitsDone, GcDeletesDone, GcEnd
<1>11. ASSUME DtorWaitIdle \/ DtorEnd \/ UNCHANGED vars PROVE Step
  BY <1>1, <1>11 DEF DtorWaitIdle, DtorEnd, vars
<1> HIDE DEF Step
<1>12. Step
  BY <1>2, <1>3, <1>4, <1>5, <1>6, <1>7, <1>8, <1>9, <1>10, <1>11 DEF Next, SubmitStep, GcStep, Terminated
<1> QED
  BY <1>12 DEF Step

(* A scratch object lives until its list is put back, and never again. *)
LEMMA ScratchLives ==
  ASSUME TypeOK, ScanInv, CondemnedInv, [Next]_vars, NEW r \in Resource
  PROVE  /\ life'[r] = "live" => life[r] = "live"
         /\ life[r] = "live" /\ r \in Scratch =>
              \/ life'[r] = "live"
              \/ \E t \in Thread : \E c \in held[t] :
                   RestoreCommandBuffer(t, c) /\ r \in content[c].scratch /\ life'[r] = "zombie"
<1>1. LifeGoesOn(r)
  BY LifeStep
<1>2. life'[r] = "live" => life[r] = "live"
  BY <1>1 DEF LifeGoesOn
<1>3. \A i \in 1 .. Len(deferredDeletes) : r = deferredDeletes[i].resource => life[r] # "live"
  BY DEF CondemnedInv
<1>4. onDestroy # <<>> /\ r = Head(onDestroy) => life[r] # "live"
  <2>1. onDestroy # <<>> => Head(onDestroy) = onDestroy[1] /\ 1 \in 1 .. Len(onDestroy)
    BY Types, TailElements
  <2> QED
    BY <2>1 DEF CondemnedInv
<1>5. TryEnqueueDestroyDeferred(r) \/ DestroyImmediately(r) => r \notin Scratch
  BY DEF TryEnqueueDestroyDeferred, DestroyImmediately, MayGiveUp
<1> QED
  BY <1>1, <1>2, <1>3, <1>4, <1>5 DEF LifeGoesOn

(* Scratch objects stay with their list, and the driver is done with them  *)
(* when the list is put back for good.                                     *)
LEMMA ScratchStep ==
  ASSUME TypeOK, ListsInv, ScratchInv, CondemnedInv, ScanInv, [Next]_vars
  PROVE  ScratchInv'
<1> USE DEF submitVars, listVars, lifeVars, gcVars
<1>0. /\ \A c \in 1 .. Len(content) : content[c] \in Recorded
      /\ \A t \in Thread : held[t] \subseteq 1 .. Len(content)
      /\ Scratch \subseteq Resource
      /\ call \in [Thread -> SubmitCall]
  BY Types, ElementOfSeq, MembersAssumption
<1>1. \A c \in 1 .. Len(content) : content[c].scratch \subseteq Scratch
  BY <1>0 DEF Recorded
<1>2. Blank.uses = {} /\ Blank.scratch = {} /\ IsFiniteSet(Blank.scratch)
  BY FS_EmptySet DEF Blank
<1>3. ASSUME NEW t \in Thread, NEW c \in held[t], RestoreCommandBuffer(t, c) PROVE content'[c] = Blank
  <2>1. content' = [content EXCEPT ![c] = Blank] /\ c \in 1 .. Len(content) /\ content \in Seq(Recorded)
    BY <1>0, <1>3, Types DEF RestoreCommandBuffer
  <2> QED
    BY <2>1
<1>4. ASSUME NEW c \in 1 .. Len(content'), content'[c] # Blank, NEW r \in content'[c].scratch
      PROVE  /\ c \in 1 .. Len(content)
             /\ r \in content[c].scratch \/ \E t \in Thread : Made(t, c, r)
  BY <1>4, ContentBefore DEF Kept, Used, Made, Blanked
<1>5. ASSUME NEW c \in 1 .. Len(content')
      PROVE  /\ content'[c].uses \cap Scratch \subseteq content'[c].scratch
             /\ IsFiniteSet(content'[c].scratch)
             /\ \A r \in content'[c].scratch : life'[r] = "live"
  <2>1. CASE content'[c] = Blank
    BY <1>2, <2>1
  <2>2. CASE content'[c] # Blank
    <3>1. c \in 1 .. Len(content)
      BY <2>2, ContentBefore DEF Kept, Used, Made, Blanked
    <3>2. content[c].uses \cap Scratch \subseteq content[c].scratch /\ IsFiniteSet(content[c].scratch)
      BY <3>1 DEF ScratchInv
    <3>3. content'[c].uses \cap Scratch \subseteq content'[c].scratch
      <4>1. \A t \in Thread, r \in Resource : Used(t, c, r) => r \notin Scratch
        BY DEF Used, Record
      <4> QED
        BY <2>2, <3>2, <4>1, ContentBefore DEF Kept, Used, Made, Blanked
    <3>4. IsFiniteSet(content'[c].scratch)
      <4>1. PICK r : content'[c].scratch \in {content[c].scratch, content[c].scratch \cup {r}}
        BY <2>2, ContentBefore DEF Kept, Used, Made, Blanked
      <4> QED
        BY <3>2, <4>1, FS_AddElement
    <3>5. ASSUME NEW r \in content'[c].scratch PROVE life'[r] = "live"
      <4>1. r \in Scratch /\ life[r] = "live"
        <5>1. CASE r \in content[c].scratch
          BY <1>1, <3>1, <5>1 DEF ScratchInv
        <5>2. ASSUME NEW t \in Thread, Made(t, c, r) PROVE r \in Scratch /\ life[r] = "live"
          BY <5>2 DEF Made, RecordScratch
        <5> QED
          BY <1>4, <2>2, <5>1, <5>2
      <4>2. ASSUME NEW t \in Thread, NEW d \in held[t], RestoreCommandBuffer(t, d), r \in content[d].scratch
            PROVE  FALSE
        <5>1. d \in 1 .. Len(content) /\ content'[d] = Blank
          BY <1>0, <1>3, <4>2
        <5>2. CASE r \in content[c].scratch
          BY <2>2, <3>1, <4>2, <5>1, <5>2 DEF ScratchInv
        <5>3. ASSUME NEW u \in Thread, Made(u, c, r) PROVE FALSE
          <6>1. DOMAIN content = 1 .. Len(content)
            BY Types
          <6> QED
            BY <4>2, <5>1, <5>3, <6>1 DEF Made, RecordScratch
        <5> QED
          BY <1>4, <2>2, <5>2, <5>3
      <4> QED
        BY <1>0, <4>1, <4>2, ScratchLives
    <3> QED
      BY <3>3, <3>4, <3>5
  <2> QED
    BY <2>1, <2>2
<1>6. ASSUME NEW c \in 1 .. Len(content'), NEW d \in 1 .. Len(content'),
             NEW r \in content'[c].scratch, r \in content'[d].scratch
      PROVE  c = d
  <2>1. content'[c] # Blank /\ content'[d] # Blank
    BY <1>2, <1>6
  <2>2. /\ c \in 1 .. Len(content) /\ d \in 1 .. Len(content)
        /\ r \in content[c].scratch \/ \E t \in Thread : Made(t, c, r)
        /\ r \in content[d].scratch \/ \E t \in Thread : Made(t, d, r)
    BY <1>4, <1>6, <2>1
  <2>3. ASSUME NEW t \in Thread, NEW e \in 1 .. Len(content), Made(t, e, r)
        PROVE  /\ \A f \in 1 .. Len(content) : r \notin content[f].scratch
               /\ \A f \in 1 .. Len(content) : f # e => content'[f].scratch = content[f].scratch
    <3>1. /\ content' = [content EXCEPT ![e] = [uses |-> content[e].uses \cup {r}, scratch |-> content[e].scratch \cup {r}]]
          /\ content \in Seq(Recorded) /\ DOMAIN content = 1 .. Len(content)
      BY <2>3, Types DEF Made, RecordScratch
    <3>2. \A f \in 1 .. Len(content) : r \notin content[f].scratch
      BY <2>3, <3>1 DEF Made, RecordScratch
    <3> QED
      BY <3>1, <3>2
  <2> QED
    BY <1>6, <2>2, <2>3 DEF ScratchInv
<1>7. ASSUME NEW r \in Scratch, life'[r] = "live",
             NEW q \in Queue, NEW i \in 1 .. Len(driver'[q]), r \in driver'[q][i].uses
      PROVE  \E t \in Thread : \E c \in held'[t] :
               /\ QueueOf[t] = q /\ r \in content'[c].scratch
               /\ call'[t].stage \in {"executed", "snapped", "signalled"}
               /\ Covered(q, i, call[t].value)'
  <2>0. life[r] = "live"
    BY <1>0, <1>7, ScratchLives
  <2>1. ASSUME NEW t \in Thread, NEW c \in held[t], r \in content[c].scratch
        PROVE  c \in held'[t] /\ r \in content'[c].scratch
    <3>1. c \in 1 .. Len(content) /\ c \in 1 .. Len(content')
      BY <1>0, ListsBefore
    <3>2. ASSUME NEW u \in Thread, NEW d \in held[u], RestoreCommandBuffer(u, d) PROVE r \notin content[d].scratch
      <4>1. r \in Resource
        BY <1>0, <1>7
      <4>2. life' = [x \in Resource |-> IF x \in content[d].scratch THEN "zombie" ELSE life[x]]
        BY <3>2 DEF RestoreCommandBuffer
      <4> QED
        BY <1>7, <4>1, <4>2
    <3>3. c \in held'[t]
      BY <2>1, <3>2, HeldStays
    <3>4. ~Blanked(c)
      BY <2>1, <3>1, <3>2 DEF Blanked
    <3>5. r \in content'[c].scratch
      BY <2>1, <3>1, <3>4, ContentBefore DEF Kept, Used, Made
    <3> QED
      BY <3>3, <3>5
  <2>2. CASE Remains(q, i)
    <3>1. PICK k \in 1 .. Len(driver[q]) :
            driver'[q][i] = driver[q][k] /\ \A v \in Value : Covered(q, k, v) => Covered(q, i, v)'
      BY <2>2 DEF Remains
    <3>2. PICK t \in Thread : \E d \in held[t] :
            /\ QueueOf[t] = q /\ r \in content[d].scratch
            /\ call[t].stage \in Late
            /\ Covered(q, k, call[t].value)
      BY <1>7, <2>0, <3>1 DEF ScratchInv, Late
    <3>3. PICK v \in Value : v = call[t].value
      BY Numbers
    <3>4. Covered(q, i, v)'
      BY <3>1, <3>2, <3>3
    <3>5. PICK c \in held[t] : c \in held'[t] /\ r \in content'[c].scratch
      BY <2>1, <3>2
    <3>6. call'[t].stage \in Late /\ call'[t].value = v
      BY <3>2, <3>3, <3>5, LateStays
    <3>7. Covered(q, i, call[t].value)'
      BY <3>4, <3>6 DEF Covered
    <3> QED
      BY <3>2, <3>5, <3>6, <3>7 DEF Late
  <2>3. ASSUME NEW t \in Thread, Arrives(t, q, i)
        PROVE  \E u \in Thread : \E c \in held'[u] :
                 /\ QueueOf[u] = q /\ r \in content'[c].scratch
                 /\ call'[u].stage \in {"executed", "snapped", "signalled"}
                 /\ Covered(q, i, call[u].value)'
    <3>1. PICK c \in held[t] : r \in content[c].uses
      BY <1>7, <2>3 DEF Arrives, Work
    <3>2. c \in 1 .. Len(content) /\ r \in content[c].scratch
      BY <1>0, <3>1 DEF ScratchInv
    <3>3. c \in held'[t] /\ r \in content'[c].scratch
      BY <2>1, <3>2
    <3>4. PICK v \in Value : v = call[t].value
      BY Numbers
    <3>5. /\ call'[t].stage = "executed" /\ call'[t].value = v /\ Covered(q, i, v)' /\ QueueOf[t] = q
      BY <1>0, <2>3, <3>4 DEF Arrives, SubmitExecute, SubmitCall
    <3>6. Covered(q, i, call[t].value)'
      BY <3>5 DEF Covered
    <3> QED
      BY <3>3, <3>5, <3>6
  <2> QED
    BY <1>7, <2>2, <2>3, WorkIsKept DEF WorkStep
<1> QED
  BY <1>5, <1>6, <1>7 DEF ScratchInv

(* What the two queues of condemned resources hold, each resource once. *)
LEMMA CondemnedStep ==
  ASSUME TypeOK, ScratchInv, CondemnedInv, ScanInv, [Next]_vars
  PROVE  CondemnedInv'
<1> USE DEF submitVars, listVars, lifeVars, gcVars
<1>0. /\ DOMAIN life = Resource /\ onDestroy \in Seq(Resource) /\ deferredDeletes \in Seq(Deleted)
      /\ Len(onDestroy) \in Nat /\ Len(deferredDeletes) \in Nat
      /\ \A i \in 1 .. Len(onDestroy) : onDestroy[i] \in Resource
      /\ \A i \in 1 .. Len(deferredDeletes) : deferredDeletes[i].resource \in Resource
  <2>1. DOMAIN life = Resource
    BY DEF TypeOK
  <2>2. \A i \in 1 .. Len(onDestroy) : onDestroy[i] \in Resource
    BY Types, ElementOfSeq
  <2> QED
    BY <2>1, <2>2, Types, Numbers, LenProperties
<1>a. ASSUME UNCHANGED lifeVars PROVE CondemnedInv'
  BY <1>a DEF CondemnedInv
<1>1. ASSUME NEW r \in Resource, TryEnqueueDestroyDeferred(r) PROVE CondemnedInv'
  <2>1. /\ life[r] = "live" /\ life' = [life EXCEPT ![r] = "deferred"]
        /\ onDestroy' = Append(onDestroy, r) /\ UNCHANGED deferredDeletes
    BY <1>1 DEF TryEnqueueDestroyDeferred, MayGiveUp
  <2>2. \A i \in 1 .. Len(onDestroy') :
          \/ i \in 1 .. Len(onDestroy) /\ onDestroy'[i] = onDestroy[i]
          \/ i = Len(onDestroy) + 1 /\ onDestroy'[i] = r
    BY <1>0, <2>1, AppendElements
  <2>3. life'[r] = "deferred" /\ \A x \in Resource : x # r => life'[x] = life[x]
    BY <1>0, <2>1
  <2>4. \A i \in 1 .. Len(onDestroy) : onDestroy[i] # r
    BY <2>1 DEF CondemnedInv
  <2>5. \A i \in 1 .. Len(deferredDeletes) : deferredDeletes[i].resource # r
    BY <2>1 DEF CondemnedInv
  <2>6. \A i \in 1 .. Len(onDestroy') : life'[onDestroy'[i]] = "deferred"
    BY <1>0, <2>2, <2>3, <2>4 DEF CondemnedInv
  <2>7. \A i \in 1 .. Len(deferredDeletes') : life'[deferredDeletes'[i].resource] = "zombie"
    BY <1>0, <2>1, <2>3, <2>5 DEF CondemnedInv
  <2>8. \A i, j \in 1 .. Len(onDestroy') : onDestroy'[i] = onDestroy'[j] => i = j
    BY <2>2, <2>4 DEF CondemnedInv
  <2> QED
    BY <2>1, <2>6, <2>7, <2>8 DEF CondemnedInv
<1>2. ASSUME NEW r \in Resource, DestroyImmediately(r) PROVE CondemnedInv'
  <2>1. life[r] = "live" /\ life' = [life EXCEPT ![r] = "destroyed"] /\ UNCHANGED <<onDestroy, deferredDeletes>>
    BY <1>2 DEF DestroyImmediately, MayGiveUp
  <2>2. \A x \in Resource : x # r => life'[x] = life[x]
    BY <1>0, <2>1
  <2> QED
    BY <1>0, <2>1, <2>2 DEF CondemnedInv
<1>3. ASSUME NEW t \in Thread, NEW c \in held[t], RestoreCommandBuffer(t, c) PROVE CondemnedInv'
  <2> DEFINE z == Relinquished(t, c)
  <2>1. /\ z \in Seq(Deleted) /\ Len(z) \in Nat
        /\ \A i \in 1 .. Len(z) : z[i].resource \in content[c].scratch
        /\ \A i, j \in 1 .. Len(z) : z[i].resource = z[j].resource => i = j
    BY RelinquishedElements
  <2>2. /\ deferredDeletes' = deferredDeletes \o z /\ UNCHANGED onDestroy
        /\ life' = [r \in Resource |-> IF r \in content[c].scratch THEN "zombie" ELSE life[r]]
    BY <1>3 DEF RestoreCommandBuffer, Relinquished
  <2> HIDE DEF z
  <2>4. c \in 1 .. Len(content) /\ content[c].scratch \subseteq Resource
    <3>1. c \in 1 .. Len(content) /\ content[c] \in Recorded
      BY Types, ElementOfSeq
    <3> QED
      BY <3>1, MembersAssumption DEF Recorded
  <2>5. \A r \in content[c].scratch : life[r] = "live" /\ life'[r] = "zombie"
    BY <2>2, <2>4 DEF ScratchInv
  <2>6. \A r \in Resource : r \notin content[c].scratch => life'[r] = life[r]
    BY <2>2
  <2>7. \A i \in 1 .. Len(deferredDeletes') :
          \/ i \in 1 .. Len(deferredDeletes) /\ deferredDeletes'[i] = deferredDeletes[i]
          \/ /\ i - Len(deferredDeletes) \in 1 .. Len(z)
             /\ deferredDeletes'[i] = z[i - Len(deferredDeletes)]
    BY <1>0, <2>1, <2>2, ConcatElements
  <2>8. \A i \in 1 .. Len(deferredDeletes) : deferredDeletes[i].resource \notin content[c].scratch
    BY <2>5 DEF CondemnedInv
  <2>9. \A i \in 1 .. Len(onDestroy) : onDestroy[i] \notin content[c].scratch
    BY <2>5 DEF CondemnedInv
  <2>10. \A i \in 1 .. Len(onDestroy') : life'[onDestroy'[i]] = "deferred"
    BY <1>0, <2>2, <2>6, <2>9 DEF CondemnedInv
  <2>11. \A i \in 1 .. Len(deferredDeletes') : life'[deferredDeletes'[i].resource] = "zombie"
    <3> TAKE i \in 1 .. Len(deferredDeletes')
    <3>1. CASE i \in 1 .. Len(deferredDeletes) /\ deferredDeletes'[i] = deferredDeletes[i]
      BY <1>0, <2>6, <2>8, <3>1 DEF CondemnedInv
    <3> QED
      BY <2>1, <2>5, <2>7, <3>1
  <2>12. \A i, j \in 1 .. Len(deferredDeletes') :
           deferredDeletes'[i].resource = deferredDeletes'[j].resource => i = j
    <3> TAKE i, j \in 1 .. Len(deferredDeletes')
    <3> HAVE deferredDeletes'[i].resource = deferredDeletes'[j].resource
    <3>1. CASE i \in 1 .. Len(deferredDeletes) /\ j \in 1 .. Len(deferredDeletes)
      BY <1>0, <2>7, <3>1 DEF CondemnedInv
    <3>2. CASE i - Len(deferredDeletes) \in 1 .. Len(z) /\ j - Len(deferredDeletes) \in 1 .. Len(z)
      <4>1. deferredDeletes'[i] = z[i - Len(deferredDeletes)] /\ deferredDeletes'[j] = z[j - Len(deferredDeletes)]
        BY <1>0, <2>7, <3>2
      <4>2. i - Len(deferredDeletes) = j - Len(deferredDeletes)
        BY <2>1, <3>2, <4>1
      <4> QED
        BY <1>0, <4>2
    <3>3. ASSUME NEW k \in 1 .. Len(deferredDeletes'), NEW l \in 1 .. Len(deferredDeletes'),
                 k \in 1 .. Len(deferredDeletes), l - Len(deferredDeletes) \in 1 .. Len(z)
          PROVE  deferredDeletes'[k].resource # deferredDeletes'[l].resource
      <4>1. deferredDeletes'[k] = deferredDeletes[k] /\ deferredDeletes'[l] = z[l - Len(deferredDeletes)]
        BY <1>0, <2>7, <3>3
      <4>2. z[l - Len(deferredDeletes)].resource \in content[c].scratch
        BY <2>1, <3>3
      <4> QED
        BY <2>8, <3>3, <4>1, <4>2
    <3>4. /\ i \in 1 .. Len(deferredDeletes) \/ i - Len(deferredDeletes) \in 1 .. Len(z)
          /\ j \in 1 .. Len(deferredDeletes) \/ j - Len(deferredDeletes) \in 1 .. Len(z)
      BY <2>7
    <3> QED
      BY <3>1, <3>2, <3>3, <3>4
  <2> QED
    BY <2>2, <2>10, <2>11, <2>12 DEF CondemnedInv
<1>4. ASSUME GcDelete PROVE CondemnedInv'
  <2>1. CASE UNCHANGED <<deferredDeletes, life>>
    BY <1>4, <1>a, <2>1 DEF GcDelete
  <2>2. CASE /\ deferredDeletes' = RemoveAt(deferredDeletes, gc.at)
             /\ life' = [life EXCEPT ![deferredDeletes[gc.at].resource] = "destroyed"]
    <3>1. PICK k \in 1 .. Len(deferredDeletes) : k = gc.at
      BY <1>4, FirstOn DEF GcDelete
    <3>2. deferredDeletes' = RemoveAt(deferredDeletes, k) /\ UNCHANGED onDestroy
      BY <1>4, <2>2, <3>1 DEF GcDelete
    <3>3. PICK f \in [1 .. Len(deferredDeletes') -> 1 .. Len(deferredDeletes)] :
            /\ \A j \in 1 .. Len(deferredDeletes') : f[j] # k /\ deferredDeletes'[j] = deferredDeletes[f[j]]
            /\ \A i, j \in 1 .. Len(deferredDeletes') : f[i] = f[j] => i = j
      BY <1>0, <3>2, RemoveAtPlaces
    <3>4. PICK r \in Resource : r = deferredDeletes[k].resource
      BY <1>0
    <3>5. life[r] = "zombie" /\ \A x \in Resource : x # r => life'[x] = life[x]
      BY <1>0, <2>2, <3>1, <3>4 DEF CondemnedInv
    <3>6. \A i \in 1 .. Len(deferredDeletes) : i # k => deferredDeletes[i].resource # r
      BY <3>4 DEF CondemnedInv
    <3>7. \A i \in 1 .. Len(deferredDeletes) : i # k => life'[deferredDeletes[i].resource] = "zombie"
      BY <1>0, <3>5, <3>6 DEF CondemnedInv
    <3>8. \A i \in 1 .. Len(deferredDeletes') : life'[deferredDeletes'[i].resource] = "zombie"
      BY <3>3, <3>7
    <3>9. \A i \in 1 .. Len(onDestroy) : life'[onDestroy[i]] = "deferred"
      BY <1>0, <3>5 DEF CondemnedInv
    <3>10. \A i, j \in 1 .. Len(deferredDeletes') :
             deferredDeletes'[i].resource = deferredDeletes'[j].resource => i = j
      BY SMTT(30), <3>3 DEF CondemnedInv
    <3> QED
      BY <3>2, <3>8, <3>9, <3>10 DEF CondemnedInv
  <2> QED
    BY <1>4, <2>1, <2>2 DEF GcDelete
<1>5. ASSUME GcDrain PROVE CondemnedInv'
  <2>1. onDestroy # <<>>
    BY <1>5, GcCounts DEF GcDrain
  <2>2. PICK r \in Resource : r = Head(onDestroy) /\ r = onDestroy[1]
    BY <1>0, <2>1, TailElements
  <2>3. PICK z \in Deleted : z = [resource |-> r, snapshot |-> cpuValue] /\ z.resource = r
    <3>1. cpuValue \in [Queue -> Value]
      BY Types
    <3>2. [resource |-> r, snapshot |-> cpuValue] \in Deleted
      BY <3>1 DEF Deleted
    <3> QED
      BY <3>2
  <2>4. onDestroy' = Tail(onDestroy) /\ deferredDeletes' = Append(deferredDeletes, z) /\ life' = [life EXCEPT ![r] = "zombie"]
    BY <1>5, <2>2, <2>3 DEF GcDrain
  <2>5. \A i \in 1 .. Len(onDestroy') : i + 1 \in 1 .. Len(onDestroy) /\ onDestroy'[i] = onDestroy[i + 1]
    BY <1>0, <2>1, <2>4, TailElements
  <2>6. \A i \in 1 .. Len(deferredDeletes') :
          \/ i \in 1 .. Len(deferredDeletes) /\ deferredDeletes'[i] = deferredDeletes[i]
          \/ i = Len(deferredDeletes) + 1 /\ deferredDeletes'[i] = z
    BY <1>0, <2>4, AppendElements
  <2>7. 1 \in 1 .. Len(onDestroy) /\ life[r] = "deferred"
    <3>1. 1 \in 1 .. Len(onDestroy)
      BY <1>0, <2>1, TailElements
    <3> QED
      BY <2>2, <3>1 DEF CondemnedInv
  <2>8. life'[r] = "zombie" /\ \A x \in Resource : x # r => life'[x] = life[x]
    BY <1>0, <2>4
  <2>9. \A i \in 1 .. Len(onDestroy') : onDestroy'[i] # r
    <3> TAKE i \in 1 .. Len(onDestroy')
    <3>1. i + 1 # 1
      OBVIOUS
    <3> QED
      BY <2>2, <2>5, <2>7, <3>1 DEF CondemnedInv
  <2>10. \A i \in 1 .. Len(deferredDeletes) : deferredDeletes[i].resource # r
    BY <2>7 DEF CondemnedInv
  <2>11. \A i \in 1 .. Len(onDestroy') : life'[onDestroy'[i]] = "deferred"
    BY <1>0, <2>5, <2>8, <2>9 DEF CondemnedInv
  <2>12. \A i \in 1 .. Len(deferredDeletes') : life'[deferredDeletes'[i].resource] = "zombie"
    BY <1>0, <2>3, <2>6, <2>8, <2>10 DEF CondemnedInv
  <2>13. \A i, j \in 1 .. Len(onDestroy') : onDestroy'[i] = onDestroy'[j] => i = j
    <3> TAKE i, j \in 1 .. Len(onDestroy')
    <3> HAVE onDestroy'[i] = onDestroy'[j]
    <3>1. i + 1 = j + 1
      BY <2>5 DEF CondemnedInv
    <3> QED
      BY <3>1
  <2>14. \A i, j \in 1 .. Len(deferredDeletes') :
           deferredDeletes'[i].resource = deferredDeletes'[j].resource => i = j
    BY <2>3, <2>6, <2>10 DEF CondemnedInv
  <2> QED
    BY <2>11, <2>12, <2>13, <2>14 DEF CondemnedInv
<1>6. ASSUME NEW t \in Thread,
             AskForCommandBuffer(t) \/ TakeCommandBuffer(t) \/ SubmitNumber(t) \/ SubmitTrack(t)
             \/ SubmitExecute(t) \/ SubmitSnapshot(t) \/ SubmitSignal(t)
      PROVE  CondemnedInv'
  BY <1>6, <1>a DEF AskForCommandBuffer, TakeCommandBuffer, SubmitNumber, SubmitTrack, SubmitExecute,
                    SubmitSnapshot, SubmitSignal
<1>7. ASSUME NEW t \in Thread, NEW c \in held[t], NEW r \in Resource, Record(t, c, r) \/ RecordScratch(t, c, r)
      PROVE  CondemnedInv'
  BY <1>7, <1>a DEF Record, RecordScratch
<1>8. ASSUME NEW q \in Queue, GpuStep(q) PROVE CondemnedInv'
  BY <1>8, <1>a DEF GpuStep
<1>9. ASSUME GcBegin \/ GcSubmit \/ GcSubmitsDone \/ GcDeletesDone \/ GcEnd PROVE CondemnedInv'
  BY <1>9, <1>a DEF GcBegin, GcSubmit, GcSubmitsDone, GcDeletesDone, GcEnd
<1>10. ASSUME DtorWaitIdle \/ DtorEnd \/ UNCHANGED vars PROVE CondemnedInv'
  BY <1>10, <1>a DEF DtorWaitIdle, DtorEnd, vars
<1> QED
  BY <1>1, <1>2, <1>3, <1>4, <1>5, <1>6, <1>7, <1>8, <1>9, <1>10 DEF Next, SubmitStep, GcStep, Terminated

-----------------------------------------------------------------------------
(* What is in use, and what the collector may destroy.                     *)

(* No value is signalled that has not been drawn. *)
LEMMA CoverBound ==
  ASSUME TypeOK, SignalInv, CallInv, NEW q \in Queue, NEW i \in 1 .. Len(driver[q]), NEW v \in Value,
         Covered(q, i, v)
  PROVE  v <= cpuValue[q]
<1>1. CASE \E j \in 1 .. Len(driver[q]) : i < j /\ IsSignal(driver[q][j]) /\ driver[q][j].value = v
  BY <1>1 DEF SignalInv
<1>2. ASSUME NEW t \in Thread, QueueOf[t] = q, call[t].stage \in Executed, call[t].value = v
      PROVE  v <= cpuValue[q]
  <2>1. call[t].stage \in Numbered
    BY <1>2 DEF Executed, Numbered
  <2>2. v = cpuValue[q] /\ cpuValue[q] \in Nat
    BY <1>2, <2>1, Numbers DEF CallInv
  <2> QED
    BY <2>2
<1> QED
  BY <1>1, <1>2 DEF Covered

(* The recording of a use. *)
Starts(r) == \E t \in Thread : \E c \in held[t] : Record(t, c, r) \/ RecordScratch(t, c, r)

LEMMA StartsUsable == \A r : Starts(r) => Usable(r)
  BY DEF Starts, Record, RecordScratch, Usable

(* What a thread has recorded after a step it had recorded before, or it   *)
(* records it in this one.                                                 *)
LEMMA RecordedBefore ==
  ASSUME TypeOK, ListsInv, [Next]_vars,
         NEW t \in Thread, Recording(t)', NEW c \in held'[t], NEW r \in content'[c].uses
  PROVE  \/ Recording(t) /\ c \in held[t] /\ r \in content[c].uses
         \/ Starts(r)
<1>0. content \in Seq(Recorded) /\ Blank \in Recorded /\ Blank.uses = {} /\ call[t] \in SubmitCall
      /\ \A u \in Thread : held[u] \subseteq 1 .. Len(content)
  BY Types DEF Blank, Recorded
<1>1. CASE c \in held[t]
  <2>1. Recording(t)
    <3>1. call[t].stage \notin Late
      BY LateStays DEF Recording, Late
    <3> QED
      BY <1>0, <3>1 DEF Recording, Late, SubmitCall, Stage
  <2>2. c \in 1 .. Len(content')
    BY <1>0, <1>1, ListsBefore
  <2>3. \A u \in Thread, x \in Resource : c \in held[u] /\ (Used(u, c, x) \/ Made(u, c, x)) => Starts(x)
    BY DEF Used, Made, Starts
  <2>4. r \in content[c].uses \/ Starts(r)
    BY <1>0, <2>2, <2>3, ContentBefore DEF Kept, Blanked, Used, Made
  <2> QED
    BY <1>1, <2>1, <2>4
<1>2. CASE c = Len(content) + 1 /\ content' = Append(content, Blank)
  BY <1>0, <1>2, AppendProperties
<1>3. ASSUME UNCHANGED content, NEW i \in 1 .. Len(pooled[QueueOf[t]]), pooled[QueueOf[t]][i].cmd = c
      PROVE  FALSE
  BY <1>0, <1>3, Numbers DEF ListsInv
<1> QED
  BY <1>1, <1>2, <1>3, ListsBefore

(* The same of use: what comes into use has just been recorded.            *)
LEMMA UseBefore ==
  ASSUME TypeOK, TypeOK', ListsInv, [Next]_vars, NEW r \in Resource, InUse(r)'
  PROVE  InUse(r) \/ Starts(r)
<1>0. \A q \in Queue : DOMAIN driver[q] = 1 .. Len(driver[q]) /\ DOMAIN driver'[q] = 1 .. Len(driver'[q])
  <2>1. DOMAIN driver = Queue /\ \A q \in Queue : driver[q] \in Seq(DriverEntry)
    BY Types
  <2>2. \A q \in Queue : driver'[q] \in Seq(DriverEntry)
    BY DEF TypeOK, DriverEntry
  <2> QED
    BY <2>1, <2>2
<1>1. ASSUME NEW t \in Thread, Recording(t)', NEW c \in held'[t], r \in content'[c].uses
      PROVE  InUse(r) \/ Starts(r)
  BY <1>1, RecordedBefore DEF InUse
<1>2. ASSUME NEW q \in Queue, NEW i \in 1 .. Len(driver'[q]), r \in driver'[q][i].uses
      PROVE  InUse(r)
  <2>1. CASE Remains(q, i)
    BY <1>0, <1>2, <2>1 DEF Remains, InUse
  <2>2. ASSUME NEW t \in Thread, Arrives(t, q, i) PROVE InUse(r)
    <3>1. \E c \in held[t] : r \in content[c].uses
      BY <1>2, <2>2 DEF Arrives, Work
    <3>2. Recording(t)
      BY <2>2 DEF Arrives, SubmitExecute, Recording
    <3> QED
      BY <3>1, <3>2 DEF InUse
  <2> QED
    BY <1>2, <2>1, <2>2, WorkIsKept DEF WorkStep
<1> QED
  BY <1>0, <1>1, <1>2 DEF InUse

(* What the collector finds ready is not in use: the queue has gone past   *)
(* all that covered the work with it.                                      *)
LEMMA ReadyIsIdle ==
  ASSUME TypeOK, SignalInv, CallInv, ZombieInv, ScanInv, gc.phase = "deletes",
         NEW k \in 1 .. Len(deferredDeletes), Ready(deferredDeletes[k])
  PROVE  ~InUse(deferredDeletes[k].resource)
<1> DEFINE r == deferredDeletes[k].resource
<1>1. \A t \in Thread : Recording(t) => \A c \in held[t] : r \notin content[c].uses
  BY DEF ZombieInv
<1>2. ASSUME NEW q \in Queue, NEW i \in 1 .. Len(driver[q]), r \in driver[q][i].uses PROVE FALSE
  <2>1. PICK v \in Value : Covered(q, i, v) /\ v <= deferredDeletes[k].snapshot[q]
    BY <1>2 DEF ZombieInv
  <2>2. oldest[q] > deferredDeletes[k].snapshot[q] /\ oldest[q] \in Nat
    BY Types DEF Ready, TypeOK
  <2>3. oldest[q] <= fence[q]
    BY <1>2 DEF ScanInv
  <2>4. fence[q] < v
    BY <2>1, CoverAhead
  <2>5. v \in Nat /\ fence[q] \in Nat /\ deferredDeletes[k].snapshot[q] \in Nat
    BY Types, Numbers
  <2> QED
    BY <2>1, <2>2, <2>3, <2>4, <2>5
<1>3. \A q \in Queue : DOMAIN driver[q] = 1 .. Len(driver[q])
  BY Numbers
<1> QED
  BY <1>1, <1>2, <1>3 DEF InUse

(* Nothing destroyed comes into use, and nothing in use is destroyed. *)
LEMMA UseStep ==
  ASSUME TypeOK, TypeOK', ListsInv, SignalInv, CallInv, ZombieInv, ScanInv, NoDestroyInFlight, [Next]_vars
  PROVE  NoDestroyInFlight'
<1> USE DEF submitVars, listVars, lifeVars, gcVars
<1> SUFFICES ASSUME NEW r \in Resource, life'[r] = "destroyed", InUse(r)'
             PROVE  FALSE
  BY DEF NoDestroyInFlight
<1>1. InUse(r) \/ Usable(r)
  BY UseBefore, StartsUsable
<1>2. CASE life'[r] = life[r]
  BY <1>1, <1>2 DEF Usable, NoDestroyInFlight
<1>3. CASE DestroyImmediately(r)
  <2>1. ~InUse(r) /\ UNCHANGED <<call, held, content, driver>>
    BY <1>3 DEF DestroyImmediately
  <2> QED
    BY <2>1 DEF InUse, Recording
<1>4. CASE /\ GcDelete /\ gc.at \in 1 .. Len(deferredDeletes) /\ Ready(deferredDeletes[gc.at])
           /\ r = deferredDeletes[gc.at].resource
  <2>1. gc.phase = "deletes" /\ UNCHANGED <<call, held, content, driver>>
    BY <1>4 DEF GcDelete
  <2>2. ~InUse(r)
    BY <1>4, <2>1, ReadyIsIdle
  <2> QED
    BY <2>1, <2>2 DEF InUse, Recording
<1> QED
  BY <1>2, <1>3, <1>4, LifeStep DEF LifeGoesOn

(* Where each of the deferred deletes comes from: it was there before, it  *)
(* was the scratch of a list put back, or it was drained.                  *)
Relinquishes(t, c, z) ==
  RestoreCommandBuffer(t, c) /\ z.resource \in content[c].scratch /\ z.snapshot = call[t].snapshot

LEMMA DeletedBefore ==
  ASSUME TypeOK, ScratchInv, ScanInv, [Next]_vars
  PROVE  \A k \in 1 .. Len(deferredDeletes') :
           \/ \E j \in 1 .. Len(deferredDeletes) : deferredDeletes'[k] = deferredDeletes[j]
           \/ \E t \in Thread : \E c \in held[t] : Relinquishes(t, c, deferredDeletes'[k])
           \/ GcDrain /\ deferredDeletes'[k].snapshot = cpuValue
<1> DEFINE Before == \A k \in 1 .. Len(deferredDeletes') :
             \/ \E j \in 1 .. Len(deferredDeletes) : deferredDeletes'[k] = deferredDeletes[j]
             \/ \E t \in Thread : \E c \in held[t] : Relinquishes(t, c, deferredDeletes'[k])
             \/ GcDrain /\ deferredDeletes'[k].snapshot = cpuValue
<1> USE DEF submitVars, listVars, lifeVars, gcVars
<1>0. deferredDeletes \in Seq(Deleted)
  BY Types
<1>1. ASSUME UNCHANGED deferredDeletes PROVE Before
  BY <1>1
<1>2. ASSUME NEW t \in Thread, NEW c \in held[t], RestoreCommandBuffer(t, c) PROVE Before
  <2> DEFINE z == Relinquished(t, c)
  <2>1. deferredDeletes' = deferredDeletes \o z
    BY <1>2 DEF RestoreCommandBuffer, Relinquished
  <2>2. /\ z \in Seq(Deleted)
        /\ \A i \in 1 .. Len(z) : z[i].resource \in content[c].scratch /\ z[i].snapshot = call[t].snapshot
    BY RelinquishedElements
  <2> HIDE DEF z
  <2>3. \A k \in 1 .. Len(deferredDeletes') :
          \/ \E j \in 1 .. Len(deferredDeletes) : deferredDeletes'[k] = deferredDeletes[j]
          \/ \E i \in 1 .. Len(z) : deferredDeletes'[k] = z[i]
    BY <1>0, <2>1, <2>2, ConcatElements
  <2> QED
    BY <1>2, <2>2, <2>3 DEF Relinquishes
<1>3. ASSUME GcDelete PROVE Before
  <2>1. PICK k : k = gc.at
    OBVIOUS
  <2>2. \/ UNCHANGED deferredDeletes
        \/ k \in 1 .. Len(deferredDeletes) /\ deferredDeletes' = RemoveAt(deferredDeletes, k)
    BY <1>3, <2>1, FirstOn DEF GcDelete
  <2> QED
    BY <1>0, <1>1, <2>2, RemoveAtElements
<1>4. ASSUME GcDrain PROVE Before
  <2>1. PICK z : z = [resource |-> Head(onDestroy), snapshot |-> cpuValue]
    OBVIOUS
  <2>2. deferredDeletes' = Append(deferredDeletes, z) /\ z.snapshot = cpuValue
    BY <1>4, <2>1 DEF GcDrain
  <2>3. z \in Deleted
    <3>1. onDestroy # <<>>
      BY <1>4, GcCounts DEF GcDrain
    <3>2. Head(onDestroy) \in Resource /\ cpuValue \in [Queue -> Value]
      BY <3>1, Types
    <3> QED
      BY <2>1, <3>2 DEF Deleted
  <2>4. \A k \in 1 .. Len(deferredDeletes') :
          \/ \E j \in 1 .. Len(deferredDeletes) : deferredDeletes'[k] = deferredDeletes[j]
          \/ deferredDeletes'[k] = z
    BY <1>0, <2>2, <2>3, AppendElements
  <2> QED
    BY <1>4, <2>2, <2>4
<1>5. ASSUME NEW t \in Thread,
             AskForCommandBuffer(t) \/ TakeCommandBuffer(t) \/ SubmitNumber(t) \/ SubmitTrack(t)
             \/ SubmitExecute(t) \/ SubmitSnapshot(t) \/ SubmitSignal(t)
      PROVE  Before
  BY <1>1, <1>5 DEF AskForCommandBuffer, TakeCommandBuffer, SubmitNumber, SubmitTrack, SubmitExecute,
                    SubmitSnapshot, SubmitSignal
<1>6. ASSUME NEW t \in Thread, NEW c \in held[t], NEW r \in Resource, Record(t, c, r) \/ RecordScratch(t, c, r)
      PROVE  Before
  BY <1>1, <1>6 DEF Record, RecordScratch
<1>7. ASSUME NEW q \in Queue, GpuStep(q) PROVE Before
  BY <1>1, <1>7 DEF GpuStep
<1>8. ASSUME NEW r \in Resource, TryEnqueueDestroyDeferred(r) \/ DestroyImmediately(r) PROVE Before
  BY <1>1, <1>8 DEF TryEnqueueDestroyDeferred, DestroyImmediately
<1>9. ASSUME GcBegin \/ GcSubmit \/ GcSubmitsDone \/ GcDeletesDone \/ GcEnd PROVE Before
  BY <1>1, <1>9 DEF GcBegin, GcSubmit, GcSubmitsDone, GcDeletesDone, GcEnd
<1>10. ASSUME DtorWaitIdle \/ DtorEnd \/ UNCHANGED vars PROVE Before
  BY <1>1, <1>10 DEF DtorWaitIdle, DtorEnd, vars
<1> HIDE DEF Before
<1>11. Before
  BY <1>2, <1>3, <1>4, <1>5, <1>6, <1>7, <1>8, <1>9, <1>10 DEF Next, SubmitStep, GcStep, Terminated
<1> QED
  BY <1>11 DEF Before

(* Work that uses what is to be deleted is covered by its snapshot. *)
LEMMA ZombieStep ==
  ASSUME TypeOK, OpenInv, ListsInv, SignalInv, CallInv, CoverInv, ScratchInv, CondemnedInv, ZombieInv, ScanInv,
         [Next]_vars
  PROVE  ZombieInv'
<1> USE DEF submitVars, listVars, lifeVars, gcVars
<1> SUFFICES ASSUME NEW k \in 1 .. Len(deferredDeletes')
             PROVE  /\ \A t \in Thread : Recording(t)' =>
                         \A c \in held'[t] : deferredDeletes'[k].resource \notin content'[c].uses
                    /\ \A q \in Queue : \A i \in 1 .. Len(driver'[q]) :
                         deferredDeletes'[k].resource \in driver'[q][i].uses =>
                           \E v \in Value : Covered(q, i, v)' /\ v <= deferredDeletes'[k].snapshot[q]
  BY DEF ZombieInv, Value
<1> DEFINE z == deferredDeletes'[k]
           Unrecorded == \A t \in Thread : Recording(t)' => \A c \in held'[t] : z.resource \notin content'[c].uses
           Outlived == \A q \in Queue : \A i \in 1 .. Len(driver'[q]) : z.resource \in driver'[q][i].uses =>
                         \E v \in Value : Covered(q, i, v)' /\ v <= z.snapshot[q]
<1>1. ASSUME NEW j \in 1 .. Len(deferredDeletes), z = deferredDeletes[j] PROVE Unrecorded /\ Outlived
  <2>1. ~Usable(z.resource)
    BY <1>1 DEF CondemnedInv, Usable
  <2>2. \A t \in Thread : Recording(t) => \A c \in held[t] : z.resource \notin content[c].uses
    BY <1>1 DEF ZombieInv
  <2>3. Unrecorded
    BY <2>1, <2>2, RecordedBefore, StartsUsable
  <2>4. ASSUME NEW q \in Queue, NEW i \in 1 .. Len(driver'[q]), z.resource \in driver'[q][i].uses
        PROVE  \E v \in Value : Covered(q, i, v)' /\ v <= z.snapshot[q]
    <3>1. CASE Remains(q, i)
      <4>1. PICK n \in 1 .. Len(driver[q]) :
              driver'[q][i] = driver[q][n] /\ \A v \in Value : Covered(q, n, v) => Covered(q, i, v)'
        BY <3>1 DEF Remains
      <4>2. \E v \in Value : Covered(q, n, v) /\ v <= z.snapshot[q]
        BY <1>1, <2>4, <4>1 DEF ZombieInv
      <4> QED
        BY <4>1, <4>2
    <3>2. ASSUME NEW t \in Thread, Arrives(t, q, i) PROVE FALSE
      <4>1. \E c \in held[t] : z.resource \in content[c].uses
        BY <2>4, <3>2 DEF Arrives, Work
      <4>2. Recording(t)
        BY <3>2 DEF Arrives, SubmitExecute, Recording
      <4> QED
        BY <2>2, <4>1, <4>2
    <3> QED
      BY <2>4, <3>1, <3>2, WorkIsKept DEF WorkStep
  <2> QED
    BY <2>3, <2>4
<1>2. ASSUME NEW t \in Thread, NEW c \in held[t], Relinquishes(t, c, z) PROVE Unrecorded /\ Outlived
  <2>1. /\ RestoreCommandBuffer(t, c) /\ z.resource \in content[c].scratch /\ z.snapshot = call[t].snapshot
        /\ call[t].stage = "signalled" /\ UNCHANGED driver
    BY <1>2 DEF Relinquishes, RestoreCommandBuffer
  <2>2. /\ c \in 1 .. Len(content) /\ content[c] \in Recorded /\ content \in Seq(Recorded)
        /\ \A u \in Thread : held[u] \subseteq 1 .. Len(content)
        /\ call \in [Thread -> SubmitCall] /\ held \in [Thread -> SUBSET (1 .. Len(content))]
    BY Types, ElementOfSeq
  <2>3. z.resource \in Scratch /\ life[z.resource] = "live"
    BY <2>1, <2>2 DEF ScratchInv, Recorded
  <2>4. \A d \in 1 .. Len(content) : z.resource \in content[d].uses => d = c
    BY <2>1, <2>2, <2>3 DEF ScratchInv
  <2>5. /\ content' = [content EXCEPT ![c] = Blank]
        /\ \A u \in Thread : u # t => call'[u] = call[u] /\ held'[u] = held[u]
        /\ \A u \in Thread : held'[u] \subseteq held[u]
    BY <2>1, <2>2 DEF RestoreCommandBuffer
  <2>6. content'[c].uses = {} /\ \A d \in 1 .. Len(content) : d # c => content'[d] = content[d]
    BY <2>2, <2>5 DEF Blank
  <2>7. Unrecorded
    BY <2>2, <2>4, <2>5, <2>6
  <2>8. ASSUME NEW q \in Queue, NEW i \in 1 .. Len(driver'[q]), z.resource \in driver'[q][i].uses
        PROVE  \E v \in Value : Covered(q, i, v)' /\ v <= z.snapshot[q]
    <3>1. PICK u \in Thread : \E d \in held[u] :
            QueueOf[u] = q /\ z.resource \in content[d].scratch /\ Covered(q, i, call[u].value)
      <4>1. \A p \in Queue : \A j \in 1 .. Len(driver[p]) : z.resource \in driver[p][j].uses =>
              \E u \in Thread : \E d \in held[u] :
                QueueOf[u] = p /\ z.resource \in content[d].scratch /\ Covered(p, j, call[u].value)
        BY <2>3 DEF ScratchInv
      <4>2. i \in 1 .. Len(driver[q]) /\ z.resource \in driver[q][i].uses
        BY <2>1, <2>8
      <4> QED
        BY <4>1, <4>2
    <3>2. PICK d \in held[u] :
            QueueOf[u] = q /\ z.resource \in content[d].scratch /\ Covered(q, i, call[u].value)
      BY <3>1
    <3>3. d = c /\ u = t
      BY <2>1, <2>2, <3>2 DEF ScratchInv, ListsInv
    <3>4. PICK v \in Value : v = call[t].value
      BY Numbers
    <3>5. Covered(q, i, v) /\ v <= z.snapshot[q]
      BY <2>1, <3>2, <3>3, <3>4 DEF CallInv
    <3>6. call[t].stage \notin Executed
      BY <2>1 DEF Executed
    <3>7. Covered(q, i, v)'
      BY <2>1, <2>5, <3>5, <3>6 DEF Covered
    <3> QED
      BY <3>5, <3>7
  <2> QED
    BY <2>7, <2>8
<1>3. ASSUME GcDrain, z.snapshot = cpuValue PROVE Unrecorded /\ Outlived
  <2>1. UNCHANGED <<driver, held, call, content, cpuValue>> /\ \A t \in Thread : held[t] = {}
    BY <1>3 DEF GcDrain, OpenInv
  <2>2. ASSUME NEW q \in Queue, NEW i \in 1 .. Len(driver'[q]), z.resource \in driver'[q][i].uses
        PROVE  \E v \in Value : Covered(q, i, v)' /\ v <= z.snapshot[q]
    <3>1. i \in 1 .. Len(driver[q]) /\ driver[q][i].uses # {}
      BY <2>1, <2>2
    <3>2. PICK v \in Value : Covered(q, i, v)
      BY <3>1 DEF CoverInv
    <3>3. v <= z.snapshot[q]
      BY <1>3, <3>1, <3>2, CoverBound
    <3>4. Covered(q, i, v)'
      BY <2>1, <3>2 DEF Covered
    <3> QED
      BY <3>3, <3>4
  <2> QED
    BY <2>1, <2>2
<1> QED
  BY <1>1, <1>2, <1>3, DeletedBefore

(* The collector's bookkeeping, with submissions and the GPU going on.     *)
LEMMA ScanStep ==
  ASSUME TypeOK, TypeOK', OpenInv, SignalInv, CoverInv, ScanInv, [Next]_vars
  PROVE  ScanInv'
<1> USE DEF submitVars, listVars, lifeVars, gcVars
<1>0. /\ gc \in Collection /\ gc.at \in Nat /\ gc.left \in Nat
      /\ Len(pendingSubmits) \in Nat /\ Len(deferredDeletes) \in Nat /\ Len(onDestroy) \in Nat
      /\ pendingSubmits \in Seq(Pending) /\ deferredDeletes \in Seq(Deleted) /\ onDestroy \in Seq(Resource)
      /\ driver \in [Queue -> Seq(DriverEntry)] /\ fence \in [Queue -> Value]
      /\ oldest \in [Queue -> 0 .. Never] /\ Never \in Nat
      /\ \A q \in Queue : oldest[q] \in Nat
  <2>1. oldest \in [Queue -> 0 .. Never] /\ Never \in Nat
    BY Types DEF TypeOK
  <2> QED
    BY <2>1, Types, Numbers, GcCounts
<1>a. ASSUME UNCHANGED <<fence, pendingSubmits, onDestroy, deferredDeletes, gc, oldest>>,
             gc.phase = "deletes" =>
               \A q \in Queue : (\A i \in 1 .. Len(driver[q]) : driver[q][i].uses = {}) =>
                                  \A i \in 1 .. Len(driver'[q]) : driver'[q][i].uses = {}
      PROVE  ScanInv'
  <2>1. UNCHANGED Scanned(gc.at - 1)
    BY <1>a DEF Scanned
  <2> QED
    BY <1>a, <2>1 DEF ScanInv
<1>b. ASSUME UNCHANGED <<fence, driver, pendingSubmits, onDestroy, deferredDeletes, gc, oldest>> PROVE ScanInv'
  BY <1>a, <1>b
<1>1. ASSUME GcBegin PROVE ScanInv'
  <2>1. /\ gc'.phase = "submits" /\ gc'.at = 1 /\ UNCHANGED pendingSubmits
        /\ \A q \in Queue : oldest'[q] = Never
    BY <1>1 DEF GcBegin
  <2>2. Scanned(gc.at - 1)'
    BY <2>1 DEF Scanned
  <2> QED
    BY <1>0, <2>1, <2>2 DEF ScanInv
<1>2. ASSUME GcSubmit PROVE ScanInv'
  <2>1. PICK k \in 1 .. Len(pendingSubmits) : k = gc.at
    BY <1>2, FirstOn DEF GcSubmit
  <2>2. PICK s \in Pending : s = pendingSubmits[k]
    BY Numbers
  <2>3. gc.phase = "submits" /\ Scanned(gc.at - 1) /\ UNCHANGED fence
    BY <1>2 DEF GcSubmit, ScanInv
  <2>4. CASE pendingSubmits' = RemoveAt(pendingSubmits, k) /\ UNCHANGED gcVars
    <3>1. /\ Len(pendingSubmits') = Len(pendingSubmits) - 1
          /\ \A i \in 1 .. Len(pendingSubmits) - 1 : i < k => pendingSubmits'[i] = pendingSubmits[i]
      BY <1>0, <2>4, RemoveAtProperties
    <3>2. k \in 1 .. Len(pendingSubmits') + 1
      BY <1>0, <3>1
    <3>3. \A i \in 1 .. k - 1 : pendingSubmits'[i] = pendingSubmits[i]
      <4>1. \A i \in 1 .. k - 1 : i \in 1 .. Len(pendingSubmits) - 1 /\ i < k
        BY <1>0
      <4> QED
        BY <3>1, <4>1
    <3>4. Scanned(gc.at - 1)'
      BY <2>1, <2>3, <2>4, <3>3 DEF Scanned
    <3> QED
      BY <2>1, <2>3, <2>4, <3>2, <3>4 DEF ScanInv
  <2>5. CASE /\ oldest' = [oldest EXCEPT ![s.queue] = IF @ <= fence[s.queue] THEN @ ELSE fence[s.queue]]
             /\ gc' = [gc EXCEPT !.at = @ + 1]
             /\ UNCHANGED pendingSubmits
    <3>1. s.queue \in Queue
      BY DEF Pending
    <3>2. oldest'[s.queue] <= fence[s.queue] /\ \A q \in Queue : q # s.queue => oldest'[q] = oldest[q]
      BY <1>0, <2>5, <3>1, Numbers
    <3>3. gc'.phase = "submits" /\ gc'.at = k + 1
      BY <1>0, <2>1, <2>3, <2>5 DEF Collection
    <3>4. ASSUME NEW q \in Queue
          PROVE  \/ oldest'[q] = Never /\ \A i \in 1 .. gc'.at - 1 : pendingSubmits'[i].queue # q
                 \/ oldest'[q] <= fence'[q]
      <4>1. CASE q = s.queue
        BY <2>3, <3>2, <4>1
      <4>2. CASE q # s.queue
        <5>1. \/ oldest[q] = Never /\ \A i \in 1 .. k - 1 : pendingSubmits[i].queue # q
              \/ oldest[q] <= fence[q]
          BY <2>1, <2>3 DEF Scanned
        <5>2. \A i \in 1 .. gc'.at - 1 : i \in 1 .. k - 1 \/ i = k
          BY <3>3
        <5> QED
          BY <2>2, <2>3, <2>5, <3>2, <4>2, <5>1, <5>2
      <4> QED
        BY <4>1, <4>2
    <3>5. Scanned(gc.at - 1)'
      BY <3>4 DEF Scanned
    <3>6. k + 1 \in 1 .. Len(pendingSubmits') + 1
      BY <1>0, <2>5
    <3> QED
      BY <3>3, <3>5, <3>6 DEF ScanInv
  <2> QED
    BY <1>2, <2>1, <2>2, <2>4, <2>5 DEF GcSubmit
<1>3. ASSUME GcSubmitsDone PROVE ScanInv'
  <2>1. /\ gc.phase = "submits" /\ gc.at > Len(pendingSubmits) /\ gc'.phase = "deletes" /\ gc'.at = 1
        /\ UNCHANGED <<fence, driver, oldest, deferredDeletes>>
    BY <1>0, <1>3 DEF GcSubmitsDone, Collection
  <2>2. gc.at - 1 = Len(pendingSubmits) /\ Scanned(gc.at - 1)
    BY <1>0, <2>1 DEF ScanInv
  <2>3. ASSUME NEW q \in Queue, ~(oldest[q] <= fence[q]), NEW i \in 1 .. Len(driver[q]), driver[q][i].uses # {}
        PROVE  FALSE
    <3>1. \A n \in 1 .. Len(pendingSubmits) : pendingSubmits[n].queue # q
      BY <2>2, <2>3 DEF Scanned
    <3>2. \A v : ~Tracked(pendingSubmits, q, v)
      BY <3>1 DEF Tracked
    <3>3. PICK v \in Value : Covered(q, i, v)
      BY <2>3 DEF CoverInv
    <3>4. \A t \in Thread : held[t] = {}
      BY <2>1 DEF OpenInv
    <3>5. \A j \in 1 .. Len(driver[q]) : ~IsSignal(driver[q][j])
      BY <3>2 DEF SignalInv
    <3> QED
      BY <3>3, <3>4, <3>5 DEF Covered
  <2>4. 1 \in 1 .. Len(deferredDeletes') + 1
    BY <1>0, <2>1
  <2> QED
    BY <2>1, <2>3, <2>4 DEF ScanInv
<1>4. ASSUME GcDelete PROVE ScanInv'
  <2>1. PICK k \in 1 .. Len(deferredDeletes) : k = gc.at
    BY <1>4, FirstOn DEF GcDelete
  <2>2. /\ gc.phase = "deletes" /\ UNCHANGED <<fence, driver, oldest>>
        /\ \A q \in Queue : oldest[q] <= fence[q] \/ \A i \in 1 .. Len(driver[q]) : driver[q][i].uses = {}
    BY <1>4 DEF GcDelete, ScanInv
  <2>3. gc'.phase = "deletes" /\ gc'.at \in 1 .. Len(deferredDeletes') + 1
    <3>1. CASE deferredDeletes' = RemoveAt(deferredDeletes, k) /\ UNCHANGED gc
      <4>1. Len(deferredDeletes') = Len(deferredDeletes) - 1
        BY <1>0, <3>1, RemoveAtProperties
      <4> QED
        BY <1>0, <2>1, <2>2, <3>1, <4>1
    <3>2. CASE gc' = [gc EXCEPT !.at = @ + 1] /\ UNCHANGED deferredDeletes
      <4>1. gc'.phase = "deletes" /\ gc'.at = k + 1
        BY <1>0, <2>1, <2>2, <3>2 DEF Collection
      <4> QED
        BY <1>0, <3>2, <4>1
    <3> QED
      BY <1>4, <2>1, <3>1, <3>2 DEF GcDelete
  <2> QED
    BY <2>2, <2>3 DEF ScanInv
<1>5. ASSUME GcDeletesDone PROVE ScanInv'
  <2>1. gc'.phase = "drain" /\ gc'.left = Len(onDestroy') /\ Len(onDestroy') \in Nat
    BY <1>0, <1>5 DEF GcDeletesDone
  <2> QED
    BY <2>1 DEF ScanInv
<1>6. ASSUME GcDrain PROVE ScanInv'
  <2>1. gc.phase = "drain" /\ onDestroy' = Tail(onDestroy) /\ gc' = [gc EXCEPT !.left = @ - 1] /\ gc.left > 0
    BY <1>6 DEF GcDrain
  <2>2. gc'.phase = "drain" /\ gc'.left = gc.left - 1
    BY <1>0, <2>1 DEF Collection
  <2> QED
    BY <2>1, <2>2, GcCounts DEF ScanInv
<1>7. ASSUME GcEnd PROVE ScanInv'
  BY <1>7 DEF GcEnd, GcIdle, ScanInv
<1>8. ASSUME NEW t \in Thread, SubmitTrack(t) PROVE ScanInv'
  <2>1. gc.phase # "submits" /\ UNCHANGED <<fence, driver, onDestroy, deferredDeletes, gc, oldest>>
    BY <1>8 DEF SubmitTrack
  <2> QED
    BY <2>1 DEF ScanInv
<1>9. ASSUME NEW t \in Thread, SubmitExecute(t) \/ SubmitSignal(t) PROVE ScanInv'
  <2>1. PICK q \in Queue : q = QueueOf[t]
    BY Numbers
  <2>2. PICK e \in DriverEntry :
          /\ driver' = [driver EXCEPT ![q] = Append(driver[q], e)]
          /\ held[t] = {} => e.uses = {}
    <3>1. ASSUME SubmitExecute(t)
          PROVE  \E e \in DriverEntry : /\ driver' = [driver EXCEPT ![q] = Append(driver[q], e)]
                                        /\ held[t] = {} => e.uses = {}
      <4>1. held[t] = {} => Work(held[t], UNION {content[c].uses : c \in held[t]}).uses = {}
        BY DEF Work
      <4> QED
        BY <2>1, <3>1, <4>1, ExecutedEntry DEF SubmitExecute
    <3>2. ASSUME SubmitSignal(t)
          PROVE  \E e \in DriverEntry : /\ driver' = [driver EXCEPT ![q] = Append(driver[q], e)]
                                        /\ held[t] = {} => e.uses = {}
      <4>1. Signal(call[t].value) \in DriverEntry /\ Signal(call[t].value).uses = {}
        BY Numbers DEF Signal, DriverEntry
      <4> QED
        BY <2>1, <3>2, <4>1 DEF SubmitSignal
    <3> QED
      BY <1>9, <3>1, <3>2
  <2>3. /\ driver[q] \in Seq(DriverEntry) /\ driver'[q] = Append(driver[q], e)
        /\ \A p \in Queue : p # q => driver'[p] = driver[p]
    BY <1>0, <2>2
  <2>4. gc.phase = "deletes" => e.uses = {}
    BY <2>2 DEF OpenInv
  <2>5. \A i \in 1 .. Len(driver'[q]) :
          \/ i \in 1 .. Len(driver[q]) /\ driver'[q][i] = driver[q][i]
          \/ driver'[q][i] = e
    BY <2>3, AppendElements
  <2>6. gc.phase = "deletes" =>
          \A p \in Queue : (\A i \in 1 .. Len(driver[p]) : driver[p][i].uses = {}) =>
                             \A i \in 1 .. Len(driver'[p]) : driver'[p][i].uses = {}
    BY <2>3, <2>4, <2>5
  <2>7. UNCHANGED <<fence, pendingSubmits, onDestroy, deferredDeletes, gc, oldest>>
    BY <1>9 DEF SubmitExecute, SubmitSignal
  <2> QED
    BY <1>a, <2>6, <2>7
<1>10. ASSUME NEW q \in Queue, GpuStep(q) PROVE ScanInv'
  <2>1. /\ driver[q] \in Seq(DriverEntry) /\ driver[q] # <<>> /\ driver'[q] = Tail(driver[q])
        /\ \A p \in Queue : p # q => driver'[p] = driver[p]
        /\ UNCHANGED <<pendingSubmits, onDestroy, deferredDeletes, gc, oldest>>
    BY <1>0, <1>10 DEF GpuStep
  <2>2. /\ \A i \in 1 .. Len(driver'[q]) : i + 1 \in 1 .. Len(driver[q]) /\ driver'[q][i] = driver[q][i + 1]
        /\ Head(driver[q]) = driver[q][1] /\ 1 \in 1 .. Len(driver[q])
    BY <2>1, TailElements
  <2>3. \A p \in Queue : fence[p] <= fence'[p]
    <3>1. IsSignal(Head(driver[q])) => fence[q] < Head(driver[q]).value
      BY <2>2 DEF SignalInv
    <3>2. Head(driver[q]).value \in Nat
      BY <2>2, Numbers
    <3>3. fence' = IF IsSignal(Head(driver[q])) THEN [fence EXCEPT ![q] = Head(driver[q]).value] ELSE fence
      BY <1>10 DEF GpuStep, IsSignal
    <3> QED
      BY <1>0, <3>1, <3>2, <3>3, Numbers
  <2>4. \A p \in Queue : fence[p] \in Nat /\ fence'[p] \in Int
    <3>1. fence' \in [Queue -> Value]
      BY DEF TypeOK, Value
    <3> QED
      BY <3>1, Types, Numbers
  <2>5. \A p \in Queue : oldest[p] <= fence[p] => oldest'[p] <= fence'[p]
    BY <1>0, <2>1, <2>3, <2>4
  <2>6. Scanned(gc.at - 1) => Scanned(gc.at - 1)'
    BY <2>1, <2>5 DEF Scanned
  <2>7. \A p \in Queue : (\A i \in 1 .. Len(driver[p]) : driver[p][i].uses = {}) =>
                           \A i \in 1 .. Len(driver'[p]) : driver'[p][i].uses = {}
    <3> TAKE p \in Queue
    <3>1. CASE p = q
      BY <2>2, <3>1
    <3> QED
      BY <2>1, <3>1
  <2> QED
    BY <2>1, <2>5, <2>6, <2>7 DEF ScanInv
<1>11. ASSUME NEW t \in Thread, NEW c \in held[t], RestoreCommandBuffer(t, c) PROVE ScanInv'
  <2>1. gc.phase = "idle" /\ UNCHANGED gc
    BY <1>11 DEF RestoreCommandBuffer, SharedAccess
  <2> QED
    BY <2>1 DEF ScanInv
<1>12. ASSUME NEW r \in Resource, TryEnqueueDestroyDeferred(r) PROVE ScanInv'
  <2>1. /\ onDestroy' = Append(onDestroy, r)
        /\ UNCHANGED <<fence, driver, pendingSubmits, deferredDeletes, gc, oldest>>
    BY <1>12 DEF TryEnqueueDestroyDeferred
  <2>2. Len(onDestroy') = Len(onDestroy) + 1
    BY <1>0, <2>1, AppendElements
  <2>3. gc.left <= Len(onDestroy) => gc'.left <= Len(onDestroy')
    BY <1>0, <2>1, <2>2
  <2>4. UNCHANGED Scanned(gc.at - 1)
    BY <2>1 DEF Scanned
  <2> QED
    BY <2>1, <2>3, <2>4 DEF ScanInv
<1>13. ASSUME NEW r \in Resource, DestroyImmediately(r) PROVE ScanInv'
  BY <1>13, <1>b DEF DestroyImmediately
<1>14. ASSUME NEW t \in Thread,
              AskForCommandBuffer(t) \/ TakeCommandBuffer(t) \/ SubmitNumber(t) \/ SubmitSnapshot(t)
       PROVE  ScanInv'
  BY <1>14, <1>b DEF AskForCommandBuffer, TakeCommandBuffer, SubmitNumber, SubmitSnapshot
<1>15. ASSUME NEW t \in Thread, NEW c \in held[t], NEW r \in Resource, Record(t, c, r) \/ RecordScratch(t, c, r)
       PROVE  ScanInv'
  BY <1>15, <1>b DEF Record, RecordScratch
<1>16. ASSUME DtorWaitIdle \/ DtorEnd \/ UNCHANGED vars PROVE ScanInv'
  BY <1>16, <1>b DEF DtorWaitIdle, DtorEnd, vars
<1> QED
  BY <1>1, <1>2, <1>3, <1>4, <1>5, <1>6, <1>7, <1>8, <1>9, <1>10, <1>11, <1>12, <1>13, <1>14, <1>15, <1>16
  DEF Next, SubmitStep, GcStep, Terminated

-----------------------------------------------------------------------------
(* The invariant, and what it says.                                        *)

(* A new device satisfies the invariant. *)
LEMMA InitIInv == Init => IInv
<1> SUFFICES ASSUME Init PROVE IInv
  OBVIOUS
<1>1. TypeOK
  BY InitTypeOK
<1>2. /\ \A q \in Queue : cpuValue[q] = 0 /\ fence[q] = 0 /\ driver[q] = <<>> /\ pooled[q] = <<>> /\ openLists[q] = 0
      /\ \A t \in Thread : call[t].stage = "idle" /\ held[t] = {} /\ QueueOf[t] \in Queue
      /\ pendingSubmits = <<>> /\ content = <<>> /\ onDestroy = <<>> /\ deferredDeletes = <<>>
      /\ \A r \in Resource : life[r] = "live"
      /\ gc.phase = "idle"
  BY QueueOfAssumption DEF Init, Idle, GcIdle
<1>3. OpenInv
  <2>1. \A t \in Thread : Cardinality(held[t]) = 0 /\ openLists[QueueOf[t]] = 0 /\ call[t].stage # "counted"
    BY <1>2, FS_EmptySet
  <2> QED
    BY <1>2, <2>1 DEF OpenInv
<1>4. ListsInv
  BY <1>2 DEF ListsInv
<1>5. SignalInv /\ CallInv
  BY <1>2 DEF SignalInv, CallInv, Numbered, OnRecord
<1>6. CoverInv /\ AllocatorInv
  BY <1>2 DEF CoverInv, AllocatorInv
<1>7. ScratchInv
  BY <1>2 DEF ScratchInv
<1>8. CondemnedInv /\ ZombieInv /\ ScanInv
  BY <1>2 DEF CondemnedInv, ZombieInv, ScanInv
<1>9. NoDestroyInFlight
  BY <1>2 DEF NoDestroyInFlight
<1> QED
  BY <1>1, <1>3, <1>4, <1>5, <1>6, <1>7, <1>8, <1>9 DEF IInv

(* Every step preserves the invariant. *)
LEMMA NextIInv ==
  ASSUME OneThreadAQueue, IInv, [Next]_vars
  PROVE  IInv'
<1>1. TypeOK'
  BY NextTypeOK DEF IInv
<1>2. OpenInv' /\ ListsInv'
  BY OpenStep, ListsStep DEF IInv
<1>3. SignalInv' /\ CallInv'
  BY SignalStep DEF IInv
<1>4. CoverInv' /\ AllocatorInv'
  BY CoverStep, AllocatorStep DEF IInv
<1>5. ScratchInv' /\ CondemnedInv'
  BY ScratchStep, CondemnedStep DEF IInv
<1>6. ZombieInv' /\ ScanInv'
  BY <1>1, ZombieStep, ScanStep DEF IInv
<1>7. NoDestroyInFlight'
  BY <1>1, UseStep DEF IInv
<1> QED
  BY <1>1, <1>2, <1>3, <1>4, <1>5, <1>6, <1>7 DEF IInv

(* With one thread to a queue, the invariant holds throughout. *)
THEOREM InductiveInvariant ==
  ASSUME OneThreadAQueue
  PROVE  Spec => []IInv
<1>1. Init => IInv
  BY InitIInv
<1>2. IInv /\ [Next]_vars => IInv'
  BY NextIInv
<1> QED
  BY <1>1, <1>2, PTL DEF Spec

(* The types of the device. *)
THEOREM TypeCorrect ==
  ASSUME OneThreadAQueue
  PROVE  Spec => []TypeOK
<1>1. IInv => TypeOK
  BY DEF IInv
<1> QED
  BY <1>1, InductiveInvariant, PTL

(* Nothing that has been destroyed is in a recorded list or in work a      *)
(* queue has still to do.                                                  *)
THEOREM DestroyIsSafe ==
  ASSUME OneThreadAQueue
  PROVE  Spec => []NoDestroyInFlight
<1>1. IInv => NoDestroyInFlight
  BY DEF IInv
<1> QED
  BY <1>1, InductiveInvariant, PTL

(* No command buffer is being recorded while a queue has work of it, so    *)
(* that GetCommandBuffer never resets an allocator in use.                 *)
THEOREM AllocatorsAreIdle ==
  ASSUME OneThreadAQueue
  PROVE  Spec => []NoAllocatorResetInFlight
<1>1. IInv => NoAllocatorResetInFlight
  <2> SUFFICES ASSUME IInv, NEW t \in Thread, call[t].stage \in {"idle", "counted"}, NEW c \in held[t],
                      NEW q \in Queue, NEW i \in DOMAIN driver[q], c \in driver[q][i].cmds
               PROVE  FALSE
    BY DEF NoAllocatorResetInFlight
  <2>1. i \in 1 .. Len(driver[q])
    BY Numbers DEF IInv
  <2> QED
    BY <2>1 DEF IInv, AllocatorInv
<1> QED
  BY <1>1, InductiveInvariant, PTL

-----------------------------------------------------------------------------
(* The order of destruction.                                               *)

(* The values drawn grow, and a call's snapshot is the one it had, the     *)
(* values drawn so far, or none.                                           *)
LEMMA ValuesGrow ==
  ASSUME TypeOK, [Next]_vars
  PROVE  /\ \A q \in Queue : cpuValue[q] <= cpuValue'[q]
         /\ \A t \in Thread : call'[t].snapshot \in {call[t].snapshot, cpuValue, Idle.snapshot}
<1> USE DEF submitVars, listVars, lifeVars, gcVars
<1> DEFINE Grow == \A q \in Queue : cpuValue[q] <= cpuValue'[q]
           Seen == \A t \in Thread : call'[t].snapshot \in {call[t].snapshot, cpuValue, Idle.snapshot}
<1>0. /\ call \in [Thread -> SubmitCall] /\ cpuValue \in [Queue -> Value]
      /\ \A q \in Queue : cpuValue[q] \in Nat
      /\ \A t \in Thread : call[t] \in SubmitCall
  BY Types, Numbers
<1>a. ASSUME UNCHANGED cpuValue PROVE Grow
  BY <1>0, <1>a
<1>1. ASSUME NEW t \in Thread,
             AskForCommandBuffer(t) \/ SubmitTrack(t) \/ SubmitExecute(t) \/ SubmitSnapshot(t) \/ SubmitSignal(t)
             \/ TakeCommandBuffer(t) \/ (\E c \in held[t] : RestoreCommandBuffer(t, c))
      PROVE  Grow /\ Seen
  <2>1. UNCHANGED cpuValue
    BY <1>1 DEF AskForCommandBuffer, TakeCommandBuffer, SubmitTrack, SubmitExecute, SubmitSnapshot,
                SubmitSignal, RestoreCommandBuffer
  <2>2. \A u \in Thread : u # t => call'[u] = call[u]
    BY <1>0, <1>1 DEF AskForCommandBuffer, TakeCommandBuffer, SubmitTrack, SubmitExecute, SubmitSnapshot,
                      SubmitSignal, RestoreCommandBuffer
  <2>3. call'[t].snapshot \in {call[t].snapshot, cpuValue, Idle.snapshot}
    <3>1. CASE AskForCommandBuffer(t) \/ SubmitTrack(t) \/ SubmitExecute(t)
      BY <1>0, <3>1 DEF AskForCommandBuffer, SubmitTrack, SubmitExecute, SubmitCall
    <3>2. CASE SubmitSnapshot(t)
      BY <1>0, <3>2 DEF SubmitSnapshot, SubmitCall
    <3>3. CASE SubmitSignal(t)
      BY <1>0, <3>3 DEF SubmitSignal, SubmitCall
    <3>4. CASE TakeCommandBuffer(t) \/ \E c \in held[t] : RestoreCommandBuffer(t, c)
      BY <1>0, <3>4 DEF TakeCommandBuffer, RestoreCommandBuffer
    <3> QED
      BY <1>1, <3>1, <3>2, <3>3, <3>4
  <2> QED
    BY <1>a, <2>1, <2>2, <2>3
<1>2. ASSUME NEW t \in Thread, SubmitNumber(t) PROVE Grow /\ Seen
  <2>1. QueueOf[t] \in Queue /\ cpuValue' = [cpuValue EXCEPT ![QueueOf[t]] = @ + 1]
    BY <1>2, Types DEF SubmitNumber
  <2>2. Grow
    BY <1>0, <2>1
  <2>3. [Idle EXCEPT !.stage = "numbered", !.value = cpuValue[QueueOf[t]] + 1].snapshot = Idle.snapshot
    BY DEF Idle
  <2>4. Seen
    BY <1>0, <1>2, <2>3 DEF SubmitNumber
  <2> QED
    BY <2>2, <2>4
<1>3. ASSUME UNCHANGED <<cpuValue, call>> PROVE Grow /\ Seen
  BY <1>a, <1>3
<1>4. ASSUME NEW t \in Thread, NEW c \in held[t], NEW r \in Resource, Record(t, c, r) \/ RecordScratch(t, c, r)
      PROVE  Grow /\ Seen
  BY <1>3, <1>4 DEF Record, RecordScratch
<1>5. ASSUME NEW q \in Queue, GpuStep(q) PROVE Grow /\ Seen
  BY <1>3, <1>5 DEF GpuStep
<1>6. ASSUME NEW r \in Resource, TryEnqueueDestroyDeferred(r) \/ DestroyImmediately(r) PROVE Grow /\ Seen
  BY <1>3, <1>6 DEF TryEnqueueDestroyDeferred, DestroyImmediately
<1>7. ASSUME GcBegin \/ GcStep PROVE Grow /\ Seen
  BY <1>3, <1>7 DEF GcBegin, GcStep, GcSubmit, GcSubmitsDone, GcDelete, GcDeletesDone, GcDrain, GcEnd
<1>8. ASSUME DtorWaitIdle \/ DtorEnd \/ UNCHANGED vars PROVE Grow /\ Seen
  BY <1>3, <1>8 DEF DtorWaitIdle, DtorEnd, vars
<1> HIDE DEF Grow, Seen
<1>9. Grow /\ Seen
  BY <1>1, <1>2, <1>4, <1>5, <1>6, <1>7, <1>8 DEF Next, SubmitStep, Terminated
<1> QED
  BY <1>9 DEF Grow, Seen

(* Snapshots go on growing along the deferred deletes, and what the        *)
(* collector has passed stays unready.                                     *)
LEMMA SnapshotStep ==
  ASSUME IInv, TypeOK', SnapshotInv, [Next]_vars
  PROVE  SnapshotInv'
<1> USE DEF submitVars, listVars, lifeVars, gcVars
<1> DEFINE dd == deferredDeletes
           Bounded == \A i \in 1 .. Len(dd') : \A q \in Queue : dd'[i].snapshot[q] <= cpuValue'[q]
           Grows == \A i, j \in 1 .. Len(dd') : i <= j /\ dd'[j].resource \notin Scratch =>
                      \A q \in Queue : dd'[i].snapshot[q] <= dd'[j].snapshot[q]
           Passed == gc'.phase = "deletes" => \A i \in 1 .. Len(dd') : i < gc'.at => ~Ready(dd[i])'
<1>0. /\ TypeOK /\ ScratchInv /\ ScanInv
      /\ dd \in Seq(Deleted) /\ Len(dd) \in Nat /\ gc \in Collection /\ gc.at \in Nat
      /\ \A q \in Queue : cpuValue[q] \in Nat
      /\ \A i \in 1 .. Len(dd) : \A q \in Queue : dd[i].snapshot[q] \in Nat
      /\ \A t \in Thread : \A q \in Queue : call[t].snapshot[q] \in Nat
  <2>1. TypeOK /\ ScratchInv /\ ScanInv
    BY DEF IInv
  <2>2. \A t \in Thread : \A q \in Queue : call[t].snapshot[q] \in Nat
    BY <2>1, Types, Numbers
  <2> QED
    BY <2>1, <2>2, Types, Numbers, GcCounts
<1>1. /\ \A q \in Queue : cpuValue[q] <= cpuValue'[q] /\ cpuValue'[q] \in Nat
      /\ \A t \in Thread : \A q \in Queue : call'[t].snapshot[q] <= cpuValue'[q]
  <2>1. \A q \in Queue : cpuValue'[q] \in Nat
    BY BoundAssumption DEF TypeOK, Value
  <2>2. \A q \in Queue : cpuValue[q] <= cpuValue'[q]
    BY <1>0, ValuesGrow
  <2>3. ASSUME NEW t \in Thread, NEW q \in Queue PROVE call'[t].snapshot[q] <= cpuValue'[q]
    <3>1. call'[t].snapshot \in {call[t].snapshot, cpuValue, Idle.snapshot}
      BY <1>0, ValuesGrow
    <3>2. call[t].snapshot[q] <= cpuValue[q]
      BY DEF SnapshotInv
    <3>3. Idle.snapshot[q] = 0
      BY DEF Idle
    <3> QED
      BY <1>0, <2>1, <2>2, <3>1, <3>2, <3>3
  <2> QED
    BY <2>1, <2>2, <2>3
<1>a. ASSUME UNCHANGED deferredDeletes, gc'.phase # "deletes" \/ UNCHANGED <<gc, oldest>> \/ gc'.at = 1
      PROVE  Bounded /\ Grows /\ Passed
  <2>1. Bounded
    <3>1. \A i \in 1 .. Len(dd) : \A q \in Queue : dd[i].snapshot[q] <= cpuValue[q]
      BY DEF SnapshotInv
    <3> QED
      BY <1>0, <1>1, <1>a, <3>1
  <2>2. Grows
    BY <1>a DEF SnapshotInv
  <2>3. Passed
    <3>1. CASE UNCHANGED <<gc, oldest>>
      BY <1>a, <3>1 DEF SnapshotInv, Ready
    <3>2. CASE gc'.at = 1
      BY <1>0, <1>a, <3>2
    <3> QED
      BY <1>a, <3>1, <3>2
  <2> QED
    BY <2>1, <2>2, <2>3
<1>2. ASSUME NEW t \in Thread, NEW c \in held[t], RestoreCommandBuffer(t, c) PROVE Bounded /\ Grows /\ Passed
  <2> DEFINE z == Relinquished(t, c)
  <2>1. /\ z \in Seq(Deleted) /\ Len(z) \in Nat
        /\ \A i \in 1 .. Len(z) : z[i].resource \in content[c].scratch /\ z[i].snapshot = call[t].snapshot
    BY <1>0, RelinquishedElements
  <2>2. dd' = dd \o z /\ gc'.phase = "idle"
    BY <1>2 DEF RestoreCommandBuffer, Relinquished, SharedAccess
  <2> HIDE DEF z
  <2>3. content[c].scratch \subseteq Scratch
    <3>1. content[c] \in Recorded
      BY <1>0, Types, ElementOfSeq
    <3> QED
      BY <3>1 DEF Recorded
  <2>4. \A i \in 1 .. Len(dd') :
          \/ i \in 1 .. Len(dd) /\ dd'[i] = dd[i]
          \/ dd'[i].resource \in Scratch /\ dd'[i].snapshot = call[t].snapshot /\ i - Len(dd) \in 1 .. Len(z)
    <3>1. \A i \in 1 .. Len(dd') :
            \/ i \in 1 .. Len(dd) /\ dd'[i] = dd[i]
            \/ i - Len(dd) \in 1 .. Len(z) /\ dd'[i] = z[i - Len(dd)]
      BY <1>0, <2>1, <2>2, ConcatElements
    <3> QED
      BY <2>1, <2>3, <3>1
  <2>5. Bounded
    <3> SUFFICES ASSUME NEW i \in 1 .. Len(dd'), NEW q \in Queue PROVE dd'[i].snapshot[q] <= cpuValue'[q]
      OBVIOUS
    <3>1. i \in 1 .. Len(dd) => dd[i].snapshot[q] <= cpuValue[q] /\ dd[i].snapshot[q] \in Nat
      BY <1>0 DEF SnapshotInv
    <3>2. call[t].snapshot[q] <= cpuValue[q] /\ call[t].snapshot[q] \in Nat
      BY <1>0 DEF SnapshotInv
    <3> QED
      BY <1>0, <1>1, <2>4, <3>1, <3>2
  <2>6. Grows
    <3> SUFFICES ASSUME NEW i \in 1 .. Len(dd'), NEW j \in 1 .. Len(dd'), i <= j, dd'[j].resource \notin Scratch,
                        NEW q \in Queue
                 PROVE  dd'[i].snapshot[q] <= dd'[j].snapshot[q]
      OBVIOUS
    <3>1. j \in 1 .. Len(dd) /\ dd'[j] = dd[j]
      BY <2>4
    <3>2. i \in 1 .. Len(dd)
      BY <1>0, <3>1
    <3>3. dd'[i] = dd[i]
      BY <1>0, <2>1, <2>4, <3>2
    <3> QED
      BY <3>1, <3>2, <3>3 DEF SnapshotInv
  <2> QED
    BY <2>2, <2>5, <2>6
<1>3. ASSUME GcDelete PROVE Bounded /\ Grows /\ Passed
  <2>1. PICK k \in 1 .. Len(dd) : k = gc.at
    BY <1>0, <1>3, FirstOn DEF GcDelete
  <2>2. gc.phase = "deletes" /\ UNCHANGED <<cpuValue, oldest>>
    BY <1>3 DEF GcDelete
  <2>3. CASE dd' = RemoveAt(dd, k) /\ UNCHANGED gc
    <3>1. PICK f \in [1 .. Len(dd') -> 1 .. Len(dd)] :
            /\ \A j \in 1 .. Len(dd') : f[j] # k /\ dd'[j] = dd[f[j]]
            /\ \A i, j \in 1 .. Len(dd') : i < j => f[i] < f[j]
            /\ \A i, j \in 1 .. Len(dd') : f[i] = f[j] => i = j
      BY <1>0, <2>3, RemoveAtPlaces
    <3>2. Bounded
      BY <2>2, <3>1 DEF SnapshotInv
    <3>3. Grows
      <4> SUFFICES ASSUME NEW i \in 1 .. Len(dd'), NEW j \in 1 .. Len(dd'), i <= j, dd'[j].resource \notin Scratch,
                          NEW q \in Queue
                   PROVE  dd'[i].snapshot[q] <= dd'[j].snapshot[q]
        OBVIOUS
      <4>1. f[i] \in 1 .. Len(dd) /\ f[j] \in 1 .. Len(dd)
        BY <3>1
      <4>2. f[i] <= f[j]
        <5>1. i < j \/ i = j
          OBVIOUS
        <5> QED
          BY <3>1, <4>1, <5>1
      <4> QED
        BY <3>1, <4>1, <4>2 DEF SnapshotInv
    <3>4. Passed
      <4>1. /\ Len(dd') = Len(dd) - 1
            /\ \A j \in 1 .. Len(dd) - 1 : j < k => dd'[j] = dd[j]
        BY <1>0, <2>3, RemoveAtProperties
      <4>2. ASSUME NEW i \in 1 .. Len(dd'), i < gc'.at PROVE ~Ready(dd[i])'
        <5>1. i \in 1 .. Len(dd) /\ dd'[i] = dd[i] /\ ~Ready(dd[i])
          BY <1>0, <2>1, <2>2, <2>3, <4>1, <4>2 DEF SnapshotInv
        <5> QED
          BY <2>2, <5>1 DEF Ready
      <4> QED
        BY <4>2
    <3> QED
      BY <3>2, <3>3, <3>4
  <2>4. CASE ~Ready(dd[k]) /\ gc' = [gc EXCEPT !.at = @ + 1] /\ UNCHANGED deferredDeletes
    <3>1. gc'.at = k + 1
      BY <1>0, <2>1, <2>4 DEF Collection
    <3>2. \A i \in 1 .. Len(dd) : i < k + 1 => i < k \/ i = k
      OBVIOUS
    <3>3. \A i \in 1 .. Len(dd) : i < k + 1 => ~Ready(dd[i])
      BY <2>1, <2>2, <2>4, <3>2 DEF SnapshotInv
    <3> QED
      BY <2>2, <2>4, <3>1, <3>3 DEF SnapshotInv, Ready
  <2> QED
    BY <1>3, <2>1, <2>3, <2>4 DEF GcDelete
<1>4. ASSUME GcDrain PROVE Bounded /\ Grows /\ Passed
  <2>1. PICK z : z = [resource |-> Head(onDestroy), snapshot |-> cpuValue]
    OBVIOUS
  <2>2. dd' = Append(dd, z) /\ z.snapshot = cpuValue /\ UNCHANGED cpuValue
    BY <1>4, <2>1 DEF GcDrain
  <2>3. z \in Deleted
    <3>1. onDestroy # <<>>
      BY <1>0, <1>4, GcCounts DEF GcDrain
    <3>2. Head(onDestroy) \in Resource /\ cpuValue \in [Queue -> Value]
      BY <1>0, <3>1, Types
    <3> QED
      BY <2>1, <3>2 DEF Deleted
  <2>4. /\ Len(dd') = Len(dd) + 1
        /\ \A i \in 1 .. Len(dd') : \/ i \in 1 .. Len(dd) /\ dd'[i] = dd[i]
                                    \/ i = Len(dd) + 1 /\ dd'[i] = z
    BY <1>0, <2>2, <2>3, AppendElements
  <2>5. Bounded
    <3>1. \A q \in Queue : cpuValue[q] <= cpuValue[q]
      BY <1>0
    <3> QED
      BY <2>2, <2>4, <3>1 DEF SnapshotInv
  <2>6. Grows
    <3> SUFFICES ASSUME NEW i \in 1 .. Len(dd'), NEW j \in 1 .. Len(dd'), i <= j, dd'[j].resource \notin Scratch,
                        NEW q \in Queue
                 PROVE  dd'[i].snapshot[q] <= dd'[j].snapshot[q]
      OBVIOUS
    <3>1. CASE dd'[j] = z
      BY <2>2, <2>5, <3>1
    <3>2. CASE j \in 1 .. Len(dd) /\ dd'[j] = dd[j]
      <4>1. i \in 1 .. Len(dd) /\ dd'[i] = dd[i]
        BY <1>0, <2>4, <3>2
      <4> QED
        BY <3>2, <4>1 DEF SnapshotInv
    <3> QED
      BY <2>4, <3>1, <3>2
  <2>7. gc'.phase # "deletes"
    BY <1>0, <1>4 DEF GcDrain, Collection
  <2> QED
    BY <2>5, <2>6, <2>7
<1>5. ASSUME NEW t \in Thread,
             AskForCommandBuffer(t) \/ TakeCommandBuffer(t) \/ SubmitNumber(t) \/ SubmitTrack(t)
             \/ SubmitExecute(t) \/ SubmitSnapshot(t) \/ SubmitSignal(t)
      PROVE  Bounded /\ Grows /\ Passed
  BY <1>a, <1>5 DEF AskForCommandBuffer, TakeCommandBuffer, SubmitNumber, SubmitTrack, SubmitExecute,
                    SubmitSnapshot, SubmitSignal
<1>6. ASSUME NEW t \in Thread, NEW c \in held[t], NEW r \in Resource, Record(t, c, r) \/ RecordScratch(t, c, r)
      PROVE  Bounded /\ Grows /\ Passed
  BY <1>a, <1>6 DEF Record, RecordScratch
<1>7. ASSUME NEW q \in Queue, GpuStep(q) PROVE Bounded /\ Grows /\ Passed
  BY <1>a, <1>7 DEF GpuStep
<1>8. ASSUME NEW r \in Resource, TryEnqueueDestroyDeferred(r) \/ DestroyImmediately(r)
      PROVE  Bounded /\ Grows /\ Passed
  BY <1>a, <1>8 DEF TryEnqueueDestroyDeferred, DestroyImmediately
<1>9. ASSUME GcBegin \/ GcSubmit \/ GcSubmitsDone \/ GcDeletesDone \/ GcEnd PROVE Bounded /\ Grows /\ Passed
  <2>1. UNCHANGED deferredDeletes
    BY <1>9 DEF GcBegin, GcSubmit, GcSubmitsDone, GcDeletesDone, GcEnd
  <2>2. gc'.phase # "deletes" \/ gc'.at = 1
    <3>1. CASE GcBegin \/ GcDeletesDone \/ GcEnd
      BY <3>1 DEF GcBegin, GcDeletesDone, GcEnd, GcIdle
    <3>2. CASE GcSubmit
      BY <1>0, <3>2 DEF GcSubmit, Collection
    <3>3. CASE GcSubmitsDone
      BY <1>0, <3>3 DEF GcSubmitsDone, Collection
    <3> QED
      BY <1>9, <3>1, <3>2, <3>3
  <2> QED
    BY <1>a, <2>1, <2>2
<1>10. ASSUME DtorWaitIdle \/ DtorEnd \/ UNCHANGED vars PROVE Bounded /\ Grows /\ Passed
  BY <1>a, <1>10 DEF DtorWaitIdle, DtorEnd, vars
<1> HIDE DEF Bounded, Grows, Passed
<1>11. Bounded /\ Grows /\ Passed
  BY <1>2, <1>3, <1>4, <1>5, <1>6, <1>7, <1>8, <1>9, <1>10 DEF Next, SubmitStep, GcStep, Terminated
<1> QED
  BY <1>1, <1>11 DEF SnapshotInv, Bounded, Grows, Passed

(* A member that is ahead of its block stays so when another request is    *)
(* pushed (the block only when the member is among the requests)           *)
LEMMA RequestedAppend ==
  ASSUME NEW s \in Seq(Resource), NEW x \in Resource, NEW m, NEW r, RequestedAhead(s, m, r),
         x = r => \E i \in 1 .. Len(s) : s[i] = m
  PROVE  RequestedAhead(Append(s, x), m, r)
<1> DEFINE t == Append(s, x)
<1>1. /\ Len(s) \in Nat /\ Len(t) = Len(s) + 1
      /\ \A i \in 1 .. Len(s) : i \in 1 .. Len(t) /\ t[i] = s[i]
      /\ \A i \in 1 .. Len(t) : \/ i \in 1 .. Len(s) /\ t[i] = s[i]
                                \/ i = Len(s) + 1 /\ t[i] = x
  BY AppendElements
<1> HIDE DEF t
<1> SUFFICES ASSUME NEW j \in 1 .. Len(t), t[j] = r
             PROVE  \E i \in 1 .. Len(t) : i < j /\ t[i] = m
  BY DEF RequestedAhead, t
<1>2. PICK i \in 1 .. Len(s) : i < j /\ s[i] = m
  <2>1. CASE j \in 1 .. Len(s) /\ t[j] = s[j]
    BY <2>1 DEF RequestedAhead
  <2>2. CASE j = Len(s) + 1 /\ t[j] = x
    BY <1>1, <2>2
  <2> QED
    BY <1>1, <2>1, <2>2
<1> QED
  BY <1>1, <1>2

(* and when another one is popped;                                         *)
LEMMA RequestedTail ==
  ASSUME NEW s \in Seq(Resource), s # <<>>, NEW m, NEW r, RequestedAhead(s, m, r), s[1] # m
  PROVE  RequestedAhead(Tail(s), m, r)
<1> DEFINE t == Tail(s)
<1>1. /\ Len(s) \in Nat
      /\ \A i \in 1 .. Len(t) : i + 1 \in 1 .. Len(s) /\ t[i] = s[i + 1]
      /\ \A i \in 1 .. Len(s) : i # 1 => i - 1 \in 1 .. Len(t) /\ t[i - 1] = s[i]
  BY TailElements
<1> HIDE DEF t
<1> SUFFICES ASSUME NEW j \in 1 .. Len(t), t[j] = r
             PROVE  \E i \in 1 .. Len(t) : i < j /\ t[i] = m
  BY DEF RequestedAhead, t
<1>2. PICK i \in 1 .. Len(s) : i < j + 1 /\ s[i] = m
  BY <1>1 DEF RequestedAhead
<1>3. i - 1 \in 1 .. Len(t) /\ t[i - 1] = m /\ i - 1 < j
  BY <1>1, <1>2
<1> QED
  BY <1>3

(* and so when more are put behind the deferred deletes (the block only    *)
(* when the member is among them),                                         *)
LEMMA DeletedConcat ==
  ASSUME NEW s \in Seq(Deleted), NEW z \in Seq(Deleted), NEW m, NEW r, DeletedAhead(s, m, r),
         (\E k \in 1 .. Len(z) : z[k].resource = r) => \E i \in 1 .. Len(s) : s[i].resource = m
  PROVE  DeletedAhead(s \o z, m, r)
<1> DEFINE t == s \o z
<1>1. /\ Len(s) \in Nat
      /\ \A i \in 1 .. Len(s) : i \in 1 .. Len(t) /\ t[i] = s[i]
      /\ \A i \in 1 .. Len(t) : \/ i \in 1 .. Len(s) /\ t[i] = s[i]
                                \/ i - Len(s) \in 1 .. Len(z) /\ t[i] = z[i - Len(s)]
  BY ConcatElements, LenProperties
<1> HIDE DEF t
<1> SUFFICES ASSUME NEW j \in 1 .. Len(t), t[j].resource = r
             PROVE  \E i \in 1 .. Len(t) : i < j /\ t[i].resource = m
  BY DEF DeletedAhead, t
<1>2. PICK i \in 1 .. Len(s) : i < j /\ s[i].resource = m
  <2>1. CASE j \in 1 .. Len(s) /\ t[j] = s[j]
    BY <2>1 DEF DeletedAhead
  <2>2. CASE j - Len(s) \in 1 .. Len(z) /\ t[j] = z[j - Len(s)]
    <3>1. PICK i \in 1 .. Len(s) : s[i].resource = m
      BY <2>2
    <3>2. i < j
      BY <1>1, <2>2
    <3> QED
      BY <3>1, <3>2
  <2> QED
    BY <1>1, <2>1, <2>2
<1> QED
  BY <1>1, <1>2

LEMMA DeletedAppend ==
  ASSUME NEW s \in Seq(Deleted), NEW z \in Deleted, NEW m, NEW r, DeletedAhead(s, m, r),
         z.resource = r => \E i \in 1 .. Len(s) : s[i].resource = m
  PROVE  DeletedAhead(Append(s, z), m, r)
<1> DEFINE t == Append(s, z)
<1>1. /\ Len(s) \in Nat /\ Len(t) = Len(s) + 1
      /\ \A i \in 1 .. Len(s) : i \in 1 .. Len(t) /\ t[i] = s[i]
      /\ \A i \in 1 .. Len(t) : \/ i \in 1 .. Len(s) /\ t[i] = s[i]
                                \/ i = Len(s) + 1 /\ t[i] = z
  BY AppendElements
<1> HIDE DEF t
<1> SUFFICES ASSUME NEW j \in 1 .. Len(t), t[j].resource = r
             PROVE  \E i \in 1 .. Len(t) : i < j /\ t[i].resource = m
  BY DEF DeletedAhead, t
<1>2. PICK i \in 1 .. Len(s) : i < j /\ s[i].resource = m
  <2>1. CASE j \in 1 .. Len(s) /\ t[j] = s[j]
    BY <2>1 DEF DeletedAhead
  <2>2. CASE j = Len(s) + 1 /\ t[j] = z
    <3>1. PICK i \in 1 .. Len(s) : s[i].resource = m
      BY <2>2
    <3> QED
      BY <1>1, <2>2, <3>1
  <2> QED
    BY <1>1, <2>1, <2>2
<1> QED
  BY <1>1, <1>2

(* or another one is erased.                                               *)
LEMMA DeletedRemoveAt ==
  ASSUME NEW s \in Seq(Deleted), NEW k \in 1 .. Len(s), NEW m, NEW r, DeletedAhead(s, m, r),
         s[k].resource # m
  PROVE  DeletedAhead(RemoveAt(s, k), m, r)
<1> DEFINE t == RemoveAt(s, k)
<1> SUFFICES ASSUME NEW j \in 1 .. Len(t), t[j].resource = r
             PROVE  \E n \in 1 .. Len(t) : n < j /\ t[n].resource = m
  BY DEF DeletedAhead
<1>1. PICK l \in 1 .. Len(s) :
        /\ l # k /\ t[j] = s[l]
        /\ \A i \in 1 .. Len(s) : i < l /\ i # k => \E n \in 1 .. Len(t) : n < j /\ t[n] = s[i]
  BY RemoveAtAhead
<1> HIDE DEF t
<1>2. PICK i \in 1 .. Len(s) : i < l /\ s[i].resource = m
  BY <1>1 DEF DeletedAhead
<1>3. PICK n \in 1 .. Len(t) : n < j /\ t[n] = s[i]
  BY <1>1, <1>2
<1> QED
  BY <1>2, <1>3

(* A memory block is condemned, becomes a zombie and is destroyed after    *)
(* the resources placed in it: the requests are carried out in order, and  *)
(* a member's snapshot is not above its block's.                           *)
LEMMA BlockStep ==
  ASSUME OrderInv, [Next]_vars
  PROVE  BlockInv' /\ MembersBeforeBlock'
<1> USE DEF submitVars, listVars, lifeVars, gcVars
<1> DEFINE dd == deferredDeletes
           d == onDestroy
           Life == {"live", "deferred", "zombie", "destroyed"}
           Goal == BlockInv' /\ MembersBeforeBlock'
<1>0. /\ TypeOK /\ CondemnedInv /\ SnapshotInv /\ BlockInv /\ MembersBeforeBlock /\ ScratchInv /\ ScanInv
      /\ dd \in Seq(Deleted) /\ Len(dd) \in Nat
      /\ d \in Seq(Resource) /\ Len(d) \in Nat
      /\ life \in [Resource -> Life]
      /\ \A r \in Resource : Members[r] \subseteq Resource
      /\ \A r \in Scratch : Members[r] = {}
  <2>1. TypeOK /\ CondemnedInv /\ SnapshotInv /\ BlockInv /\ MembersBeforeBlock /\ ScratchInv /\ ScanInv
    BY DEF OrderInv, IInv
  <2>2. life \in [Resource -> Life]
    BY <2>1 DEF TypeOK
  <2> QED
    BY <2>1, <2>2, Types, LenProperties, MembersAssumption
<1>a. ASSUME UNCHANGED <<life, onDestroy, deferredDeletes>> PROVE Goal
  BY <1>0, <1>a DEF BlockInv, MembersBeforeBlock, RequestedAhead, DeletedAhead
<1>1. ASSUME NEW x \in Resource, TryEnqueueDestroyDeferred(x) PROVE Goal
  <2>1. /\ life[x] = "live" /\ \A m \in Members[x] : life[m] # "live"
        /\ d' = Append(d, x) /\ UNCHANGED deferredDeletes
        /\ life' = [life EXCEPT ![x] = "deferred"]
    BY <1>1 DEF TryEnqueueDestroyDeferred, MayGiveUp
  <2>2. life'[x] = "deferred" /\ \A r \in Resource : r # x => life'[r] = life[r]
    BY <1>0, <2>1
  <2>3. /\ Len(d') = Len(d) + 1 /\ d'[Len(d) + 1] = x
        /\ \A i \in 1 .. Len(d) : i \in 1 .. Len(d') /\ d'[i] = d[i]
    BY <1>0, <2>1, AppendElements, AppendProperties
  <2>4. ASSUME NEW r \in Resource, life'[r] = "deferred"
        PROVE  \E i \in 1 .. Len(d') : d'[i] = r
    <3>1. CASE r = x
      <4>1. Len(d) + 1 \in 1 .. Len(d') /\ d'[Len(d) + 1] = r
        BY <1>0, <2>3, <3>1
      <4> QED
        BY <4>1
    <3>2. CASE r # x
      <4>1. PICK i \in 1 .. Len(d) : d[i] = r
        BY <1>0, <2>2, <2>4, <3>2 DEF BlockInv
      <4> QED
        BY <2>3, <4>1
    <3> QED
      BY <3>1, <3>2
  <2>5. ASSUME NEW r \in Resource, NEW m \in Members[r], life'[m] = "deferred"
        PROVE  RequestedAhead(d', m, r)
    <3>1. m \in Resource
      BY <1>0
    <3>2. CASE m = x
      <4>1. x # r /\ \A j \in 1 .. Len(d) : d[j] # r
        BY <1>0, <2>1, <3>2 DEF BlockInv, CondemnedInv
      <4>2. RequestedAhead(d, m, r)
        BY <4>1 DEF RequestedAhead
      <4> QED
        BY <1>0, <2>1, <4>1, <4>2, RequestedAppend
    <3>3. CASE m # x
      <4>1. life[m] = "deferred"
        BY <2>2, <2>5, <3>1, <3>3
      <4>2. RequestedAhead(d, m, r) /\ \E i \in 1 .. Len(d) : d[i] = m
        BY <1>0, <3>1, <4>1 DEF BlockInv
      <4> QED
        BY <1>0, <2>1, <4>2, RequestedAppend
    <3> QED
      BY <3>2, <3>3
  <2>6. ASSUME NEW r \in Resource, NEW m \in Members[r]
        PROVE  /\ life'[r] # "live" => life'[m] # "live"
               /\ life'[r] \in {"zombie", "destroyed"} => life'[m] \in {"zombie", "destroyed"}
               /\ life'[m] = "zombie" => DeletedAhead(dd, m, r)
               /\ life'[r] = "destroyed" => life'[m] = "destroyed"
    BY <1>0, <2>1, <2>2 DEF BlockInv, MembersBeforeBlock
  <2>7. \A r \in Resource : life'[r] = "zombie" => \E i \in 1 .. Len(dd) : dd[i].resource = r
    BY <1>0, <2>2 DEF BlockInv
  <2> QED
    BY <2>1, <2>4, <2>5, <2>6, <2>7 DEF BlockInv, MembersBeforeBlock
<1>2. ASSUME NEW x \in Resource, DestroyImmediately(x) PROVE Goal
  <2>1. /\ life[x] = "live" /\ \A m \in Members[x] : life[m] = "destroyed"
        /\ UNCHANGED <<onDestroy, deferredDeletes>>
        /\ life' = [life EXCEPT ![x] = "destroyed"]
    BY <1>2 DEF DestroyImmediately, MayGiveUp
  <2>2. life'[x] = "destroyed" /\ \A r \in Resource : r # x => life'[r] = life[r]
    BY <1>0, <2>1
  <2>3. ASSUME NEW r \in Resource, NEW m \in Members[r]
        PROVE  /\ life'[r] # "live" => life'[m] # "live"
               /\ life'[r] \in {"zombie", "destroyed"} => life'[m] \in {"zombie", "destroyed"}
               /\ life'[r] = "destroyed" => life'[m] = "destroyed"
               /\ life'[m] = "deferred" => RequestedAhead(d, m, r)
               /\ life'[m] = "zombie" => DeletedAhead(dd, m, r)
    BY <1>0, <2>1, <2>2 DEF BlockInv, MembersBeforeBlock
  <2>4. /\ \A r \in Resource : life'[r] = "deferred" => \E i \in 1 .. Len(d) : d[i] = r
        /\ \A r \in Resource : life'[r] = "zombie" => \E i \in 1 .. Len(dd) : dd[i].resource = r
    BY <1>0, <2>2 DEF BlockInv
  <2> QED
    BY <2>1, <2>3, <2>4 DEF BlockInv, MembersBeforeBlock
<1>3. ASSUME NEW t \in Thread, NEW c \in held[t], RestoreCommandBuffer(t, c) PROVE Goal
  <2> DEFINE S == content[c].scratch
             z == Relinquished(t, c)
  <2>1. /\ z \in Seq(Deleted) /\ Len(z) \in Nat
        /\ \A i \in 1 .. Len(z) : z[i].resource \in S
        /\ \A r \in S : \E i \in 1 .. Len(z) : z[i].resource = r
    BY <1>0, RelinquishedElements
  <2>2. /\ dd' = dd \o z /\ UNCHANGED onDestroy
        /\ life' = [r \in Resource |-> IF r \in S THEN "zombie" ELSE life[r]]
    BY <1>3 DEF RestoreCommandBuffer, Relinquished
  <2> HIDE DEF z
  <2>3. S \subseteq Scratch /\ \A r \in S : life[r] = "live"
    <3>1. c \in 1 .. Len(content) /\ content[c] \in Recorded
      BY <1>0, Types, ElementOfSeq
    <3> QED
      BY <1>0, <3>1 DEF Recorded, ScratchInv
  <2> HIDE DEF S
  <2>4. \A r \in Resource : life'[r] = IF r \in S THEN "zombie" ELSE life[r]
    BY <2>2
  <2>5. Len(dd') = Len(dd) + Len(z) /\ \A i \in 1 .. Len(dd) : i \in 1 .. Len(dd') /\ dd'[i] = dd[i]
    BY <1>0, <2>1, <2>2, ConcatElements
  <2>6. ASSUME NEW r \in Resource, life'[r] = "zombie" PROVE \E i \in 1 .. Len(dd') : dd'[i].resource = r
    <3>1. CASE r \in S
      <4>1. PICK i \in 1 .. Len(z) : z[i].resource = r
        BY <2>1, <3>1
      <4>2. Len(dd) + i \in 1 .. Len(dd') /\ dd'[Len(dd) + i] = z[i]
        <5>1. Len(dd) + i \in 1 .. Len(dd')
          BY <1>0, <2>1, <2>5
        <5>2. Len(dd) + i \notin 1 .. Len(dd) /\ Len(dd) + i - Len(dd) = i
          BY <1>0, <2>1
        <5> QED
          BY <1>0, <2>1, <2>2, <5>1, <5>2, ConcatElements
      <4> QED
        BY <4>1, <4>2
    <3>2. CASE r \notin S
      <4>1. PICK i \in 1 .. Len(dd) : dd[i].resource = r
        BY <1>0, <2>4, <2>6, <3>2 DEF BlockInv
      <4> QED
        BY <2>5, <4>1
    <3> QED
      BY <3>1, <3>2
  <2>7. ASSUME NEW r \in Resource, NEW m \in Members[r]
        PROVE  /\ life'[r] # "live" => life'[m] # "live"
               /\ life'[r] \in {"zombie", "destroyed"} => life'[m] \in {"zombie", "destroyed"}
               /\ life'[r] = "destroyed" => life'[m] = "destroyed"
               /\ life'[m] = "deferred" => RequestedAhead(d, m, r)
               /\ life'[m] = "zombie" => DeletedAhead(dd', m, r)
    <3>1. m \in Resource /\ r \notin S /\ life'[r] = life[r]
      BY <1>0, <2>3, <2>4
    <3>2. ASSUME life'[m] = "zombie" PROVE DeletedAhead(dd', m, r)
      <4>1. DeletedAhead(dd, m, r)
        <5>1. CASE m \in S
          <6>1. life[r] = "live"
            BY <1>0, <2>3, <5>1 DEF BlockInv
          <6> QED
            BY <1>0, <6>1 DEF DeletedAhead, CondemnedInv
        <5>2. CASE m \notin S
          BY <1>0, <2>4, <3>1, <3>2, <5>2 DEF BlockInv
        <5> QED
          BY <5>1, <5>2
      <4>2. \A k \in 1 .. Len(z) : z[k].resource # r
        BY <2>1, <3>1
      <4> QED
        BY <1>0, <2>1, <2>2, <4>1, <4>2, DeletedConcat
    <3>3. CASE m \in S
      <4>1. life[r] = "live" /\ life'[m] = "zombie"
        BY <1>0, <2>3, <2>4, <3>1, <3>3 DEF BlockInv
      <4> QED
        BY <3>1, <3>2, <4>1
    <3>4. CASE m \notin S
      <4>1. life'[m] = life[m]
        BY <2>4, <3>1, <3>4
      <4> QED
        BY <1>0, <3>1, <3>2, <4>1 DEF BlockInv, MembersBeforeBlock
    <3> QED
      BY <3>3, <3>4
  <2>8. \A r \in Resource : life'[r] = "deferred" => \E i \in 1 .. Len(d) : d[i] = r
    BY <1>0, <2>4 DEF BlockInv
  <2> QED
    BY <2>2, <2>6, <2>7, <2>8 DEF BlockInv, MembersBeforeBlock
<1>4. ASSUME GcDelete PROVE Goal
  <2>1. PICK k \in 1 .. Len(dd) : k = gc.at
    BY <1>0, <1>4, FirstOn DEF GcDelete
  <2>2. PICK x \in Resource : x = dd[k].resource
    <3>1. dd[k] \in Deleted
      BY <1>0, <2>1, ElementOfSeq
    <3> QED
      BY <3>1 DEF Deleted
  <2>3. life[x] = "zombie" /\ gc.phase = "deletes" /\ UNCHANGED onDestroy
    BY <1>0, <1>4, <2>1, <2>2 DEF GcDelete, CondemnedInv
  <2>4. CASE /\ Ready(dd[k]) /\ life' = [life EXCEPT ![x] = "destroyed"]
             /\ dd' = RemoveAt(dd, k)
    <3>1. life'[x] = "destroyed" /\ \A r \in Resource : r # x => life'[r] = life[r]
      BY <1>0, <2>4
    <3>2. ASSUME NEW m \in Members[x] PROVE life'[m] = "destroyed"
      <4>1. m \in Resource /\ life[m] \in {"zombie", "destroyed"} /\ x \notin Scratch
        BY <1>0, <2>3 DEF BlockInv
      <4>2. ASSUME life[m] = "zombie" PROVE FALSE
        <5>1. DeletedAhead(dd, m, x)
          BY <1>0, <4>2 DEF BlockInv
        <5>2. PICK i \in 1 .. Len(dd) : i < k /\ dd[i].resource = m
          BY <2>2, <5>1 DEF DeletedAhead
        <5>3. ~Ready(dd[i])
          BY <1>0, <2>1, <2>3, <5>2 DEF SnapshotInv
        <5>4. i <= k
          BY <5>2
        <5>5. \A q \in Queue : dd[i].snapshot[q] <= dd[k].snapshot[q]
          BY <1>0, <2>2, <4>1, <5>4 DEF SnapshotInv
        <5>6. ASSUME NEW q \in Queue PROVE oldest[q] > dd[i].snapshot[q]
          <6>1. oldest[q] \in Nat /\ dd[i].snapshot[q] \in Nat /\ dd[k].snapshot[q] \in Nat
            <7>1. Never \in Nat /\ oldest \in [Queue -> 0 .. Never]
              BY <1>0, Types DEF TypeOK
            <7> QED
              BY <1>0, <7>1, Numbers
          <6>2. oldest[q] > dd[k].snapshot[q]
            BY <2>4 DEF Ready
          <6> QED
            BY <5>5, <6>1, <6>2
        <5> QED
          BY <5>3, <5>6 DEF Ready
      <4> QED
        BY <3>1, <4>1, <4>2
    <3>3. ASSUME NEW r \in Resource, life'[r] = "zombie" PROVE \E i \in 1 .. Len(dd') : dd'[i].resource = r
      <4>1. PICK i \in 1 .. Len(dd) : dd[i].resource = r /\ i # k
        BY <1>0, <2>2, <3>1, <3>3 DEF BlockInv
      <4>2. \E j \in 1 .. Len(RemoveAt(dd, k)) : RemoveAt(dd, k)[j] = dd[i]
        BY <1>0, <4>1, RemoveAtElements
      <4> QED
        BY <2>4, <4>1, <4>2
    <3>4. ASSUME NEW r \in Resource, NEW m \in Members[r], life'[m] = "zombie" PROVE DeletedAhead(dd', m, r)
      <4>1. m # x /\ m \in Resource /\ DeletedAhead(dd, m, r)
        BY <1>0, <3>1, <3>4 DEF BlockInv
      <4> QED
        BY <1>0, <2>2, <2>4, <4>1, DeletedRemoveAt
    <3>5. ASSUME NEW r \in Resource, NEW m \in Members[r]
          PROVE  /\ life'[r] # "live" => life'[m] # "live"
                 /\ life'[r] \in {"zombie", "destroyed"} => life'[m] \in {"zombie", "destroyed"}
                 /\ life'[r] = "destroyed" => life'[m] = "destroyed"
                 /\ life'[m] = "deferred" => RequestedAhead(d, m, r)
      BY <1>0, <2>3, <3>1, <3>2 DEF BlockInv, MembersBeforeBlock
    <3>6. \A r \in Resource : life'[r] = "deferred" => \E i \in 1 .. Len(d) : d[i] = r
      BY <1>0, <2>3, <3>1 DEF BlockInv
    <3> QED
      BY <2>3, <3>3, <3>4, <3>5, <3>6 DEF BlockInv, MembersBeforeBlock
  <2>5. CASE UNCHANGED <<life, deferredDeletes>>
    BY <1>a, <2>3, <2>5
  <2> QED
    BY <1>4, <2>1, <2>2, <2>4, <2>5 DEF GcDelete
<1>5. ASSUME GcDrain PROVE Goal
  <2>1. d # <<>>
    BY <1>0, <1>5, GcCounts DEF GcDrain
  <2>2. PICK x \in Resource : x = Head(d) /\ x = d[1] /\ 1 \in 1 .. Len(d)
    BY <1>0, <2>1, TailElements, ElementOfSeq
  <2>3. PICK z \in Deleted : z = [resource |-> x, snapshot |-> cpuValue]
    BY <1>0, Types DEF Deleted
  <2>4. /\ d' = Tail(d) /\ dd' = Append(dd, z) /\ z.resource = x
        /\ life' = [life EXCEPT ![x] = "zombie"] /\ life[x] = "deferred"
    BY <1>0, <1>5, <2>2, <2>3 DEF GcDrain, CondemnedInv
  <2>5. life'[x] = "zombie" /\ \A r \in Resource : r # x => life'[r] = life[r]
    BY <1>0, <2>4
  <2>6. \A i \in 1 .. Len(d) : i # 1 => i - 1 \in 1 .. Len(d') /\ d'[i - 1] = d[i]
    BY <1>0, <2>1, <2>4, TailElements
  <2>7. /\ Len(dd') = Len(dd) + 1 /\ dd'[Len(dd) + 1] = z
        /\ \A i \in 1 .. Len(dd) : i \in 1 .. Len(dd') /\ dd'[i] = dd[i]
    BY <1>0, <2>4, AppendElements, AppendProperties
  <2>8. ASSUME NEW m \in Members[x] PROVE life[m] \in {"zombie", "destroyed"}
    <3>1. m \in Resource /\ life[m] # "live"
      BY <1>0, <2>4 DEF BlockInv
    <3>2. ASSUME life[m] = "deferred" PROVE FALSE
      <4>1. RequestedAhead(d, m, x)
        BY <1>0, <3>2 DEF BlockInv
      <4>2. PICK i \in 1 .. Len(d) : i < 1
        BY <2>2, <4>1 DEF RequestedAhead
      <4> QED
        BY <1>0, <4>2
    <3> QED
      BY <1>0, <3>1, <3>2
  <2>9. ASSUME NEW r \in Resource, life'[r] = "deferred" PROVE \E i \in 1 .. Len(d') : d'[i] = r
    <3>1. PICK i \in 1 .. Len(d) : d[i] = r /\ i # 1
      BY <1>0, <2>2, <2>5, <2>9 DEF BlockInv
    <3> QED
      BY <2>6, <3>1
  <2>10. ASSUME NEW r \in Resource, life'[r] = "zombie" PROVE \E i \in 1 .. Len(dd') : dd'[i].resource = r
    <3>1. CASE r = x
      <4>1. Len(dd) + 1 \in 1 .. Len(dd')
        BY <1>0, <2>7
      <4> QED
        BY <2>4, <2>7, <3>1, <4>1
    <3>2. CASE r # x
      <4>1. PICK i \in 1 .. Len(dd) : dd[i].resource = r
        BY <1>0, <2>5, <2>10, <3>2 DEF BlockInv
      <4> QED
        BY <2>7, <4>1
    <3> QED
      BY <3>1, <3>2
  <2>11. ASSUME NEW r \in Resource, NEW m \in Members[r], life'[m] = "deferred"
         PROVE  RequestedAhead(d', m, r)
    <3>1. m # x /\ m \in Resource /\ RequestedAhead(d, m, r)
      BY <1>0, <2>5, <2>11 DEF BlockInv
    <3> QED
      BY <1>0, <2>1, <2>2, <2>4, <3>1, RequestedTail
  <2>12. ASSUME NEW r \in Resource, NEW m \in Members[r], life'[m] = "zombie"
         PROVE  DeletedAhead(dd', m, r)
    <3>1. m \in Resource
      BY <1>0
    <3>2. CASE m = x
      <4>1. r # x /\ life[r] # "zombie"
        BY <1>0, <2>4, <2>8, <3>2 DEF BlockInv
      <4>2. \A i \in 1 .. Len(dd) : dd[i].resource # r
        BY <1>0, <4>1 DEF CondemnedInv
      <4>3. DeletedAhead(dd, m, r)
        BY <4>2 DEF DeletedAhead
      <4> QED
        BY <1>0, <2>4, <4>1, <4>3, DeletedAppend
    <3>3. CASE m # x
      <4>1. DeletedAhead(dd, m, r) /\ \E i \in 1 .. Len(dd) : dd[i].resource = m
        BY <1>0, <2>5, <2>12, <3>1, <3>3 DEF BlockInv
      <4> QED
        BY <1>0, <2>4, <4>1, DeletedAppend
    <3> QED
      BY <3>2, <3>3
  <2>13. ASSUME NEW r \in Resource, NEW m \in Members[r]
         PROVE  /\ life'[r] # "live" => life'[m] # "live"
                /\ life'[r] \in {"zombie", "destroyed"} => life'[m] \in {"zombie", "destroyed"}
                /\ life'[r] = "destroyed" => life'[m] = "destroyed"
    BY <1>0, <2>4, <2>5, <2>8 DEF BlockInv, MembersBeforeBlock
  <2> QED
    BY <2>9, <2>10, <2>11, <2>12, <2>13 DEF BlockInv, MembersBeforeBlock
<1>6. ASSUME NEW t \in Thread,
             AskForCommandBuffer(t) \/ TakeCommandBuffer(t) \/ SubmitNumber(t) \/ SubmitTrack(t)
             \/ SubmitExecute(t) \/ SubmitSnapshot(t) \/ SubmitSignal(t)
      PROVE  Goal
  BY <1>a, <1>6 DEF AskForCommandBuffer, TakeCommandBuffer, SubmitNumber, SubmitTrack, SubmitExecute,
                    SubmitSnapshot, SubmitSignal
<1>7. ASSUME NEW t \in Thread, NEW c \in held[t], NEW r \in Resource, Record(t, c, r) \/ RecordScratch(t, c, r)
      PROVE  Goal
  BY <1>a, <1>7 DEF Record, RecordScratch
<1>8. ASSUME NEW q \in Queue, GpuStep(q) PROVE Goal
  BY <1>a, <1>8 DEF GpuStep
<1>9. ASSUME GcBegin \/ GcSubmit \/ GcSubmitsDone \/ GcDeletesDone \/ GcEnd PROVE Goal
  BY <1>a, <1>9 DEF GcBegin, GcSubmit, GcSubmitsDone, GcDeletesDone, GcEnd
<1>10. ASSUME DtorWaitIdle \/ DtorEnd \/ UNCHANGED vars PROVE Goal
  BY <1>a, <1>10 DEF DtorWaitIdle, DtorEnd, vars
<1> HIDE DEF Goal
<1>11. Goal
  BY <1>1, <1>2, <1>3, <1>4, <1>5, <1>6, <1>7, <1>8, <1>9, <1>10 DEF OrderInv, Next, SubmitStep, GcStep, Terminated
<1> QED
  BY <1>11 DEF Goal

-----------------------------------------------------------------------------
(* The destructor.                                                         *)

(* The values on record stay below those drawn, and a queue that is behind *)
(* its CPU has its last value in a thread's hands or before its driver.    *)
LEMMA CountStep ==
  ASSUME IInv, CountInv, [Next]_vars
  PROVE  CountInv'
<1> USE DEF submitVars, listVars, lifeVars, gcVars
<1> DEFINE ps == pendingSubmits
           Drawn == \A i \in 1 .. Len(ps') : ps'[i].value <= cpuValue'[ps'[i].queue]
           Numbering(q) == \E t \in Thread : QueueOf[t] = q /\ call[t].stage \in Numbered
           Signalling(q) == \E i \in 1 .. Len(driver[q]) : IsSignal(driver[q][i]) /\ driver[q][i].value = cpuValue[q]
           There == \A q \in Queue : \/ fence'[q] = cpuValue'[q]
                                     \/ Numbering(q)'
                                     \/ Signalling(q)'
<1>0. /\ TypeOK /\ SignalInv /\ CallInv /\ ScanInv
      /\ call \in [Thread -> SubmitCall] /\ cpuValue \in [Queue -> Value] /\ driver \in [Queue -> Seq(DriverEntry)]
      /\ fence \in [Queue -> Value]
      /\ ps \in Seq(Pending) /\ Len(ps) \in Nat
      /\ \A i \in 1 .. Len(ps) : ps[i].queue \in Queue /\ ps[i].value \in Nat
      /\ \A q \in Queue : cpuValue[q] \in Nat
      /\ \A t \in Thread : QueueOf[t] \in Queue
  <2>1. TypeOK /\ SignalInv /\ CallInv /\ ScanInv
    BY DEF IInv
  <2>2. \A p \in Pending : p.queue \in Queue /\ p.value \in Nat
    BY <2>1, Types DEF Pending
  <2> QED
    BY <2>1, <2>2, Types, Numbers
<1>a. ASSUME UNCHANGED <<cpuValue, pendingSubmits>> PROVE Drawn
  BY <1>a DEF CountInv
<1>b. ASSUME UNCHANGED <<cpuValue, fence>>,
             \A q \in Queue : Numbering(q) => Numbering(q)',
             \A q \in Queue : Signalling(q) => Signalling(q)'
      PROVE  There
  BY <1>b DEF CountInv
<1>c. ASSUME UNCHANGED <<cpuValue, driver>> PROVE \A q \in Queue : Signalling(q) => Signalling(q)'
  BY <1>c
<1>d. ASSUME \A t \in Thread : call[t].stage \in Numbered => call'[t].stage \in Numbered
      PROVE  \A q \in Queue : Numbering(q) => Numbering(q)'
  BY <1>d
<1>e. ASSUME UNCHANGED <<submitVars, call>> PROVE Drawn /\ There
  BY <1>a, <1>e DEF CountInv
<1>1. ASSUME NEW t \in Thread,
             AskForCommandBuffer(t) \/ TakeCommandBuffer(t) \/ SubmitSnapshot(t)
             \/ \E c \in held[t] : RestoreCommandBuffer(t, c)
      PROVE  Drawn /\ There
  <2>1. UNCHANGED submitVars
    BY <1>1 DEF AskForCommandBuffer, TakeCommandBuffer, SubmitSnapshot, RestoreCommandBuffer
  <2>2. \A u \in Thread : call[u].stage \in Numbered => call'[u].stage \in Numbered
    <3>1. CASE AskForCommandBuffer(t)
      BY <1>0, <3>1 DEF AskForCommandBuffer, SubmitCall, Numbered
    <3>2. CASE TakeCommandBuffer(t)
      BY <1>0, <3>2 DEF TakeCommandBuffer, Numbered
    <3>3. CASE SubmitSnapshot(t)
      BY <1>0, <3>3 DEF SubmitSnapshot, SubmitCall, Numbered
    <3>4. CASE \E c \in held[t] : RestoreCommandBuffer(t, c)
      BY <1>0, <3>4 DEF RestoreCommandBuffer, Numbered
    <3> QED
      BY <1>1, <3>1, <3>2, <3>3, <3>4
  <2> QED
    BY <1>a, <1>b, <1>c, <1>d, <2>1, <2>2
<1>2. ASSUME NEW t \in Thread, SubmitNumber(t) PROVE Drawn /\ There
  <2> DEFINE q == QueueOf[t]
  <2>1. /\ q \in Queue /\ cpuValue'[q] = cpuValue[q] + 1
        /\ \A p \in Queue : p # q => cpuValue'[p] = cpuValue[p]
        /\ UNCHANGED <<fence, driver, pendingSubmits>>
    BY <1>0, <1>2 DEF SubmitNumber
  <2>2. call'[t].stage = "numbered" /\ \A u \in Thread : u # t => call'[u] = call[u]
    BY <1>0, <1>2 DEF SubmitNumber, Idle
  <2>3. Drawn
    <3> SUFFICES ASSUME NEW i \in 1 .. Len(ps) PROVE ps[i].value <= cpuValue'[ps[i].queue]
      BY <2>1
    <3>1. ps[i].value <= cpuValue[ps[i].queue] /\ ps[i].queue \in Queue /\ ps[i].value \in Nat
      BY <1>0 DEF CountInv
    <3> QED
      BY SMTT(30), <1>0, <2>1, <3>1
  <2>4. Numbering(q)'
    BY <2>2 DEF Numbered
  <2>5. ASSUME NEW p \in Queue, p # q
        PROVE  /\ cpuValue'[p] = cpuValue[p] /\ fence'[p] = fence[p]
               /\ Numbering(p) => Numbering(p)'
               /\ Signalling(p) => Signalling(p)'
    BY <2>1, <2>2, <2>5
  <2> HIDE DEF Numbering, Signalling
  <2>6. \A p \in Queue : fence[p] = cpuValue[p] \/ Numbering(p) \/ Signalling(p)
    BY DEF CountInv, Numbering, Signalling
  <2> QED
    BY <2>3, <2>4, <2>5, <2>6
<1>3. ASSUME NEW t \in Thread, SubmitTrack(t) PROVE Drawn /\ There
  <2> DEFINE p == [queue |-> QueueOf[t], value |-> call[t].value]
  <2>1. p \in Pending /\ ps' = Append(ps, p) /\ p.queue = QueueOf[t] /\ p.value = call[t].value
    BY <1>0, <1>3, Numbers DEF SubmitTrack, Pending
  <2>2. UNCHANGED <<cpuValue, fence, driver>>
    BY <1>3 DEF SubmitTrack
  <2>3. call[t].stage = "numbered" /\ \A u \in Thread : call[u].stage \in Numbered => call'[u].stage \in Numbered
    BY <1>0, <1>3 DEF SubmitTrack, SubmitCall, Numbered
  <2>4. call[t].value = cpuValue[QueueOf[t]]
    BY <1>0, <2>3 DEF CallInv, Numbered
  <2> HIDE DEF p
  <2>5. \A i \in 1 .. Len(ps') : \/ i \in 1 .. Len(ps) /\ ps'[i] = ps[i]
                                 \/ ps'[i] = p
    BY <1>0, <2>1, AppendElements
  <2>6. cpuValue[QueueOf[t]] <= cpuValue[QueueOf[t]]
    BY <1>0
  <2>7. Drawn
    BY <2>1, <2>2, <2>4, <2>5, <2>6 DEF CountInv
  <2> QED
    BY <1>b, <1>c, <1>d, <2>2, <2>3, <2>7
<1>4. ASSUME NEW t \in Thread, NEW e \in DriverEntry,
             driver' = [driver EXCEPT ![QueueOf[t]] = Append(@, e)], UNCHANGED cpuValue
      PROVE  /\ \A q \in Queue : Signalling(q) => Signalling(q)'
             /\ IsSignal(e) /\ e.value = cpuValue[QueueOf[t]] => Signalling(QueueOf[t])'
  <2> DEFINE q == QueueOf[t]
  <2>1. /\ q \in Queue /\ driver[q] \in Seq(DriverEntry) /\ driver'[q] = Append(driver[q], e)
        /\ \A p \in Queue : p # q => driver'[p] = driver[p]
    BY <1>0, <1>4
  <2>2. /\ \A i \in 1 .. Len(driver[q]) : i \in 1 .. Len(driver'[q]) /\ driver'[q][i] = driver[q][i]
        /\ Len(driver[q]) + 1 \in 1 .. Len(driver'[q]) /\ driver'[q][Len(driver[q]) + 1] = e
    <3>1. /\ Len(driver[q]) \in Nat /\ Len(Append(driver[q], e)) = Len(driver[q]) + 1
          /\ \A i \in 1 .. Len(driver[q]) :
               i \in 1 .. Len(Append(driver[q], e)) /\ Append(driver[q], e)[i] = driver[q][i]
          /\ Append(driver[q], e)[Len(driver[q]) + 1] = e
      BY <1>4, <2>1, AppendElements, AppendProperties
    <3> QED
      BY <2>1, <3>1
  <2>3. \A p \in Queue : Signalling(p) => Signalling(p)'
    BY <1>4, <2>1, <2>2
  <2>4. IsSignal(e) /\ e.value = cpuValue[q] => Signalling(q)'
    BY <1>4, <2>2
  <2> QED
    BY <2>3, <2>4
<1>5. ASSUME NEW t \in Thread, SubmitExecute(t) PROVE Drawn /\ There
  <2>1. Work(held[t], UNION {content[c].uses : c \in held[t]}) \in DriverEntry
    BY <1>0, <1>5, ExecutedEntry
  <2>2. /\ driver' = [driver EXCEPT ![QueueOf[t]] = Append(@, Work(held[t], UNION {content[c].uses : c \in held[t]}))]
        /\ UNCHANGED <<cpuValue, fence, pendingSubmits>>
    BY <1>5 DEF SubmitExecute
  <2>3. \A u \in Thread : call[u].stage \in Numbered => call'[u].stage \in Numbered
    BY <1>0, <1>5 DEF SubmitExecute, SubmitCall, Numbered
  <2>4. \A q \in Queue : Signalling(q) => Signalling(q)'
    BY <1>4, <2>1, <2>2
  <2> QED
    BY <1>a, <1>b, <1>d, <2>2, <2>3, <2>4
<1>6. ASSUME NEW t \in Thread, SubmitSignal(t) PROVE Drawn /\ There
  <2>1. /\ driver' = [driver EXCEPT ![QueueOf[t]] = Append(@, Signal(call[t].value))]
        /\ UNCHANGED <<cpuValue, fence, pendingSubmits>>
        /\ \A u \in Thread : u # t => call'[u] = call[u]
    BY <1>0, <1>6 DEF SubmitSignal
  <2>2. /\ Signal(call[t].value) \in DriverEntry /\ IsSignal(Signal(call[t].value))
        /\ Signal(call[t].value).value = cpuValue[QueueOf[t]]
    <3>1. call[t].value \in Value /\ call[t].stage \in Numbered
      BY <1>0, <1>6, Numbers DEF SubmitSignal, Numbered
    <3> QED
      BY <1>0, <3>1 DEF Signal, DriverEntry, IsSignal, CallInv
  <2>3. (\A q \in Queue : Signalling(q) => Signalling(q)') /\ Signalling(QueueOf[t])'
    BY <1>4, <2>1, <2>2
  <2>4. \A q \in Queue : q # QueueOf[t] /\ Numbering(q) => Numbering(q)'
    BY <2>1
  <2> HIDE DEF Numbering, Signalling
  <2>5. \A q \in Queue : fence[q] = cpuValue[q] \/ Numbering(q) \/ Signalling(q)
    BY DEF CountInv, Numbering, Signalling
  <2> QED
    BY <1>a, <2>1, <2>3, <2>4, <2>5
<1>7. ASSUME NEW q \in Queue, GpuStep(q) PROVE Drawn /\ There
  <2> DEFINE h == Head(driver[q])
  <2>0. driver[q] \in Seq(DriverEntry) /\ driver[q] # <<>>
    BY <1>0, <1>7 DEF GpuStep
  <2>1. /\ driver'[q] = Tail(driver[q]) /\ \A p \in Queue : p # q => driver'[p] = driver[p]
        /\ UNCHANGED <<cpuValue, pendingSubmits, call>>
    BY <1>0, <1>7 DEF GpuStep
  <2>2. h = driver[q][1] /\ 1 \in 1 .. Len(driver[q])
    BY <2>0, TailElements
  <2>3. /\ fence'[q] = IF IsSignal(h) THEN h.value ELSE fence[q]
        /\ \A p \in Queue : p # q => fence'[p] = fence[p]
    BY <1>0, <1>7 DEF GpuStep, IsSignal
  <2>4. \A i \in 1 .. Len(driver[q]) : i # 1 => i - 1 \in 1 .. Len(driver'[q]) /\ driver'[q][i - 1] = driver[q][i]
    BY <2>0, <2>1, TailElements
  <2> HIDE DEF h
  <2>5. IsSignal(h) => fence[q] < h.value /\ h.value <= cpuValue[q] /\ fence[q] \in Nat /\ h.value \in Nat
    BY <1>0, <2>2, Numbers DEF SignalInv
  <2>6. fence'[q] = cpuValue[q] \/ Numbering(q)' \/ Signalling(q)'
    <3>1. CASE Numbering(q)
      BY <2>1, <3>1
    <3>2. CASE fence[q] = cpuValue[q]
      BY <1>0, <2>3, <2>5, <3>2
    <3>3. CASE Signalling(q)
      <4>1. PICK i \in 1 .. Len(driver[q]) : IsSignal(driver[q][i]) /\ driver[q][i].value = cpuValue[q]
        BY <3>3
      <4>2. CASE i = 1
        BY <2>2, <2>3, <4>1, <4>2
      <4>3. CASE i # 1
        BY <2>1, <2>4, <4>1, <4>3
      <4> QED
        BY <4>2, <4>3
    <3> QED
      BY <3>1, <3>2, <3>3 DEF CountInv
  <2>7. \A p \in Queue : p # q => fence'[p] = cpuValue[p] \/ Numbering(p)' \/ Signalling(p)'
    BY <2>1, <2>3 DEF CountInv
  <2> HIDE DEF Numbering, Signalling
  <2> QED
    BY <1>a, <2>1, <2>6, <2>7
<1>8. ASSUME GcSubmit PROVE Drawn /\ There
  <2>1. UNCHANGED <<cpuValue, fence, driver, call>>
    BY <1>8 DEF GcSubmit
  <2>2. CASE ps' = RemoveAt(ps, gc.at)
    <3>1. PICK k \in 1 .. Len(ps) : k = gc.at
      BY <1>0, <1>8, FirstOn DEF GcSubmit
    <3>2. \A j \in 1 .. Len(ps') : \E i \in 1 .. Len(ps) : ps'[j] = ps[i]
      BY <1>0, <2>2, <3>1, RemoveAtElements
    <3>3. Drawn
      BY <2>1, <3>2 DEF CountInv
    <3> QED
      BY <1>b, <1>c, <1>d, <2>1, <3>3
  <2>3. CASE UNCHANGED pendingSubmits
    BY <1>e, <2>1, <2>3
  <2> QED
    BY <1>8, <2>2, <2>3 DEF GcSubmit
<1>9. ASSUME NEW t \in Thread, NEW c \in held[t], NEW r \in Resource, Record(t, c, r) \/ RecordScratch(t, c, r)
      PROVE  Drawn /\ There
  BY <1>e, <1>9 DEF Record, RecordScratch
<1>10. ASSUME NEW r \in Resource, TryEnqueueDestroyDeferred(r) \/ DestroyImmediately(r) PROVE Drawn /\ There
  BY <1>e, <1>10 DEF TryEnqueueDestroyDeferred, DestroyImmediately
<1>11. ASSUME GcBegin \/ GcSubmitsDone \/ GcDelete \/ GcDeletesDone \/ GcDrain \/ GcEnd PROVE Drawn /\ There
  BY <1>e, <1>11 DEF GcBegin, GcSubmitsDone, GcDelete, GcDeletesDone, GcDrain, GcEnd
<1>12. ASSUME DtorWaitIdle \/ DtorEnd \/ UNCHANGED vars PROVE Drawn /\ There
  BY <1>e, <1>12 DEF DtorWaitIdle, DtorEnd, vars
<1> HIDE DEF Drawn, There
<1>13. Drawn /\ There
  BY <1>1, <1>2, <1>3, <1>5, <1>6, <1>7, <1>8, <1>9, <1>10, <1>11, <1>12 DEF Next, SubmitStep, GcStep, Terminated
<1> QED
  BY <1>13 DEF CountInv, Drawn, There

(* With every call over and nothing before the driver, all that is on      *)
(* record is complete.                                                     *)
LEMMA CaughtUp ==
  ASSUME TypeOK, CountInv, \A q \in Queue : driver[q] = <<>>, \A t \in Thread : call[t].stage = "idle"
  PROVE  \A i \in 1 .. Len(pendingSubmits) : Completed(pendingSubmits[i])
<1>1. \A q \in Queue : fence[q] = cpuValue[q]
  <2>1. "idle" \notin Numbered
    BY DEF Numbered
  <2>2. \A q \in Queue : 1 .. Len(driver[q]) = {}
    OBVIOUS
  <2> QED
    BY <2>1, <2>2 DEF CountInv
<1>2. ASSUME NEW i \in 1 .. Len(pendingSubmits) PROVE Completed(pendingSubmits[i])
  <2>1. pendingSubmits[i] \in Pending /\ Value \subseteq Nat
    BY Numbers, Types
  <2>2. pendingSubmits[i].queue \in Queue /\ pendingSubmits[i].value \in Nat
    BY <2>1 DEF Pending
  <2>3. pendingSubmits[i].value <= cpuValue[pendingSubmits[i].queue] /\ cpuValue[pendingSubmits[i].queue] \in Nat
    BY <2>2, Numbers DEF CountInv
  <2> QED
    BY <1>1, <2>2, <2>3 DEF Completed
<1> QED
  BY <1>2

(* Each of the destructor's collections leaves what ShutInv says of it. *)
LEMMA ShutStep ==
  ASSUME IInv, CountInv, ShutInv, [Next]_vars
  PROVE  ShutInv'
<1> USE DEF submitVars, listVars, lifeVars, gcVars
<1> DEFINE dd == deferredDeletes
           ps == pendingSubmits
<1>0. /\ TypeOK /\ ScanInv
      /\ ps \in Seq(Pending) /\ dd \in Seq(Deleted) /\ onDestroy \in Seq(Resource)
      /\ Len(ps) \in Nat /\ Len(dd) \in Nat /\ Len(onDestroy) \in Nat
      /\ gc.at \in Nat /\ gc.left \in Nat /\ gc \in Collection
      /\ device \in [state : {"alive", "collecting", "destroyed"}, collects : 0 .. 10]
  <2>1. TypeOK /\ ScanInv
    BY DEF IInv
  <2>2. device \in [state : {"alive", "collecting", "destroyed"}, collects : 0 .. 10]
    BY <2>1 DEF TypeOK, DtorCollects
  <2> QED
    BY <2>1, <2>2, Types, GcCounts, LenProperties
<1>1. CASE device.state = "alive" /\ UNCHANGED device
  BY <1>1 DEF ShutInv
<1>2. ASSUME DtorWaitIdle PROVE ShutInv'
  <2>1. /\ gc.phase = "idle" /\ device.collects = DtorCollects
        /\ device'.state = "collecting" /\ device'.collects = device.collects
        /\ UNCHANGED <<submitVars, listVars, lifeVars, gcVars>>
        /\ \A t \in Thread : call[t].stage = "idle" /\ held[t] = {}
        /\ \A q \in Queue : driver[q] = <<>>
    BY <1>0, <1>2 DEF DtorWaitIdle, ShutInv
  <2>2. Collected' = 0
    <3>1. gc'.phase = "idle" /\ device'.collects = 10
      BY <2>1 DEF DtorCollects
    <3> QED
      BY <3>1 DEF Collected, DtorCollects
  <2> QED
    BY <2>1, <2>2 DEF ShutInv
<1>3. CASE device.state # "alive"
  <2>0. \A t \in Thread : call[t].stage = "idle" /\ held[t] = {}
    BY <1>3 DEF ShutInv
  <2>1. \A q \in Queue : driver[q] = <<>>
    BY <1>3 DEF ShutInv
  <2>2. CASE UNCHANGED vars
    BY <2>2 DEF ShutInv, Collected, vars
  <2>3. ASSUME GcBegin PROVE ShutInv'
    <3>1. /\ gc.phase = "idle" /\ gc'.phase = "submits" /\ gc'.at = 1
          /\ device.state = "collecting" /\ device'.state = "collecting"
          /\ device.collects > 0 /\ device'.collects = device.collects - 1
          /\ oldest' = [q \in Queue |-> Never]
          /\ UNCHANGED <<submitVars, listVars, lifeVars>>
      BY <1>0, <1>3, <2>3 DEF GcBegin
    <3>2. Collected' = Collected /\ Collected \in Int /\ device'.collects < DtorCollects
      BY <1>0, <3>1 DEF Collected, DtorCollects
    <3> QED
      BY <1>3, <3>1, <3>2 DEF ShutInv
  <2>4. ASSUME GcSubmit PROVE ShutInv'
    <3>1. /\ gc.phase = "submits" /\ gc.at = 1 /\ gc.at \in 1 .. Len(ps)
          /\ UNCHANGED <<cpuValue, fence, driver, listVars, lifeVars, device>>
      BY <1>0, <1>3, <2>4, FirstOn DEF GcSubmit, ShutInv
    <3>2. UNCHANGED gcVars /\ ps # <<>>
      <4>1. Completed(ps[gc.at])
        BY <1>0, <2>0, <2>1, <3>1, CaughtUp
      <4> QED
        BY <1>0, <2>4, <3>1, <4>1, EmptySeq DEF GcSubmit
    <3> QED
      BY <1>3, <3>1, <3>2 DEF ShutInv, Collected
  <2>5. ASSUME GcSubmitsDone PROVE ShutInv'
    <3>1. /\ gc.phase = "submits" /\ gc'.phase = "deletes" /\ gc'.at = 1
          /\ gc.at = 1 /\ gc.at > Len(ps)
          /\ UNCHANGED <<submitVars, listVars, lifeVars, oldest, device>>
      BY <1>0, <1>3, <2>5 DEF GcSubmitsDone, ShutInv, Collection
    <3>2. ps = <<>> /\ Collected' = Collected
      BY <1>0, <3>1, EmptySeq DEF Collected
    <3> QED
      BY <1>3, <3>1, <3>2 DEF ShutInv
  <2>6. ASSUME GcDelete PROVE ShutInv'
    <3>1. /\ gc.phase = "deletes" /\ gc.at = 1 /\ gc.at \in 1 .. Len(dd)
          /\ UNCHANGED <<submitVars, listVars, onDestroy, oldest, device>>
      BY <1>0, <1>3, <2>6, FirstOn DEF GcDelete, ShutInv
    <3>2. UNCHANGED gc /\ dd # <<>>
      <4>1. \A q \in Queue : oldest[q] = MaxSubmits + 1
        BY <1>3, <3>1 DEF ShutInv, Never
      <4>2. \A q \in Queue : dd[gc.at].snapshot[q] \in 0 .. MaxSubmits
        <5>1. dd[gc.at] \in Deleted
          BY <1>0, <3>1, Numbers
        <5> QED
          BY <5>1 DEF Deleted, Value
      <4>3. Ready(dd[gc.at])
        BY <4>1, <4>2, BoundAssumption DEF Ready
      <4> QED
        BY <1>0, <2>6, <3>1, <4>3, EmptySeq DEF GcDelete
    <3> QED
      BY <1>3, <3>1, <3>2 DEF ShutInv, Collected
  <2>7. ASSUME GcDeletesDone PROVE ShutInv'
    <3>1. /\ gc.phase = "deletes" /\ gc'.phase = "drain" /\ gc'.left = Len(onDestroy)
          /\ gc.at = 1 /\ gc.at > Len(dd)
          /\ UNCHANGED <<submitVars, listVars, lifeVars, oldest, device>>
      BY <1>3, <2>7 DEF GcDeletesDone, ShutInv
    <3>2. dd = <<>> /\ Collected' = Collected
      BY <1>0, <3>1, EmptySeq DEF Collected
    <3> QED
      BY <1>3, <3>1, <3>2 DEF ShutInv
  <2>8. ASSUME GcDrain PROVE ShutInv'
    <3>1. /\ gc.phase = "drain" /\ gc'.phase = "drain" /\ gc'.left = gc.left - 1 /\ gc.left > 0
          /\ gc.left = Len(onDestroy) /\ onDestroy # <<>> /\ onDestroy' = Tail(onDestroy)
          /\ UNCHANGED <<submitVars, listVars, oldest, device>>
      <4>1. gc'.phase = gc.phase /\ gc'.left = gc.left - 1
        BY <1>0, <2>8 DEF GcDrain, Collection
      <4> QED
        BY <1>0, <1>3, <2>8, <4>1, GcCounts DEF GcDrain, ShutInv
    <3>2. ~(Collected >= 1) /\ ~(Collected >= 2) /\ Collected' = Collected
      <4>1. ~(Collected >= 1) /\ Collected' = Collected /\ Collected \in Int
        BY <1>0, <1>3, <3>1 DEF ShutInv, Collected, DtorCollects
      <4> QED
        BY <4>1
    <3>3. gc'.left = Len(onDestroy')
      BY <1>0, <3>1, TailElements
    <3> QED
      BY <1>3, <3>1, <3>2, <3>3 DEF ShutInv
  <2>9. ASSUME GcEnd PROVE ShutInv'
    <3>1. /\ gc.phase = "drain" /\ onDestroy = <<>> /\ gc'.phase = "idle"
          /\ UNCHANGED <<submitVars, listVars, lifeVars, device>>
      BY <1>0, <1>3, <2>9, EmptySeq DEF GcEnd, ShutInv, GcIdle
    <3>2. Collected' = Collected + 1 /\ Collected \in Int
      BY <1>0, <3>1 DEF Collected, DtorCollects
    <3>3. ps = <<>>
      BY <1>3, <3>1 DEF ShutInv
    <3>4. Collected' >= 2 => dd = <<>>
      BY <1>3, <3>1, <3>2 DEF ShutInv
    <3> QED
      BY <1>3, <3>1, <3>3, <3>4 DEF ShutInv
  <2>10. ASSUME DtorEnd PROVE ShutInv'
    <3>1. /\ device.collects = 0 /\ gc.phase = "idle" /\ device'.state = "destroyed" /\ device'.collects = 0
          /\ UNCHANGED <<submitVars, listVars, lifeVars, gcVars>>
      BY <1>0, <2>10 DEF DtorEnd
    <3>2. Collected' = Collected
      BY <3>1 DEF Collected
    <3> QED
      BY <1>3, <3>1, <3>2 DEF ShutInv
  <2>11. ASSUME NEW t \in Thread,
                AskForCommandBuffer(t) \/ TakeCommandBuffer(t) \/ SubmitNumber(t) \/ SubmitTrack(t)
                \/ SubmitExecute(t) \/ SubmitSnapshot(t) \/ SubmitSignal(t)
         PROVE  FALSE
    BY <1>3, <2>0, <2>11 DEF AskForCommandBuffer, TakeCommandBuffer, SubmitNumber, SubmitTrack, SubmitExecute,
                             SubmitSnapshot, SubmitSignal
  <2>12. \A t \in Thread : \A c \in held[t] : FALSE
    BY <2>0
  <2>13. ASSUME NEW q \in Queue, GpuStep(q) PROVE FALSE
    BY <2>1, <2>13 DEF GpuStep
  <2>14. ASSUME NEW r \in Resource, TryEnqueueDestroyDeferred(r) \/ DestroyImmediately(r) PROVE FALSE
    BY <1>3, <2>14 DEF TryEnqueueDestroyDeferred, DestroyImmediately, MayGiveUp
  <2>15. ASSUME DtorWaitIdle PROVE FALSE
    BY <1>3, <2>15 DEF DtorWaitIdle
  <2> QED
    BY <2>2, <2>3, <2>4, <2>5, <2>6, <2>7, <2>8, <2>9, <2>10, <2>11, <2>12, <2>13, <2>14, <2>15
    DEF Next, SubmitStep, GcStep, Terminated
<1>4. ASSUME device.state = "alive" PROVE UNCHANGED device \/ DtorWaitIdle
  <2>1. ASSUME NEW t \in Thread,
               AskForCommandBuffer(t) \/ TakeCommandBuffer(t) \/ SubmitNumber(t) \/ SubmitStep(t)
        PROVE  UNCHANGED device
    BY <2>1 DEF AskForCommandBuffer, TakeCommandBuffer, SubmitNumber, SubmitStep, SubmitTrack, SubmitExecute,
                SubmitSnapshot, SubmitSignal, RestoreCommandBuffer
  <2>2. ASSUME NEW t \in Thread, NEW c \in held[t], NEW r \in Resource, Record(t, c, r) \/ RecordScratch(t, c, r)
        PROVE  UNCHANGED device
    BY <2>2 DEF Record, RecordScratch
  <2>3. ASSUME NEW q \in Queue, GpuStep(q) PROVE UNCHANGED device
    BY <2>3 DEF GpuStep
  <2>4. ASSUME NEW r \in Resource, TryEnqueueDestroyDeferred(r) \/ DestroyImmediately(r) PROVE UNCHANGED device
    BY <2>4 DEF TryEnqueueDestroyDeferred, DestroyImmediately
  <2>5. ASSUME GcBegin \/ GcStep PROVE UNCHANGED device
    BY <1>4, <2>5 DEF GcBegin, GcStep, GcSubmit, GcSubmitsDone, GcDelete, GcDeletesDone, GcDrain, GcEnd
  <2>6. ASSUME DtorEnd PROVE FALSE
    BY <1>4, <2>6 DEF DtorEnd
  <2>7. CASE UNCHANGED vars
    BY <2>7 DEF vars
  <2> QED
    BY <2>1, <2>2, <2>3, <2>4, <2>5, <2>6, <2>7 DEF Next, Terminated
<1> QED
  BY <1>1, <1>2, <1>3, <1>4

-----------------------------------------------------------------------------
(* All of it together.                                                     *)

(* A new device has condemned nothing, has nothing on record and has all   *)
(* its collections to make.                                                *)
LEMMA InitDeviceInv == Init => DeviceInv
<1> SUFFICES ASSUME Init PROVE DeviceInv
  OBVIOUS
<1>1. /\ \A r \in Resource : life[r] = "live"
      /\ onDestroy = <<>> /\ deferredDeletes = <<>> /\ pendingSubmits = <<>> /\ gc.phase = "idle"
      /\ \A q \in Queue : cpuValue[q] = 0 /\ fence[q] = 0
      /\ \A t \in Thread : \A q \in Queue : call[t].snapshot[q] = 0
      /\ device.state = "alive" /\ device.collects = DtorCollects
  BY DEF Init, Idle, GcIdle
<1>2. \A r \in Resource : Members[r] \subseteq Resource
  BY MembersAssumption
<1>3. SnapshotInv
  BY <1>1 DEF SnapshotInv
<1>4. BlockInv /\ MembersBeforeBlock
  BY <1>1, <1>2 DEF BlockInv, MembersBeforeBlock
<1>5. CountInv /\ ShutInv
  BY <1>1 DEF CountInv, ShutInv
<1> QED
  BY <1>3, <1>4, <1>5, InitIInv DEF DeviceInv, OrderInv

(* No step breaks it. *)
LEMMA DeviceStep ==
  ASSUME OneThreadAQueue, DeviceInv, [Next]_vars
  PROVE  DeviceInv'
<1>1. IInv /\ OrderInv /\ SnapshotInv /\ CountInv /\ ShutInv
  BY DEF DeviceInv, OrderInv
<1>2. IInv'
  BY <1>1, NextIInv
<1>3. TypeOK'
  BY <1>2 DEF IInv
<1>4. SnapshotInv'
  BY <1>1, <1>3, SnapshotStep
<1>5. BlockInv' /\ MembersBeforeBlock'
  BY <1>1, BlockStep
<1>6. CountInv' /\ ShutInv'
  BY <1>1, CountStep, ShutStep
<1> QED
  BY <1>2, <1>4, <1>5, <1>6 DEF DeviceInv, OrderInv

(* With one thread to a queue, DeviceInv holds throughout: the invariant   *)
(* of the submissions, the order among what is deleted later, and what the *)
(* destructor's collections leave.                                         *)
THEOREM DeviceInvariant ==
  ASSUME OneThreadAQueue
  PROVE  Spec => []DeviceInv
<1>1. Init => DeviceInv
  BY InitDeviceInv
<1>2. DeviceInv /\ [Next]_vars => DeviceInv'
  BY DeviceStep
<1> QED
  BY <1>1, <1>2, PTL DEF Spec

(* A memory block is destroyed after every resource placed in it, whatever *)
(* the number of blocks, members and queues and the progress of the GPU:   *)
(* the assertion on debugRefs in DestroyMemoryBlock.                       *)
THEOREM BlocksGoLast ==
  ASSUME OneThreadAQueue
  PROVE  Spec => []MembersBeforeBlock
<1>1. DeviceInv => MembersBeforeBlock
  BY DEF DeviceInv, OrderInv
<1> QED
  BY <1>1, DeviceInvariant, PTL

(* Once the device is destroyed, nothing that was given up is left, however*)
(* much there was when the destructor was called.                          *)
THEOREM DestructorCleansUp ==
  ASSUME OneThreadAQueue
  PROVE  Spec => []DtorLeavesNothing
<1>1. DeviceInv => DtorLeavesNothing
  <2> SUFFICES ASSUME DeviceInv, device.state = "destroyed" PROVE deferredDeletes = <<>> /\ onDestroy = <<>>
    BY DEF DtorLeavesNothing
  <2>1. ShutInv
    BY DEF DeviceInv
  <2>2. Collected = 10
    BY <2>1 DEF Collected, ShutInv, DtorCollects
  <2> QED
    BY <2>1, <2>2 DEF ShutInv
<1> QED
  BY <1>1, DeviceInvariant, PTL

(* All of it: what is destroyed or reset is out of use, in the order of    *)
(* its dependencies, and the destructor forgets none of it.                *)
THEOREM SafeAndInOrder ==
  ASSUME OneThreadAQueue
  PROVE  Spec => []DestroysSafely
<1>1. NoDestroyInFlight /\ NoAllocatorResetInFlight /\ MembersBeforeBlock /\ DtorLeavesNothing
        => DestroysSafely
  BY DEF DestroysSafely
<1> QED
  BY <1>1, DestroyIsSafe, AllocatorsAreIdle, BlocksGoLast, DestructorCleansUp, PTL

-----------------------------------------------------------------------------
(* The promise of IDevice.                                                 *)

Status == [r \in Resource |-> IF life[r] \in {"deferred", "zombie"} THEN "condemned" ELSE life[r]]
Busy == {r \in Resource : InUse(r)}

(* A step of the abstract life of resources, in the terms of Status, Busy. *)
LifetimeStep ==
  \/ \E r \in Resource : Status[r] # "destroyed" /\ Busy' = Busy \cup {r} /\ UNCHANGED Status
  \/ Busy' \subseteq Busy /\ UNCHANGED Status
  \/ \E rs \in SUBSET Resource :
       /\ \A r \in rs : Status[r] = "live"
       /\ Status' = [r \in Resource |-> IF r \in rs THEN "condemned" ELSE Status[r]]
       /\ UNCHANGED Busy
  \/ \E r \in Resource : /\ Status[r] # "destroyed" /\ r \notin Busy
                         /\ \A m \in Members[r] : Status[m] = "destroyed"
                         /\ Status' = [Status EXCEPT ![r] = "destroyed"] /\ UNCHANGED Busy

(* It is a step of ResourceLifetime. *)
LEMMA LifetimeStepRefines == LifetimeStep => Lifetime!Next
<1> SUFFICES ASSUME LifetimeStep PROVE Lifetime!Next
  OBVIOUS
<1>1. ASSUME NEW r \in Resource, Status[r] # "destroyed", Busy' = Busy \cup {r}, UNCHANGED Status
      PROVE  Lifetime!Use(r)
  BY <1>1 DEF Lifetime!Use, Status, Busy
<1>2. CASE Busy' \subseteq Busy /\ UNCHANGED Status
  BY <1>2 DEF Lifetime!Next, Lifetime!Finish, Status, Busy
<1>3. ASSUME NEW rs \in SUBSET Resource, \A r \in rs : Status[r] = "live",
             Status' = [r \in Resource |-> IF r \in rs THEN "condemned" ELSE Status[r]], UNCHANGED Busy
      PROVE  Lifetime!Condemn(rs)
  BY <1>3 DEF Lifetime!Condemn, Status, Busy
<1>4. ASSUME NEW r \in Resource, Status[r] # "destroyed", r \notin Busy,
             \A m \in Members[r] : Status[m] = "destroyed",
             Status' = [Status EXCEPT ![r] = "destroyed"], UNCHANGED Busy
      PROVE  Lifetime!Destroy(r)
  BY <1>4 DEF Lifetime!Destroy, Status, Busy
<1> QED
  BY <1>1, <1>2, <1>3, <1>4 DEF LifetimeStep, Lifetime!Next

(* Every step of the backend is one. *)
LEMMA BackendStep ==
  ASSUME OneThreadAQueue, DeviceInv, [Next]_vars
  PROVE  LifetimeStep
<1> USE DEF submitVars, listVars, lifeVars, gcVars
<1>0. /\ TypeOK /\ TypeOK' /\ ListsInv /\ ScratchInv /\ CondemnedInv /\ ScanInv /\ BlockInv /\ MembersBeforeBlock
      /\ SignalInv /\ CallInv /\ ZombieInv /\ MembersBeforeBlock'
      /\ life \in [Resource -> {"live", "deferred", "zombie", "destroyed"}]
      /\ content \in Seq(Recorded) /\ DOMAIN content = 1 .. Len(content)
      /\ \A t \in Thread : held[t] \subseteq 1 .. Len(content)
      /\ \A r \in Resource : Members[r] \subseteq Resource
  <2>1. OrderInv /\ IInv
    BY DEF DeviceInv, OrderInv
  <2>2. /\ TypeOK /\ ListsInv /\ ScratchInv /\ CondemnedInv /\ ScanInv /\ BlockInv /\ MembersBeforeBlock
        /\ SignalInv /\ CallInv /\ ZombieInv
    BY <2>1 DEF OrderInv, IInv
  <2>3. TypeOK' /\ MembersBeforeBlock'
    <3>1. TypeOK'
      BY <2>1, NextTypeOK DEF IInv
    <3> QED
      BY <2>1, <3>1, BlockStep
  <2>4. life \in [Resource -> {"live", "deferred", "zombie", "destroyed"}]
    BY <2>2 DEF TypeOK
  <2>5. /\ content \in Seq(Recorded) /\ DOMAIN content = 1 .. Len(content)
        /\ \A t \in Thread : held[t] \subseteq 1 .. Len(content)
    BY <2>2, Types
  <2> QED
    BY <2>2, <2>3, <2>4, <2>5, MembersAssumption
<1>a. ASSUME UNCHANGED life PROVE UNCHANGED Status
  BY <1>a DEF Status
<1>b. ASSUME UNCHANGED <<driver, call, held, content>> PROVE Busy' = Busy
  BY <1>b DEF Busy, InUse, Recording
<1>1. ASSUME NEW t \in Thread, NEW c \in held[t], NEW r \in Resource, Record(t, c, r) \/ RecordScratch(t, c, r)
      PROVE  LifetimeStep
  <2>1. /\ UNCHANGED <<driver, call, held, life>> /\ life[r] \in {"live", "deferred"}
        /\ call[t].stage = "idle"
    BY <1>1 DEF Record, RecordScratch, Usable
  <2>2. /\ content'[c].uses = content[c].uses \cup {r}
        /\ \A d \in 1 .. Len(content) : d # c => content'[d] = content[d]
    <3>1. c \in DOMAIN content /\ content[c] \in Recorded
      BY <1>0, ElementOfSeq
    <3> QED
      BY <1>0, <1>1, <3>1 DEF Record, RecordScratch, Recorded
  <2>3. \A d \in 1 .. Len(content) :
          content'[d].uses = IF d = c THEN content[d].uses \cup {r} ELSE content[d].uses
    BY <2>2
  <2>4. Busy' = Busy \cup {r}
    <3>1. ASSUME NEW s \in Resource, InUse(s)' PROVE InUse(s) \/ s = r
      BY <1>0, <2>1, <2>3, <3>1 DEF InUse, Recording
    <3>2. ASSUME NEW s \in Resource, InUse(s) \/ s = r PROVE InUse(s)'
      <4>1. CASE s = r
        BY <2>1, <2>2, <4>1 DEF InUse, Recording
      <4>2. CASE InUse(s)
        BY <1>0, <2>1, <2>3, <4>2 DEF InUse, Recording
      <4> QED
        BY <3>2, <4>1, <4>2
    <3> QED
      BY <3>1, <3>2 DEF Busy
  <2>5. Status[r] # "destroyed" /\ UNCHANGED Status
    BY <2>1 DEF Status
  <2> QED
    BY <2>4, <2>5 DEF LifetimeStep
<1>2. CASE UNCHANGED life
  <2>1. CASE \E r \in Resource : Starts(r)
    BY <1>1, <2>1 DEF Starts
  <2>2. CASE \A r \in Resource : ~Starts(r)
    <3>1. Busy' \subseteq Busy
      BY <1>0, <2>2, UseBefore DEF Busy
    <3> QED
      BY <1>2, <1>a, <3>1 DEF LifetimeStep
  <2> QED
    BY <2>1, <2>2
<1>3. ASSUME NEW r \in Resource, TryEnqueueDestroyDeferred(r) PROVE LifetimeStep
  <2>1. life[r] = "live" /\ life' = [life EXCEPT ![r] = "deferred"] /\ UNCHANGED <<driver, call, held, content>>
    BY <1>3 DEF TryEnqueueDestroyDeferred, MayGiveUp
  <2>2. Status[r] = "live" /\ Status' = [s \in Resource |-> IF s \in {r} THEN "condemned" ELSE Status[s]]
    BY <1>0, <2>1 DEF Status
  <2>3. Busy' = Busy
    BY <1>b, <2>1
  <2>4. {r} \in SUBSET Resource /\ \A s \in {r} : Status[s] = "live"
    BY <2>2
  <2> QED
    BY <2>2, <2>3, <2>4 DEF LifetimeStep
<1>4. ASSUME NEW r \in Resource, DestroyImmediately(r) PROVE LifetimeStep
  <2>1. /\ life[r] = "live" /\ life' = [life EXCEPT ![r] = "destroyed"] /\ UNCHANGED <<driver, call, held, content>>
        /\ ~InUse(r) /\ \A m \in Members[r] : life[m] = "destroyed"
    BY <1>4 DEF DestroyImmediately, MayGiveUp
  <2>2. /\ Status[r] # "destroyed" /\ Status' = [Status EXCEPT ![r] = "destroyed"]
        /\ r \notin Busy /\ \A m \in Members[r] : Status[m] = "destroyed"
    BY <1>0, <2>1 DEF Status, Busy
  <2>3. Busy' = Busy
    BY <1>b, <2>1
  <2> QED
    BY <2>2, <2>3 DEF LifetimeStep
<1>5. ASSUME NEW t \in Thread, NEW c \in held[t], RestoreCommandBuffer(t, c) PROVE LifetimeStep
  <2> DEFINE S == content[c].scratch
  <2>1. /\ call[t].stage = "signalled" /\ UNCHANGED driver
        /\ life' = [r \in Resource |-> IF r \in S THEN "zombie" ELSE life[r]]
        /\ held' = [held EXCEPT ![t] = @ \ {c}]
        /\ content' = [content EXCEPT ![c] = Blank]
        /\ \A u \in Thread : u # t => call'[u] = call[u]
    BY <1>0, <1>5, Types DEF RestoreCommandBuffer
  <2>2. c \in 1 .. Len(content) /\ S \subseteq Resource /\ \A r \in S : life[r] = "live"
    <3>1. c \in 1 .. Len(content) /\ content[c] \in Recorded
      BY <1>0, ElementOfSeq
    <3> QED
      BY <1>0, <3>1, MembersAssumption DEF Recorded, ScratchInv
  <2> HIDE DEF S
  <2>3. /\ \A r \in S : Status[r] = "live"
        /\ Status' = [r \in Resource |-> IF r \in S THEN "condemned" ELSE Status[r]]
    BY <2>1, <2>2 DEF Status
  <2>4. Busy' \subseteq Busy
    <3>1. ASSUME NEW r \in Resource, InUse(r)' PROVE InUse(r)
      <4>1. ASSUME NEW u \in Thread, Recording(u)', NEW d \in held'[u], r \in content'[d].uses
            PROVE  InUse(r)
        <5>1. DOMAIN held = Thread /\ d \in held[u] /\ (u = t => d # c)
          BY <1>0, <2>1, <4>1, Types
        <5>2. d # c
          BY <1>0, <5>1 DEF ListsInv
        <5>3. content'[d] = content[d]
          BY <2>1, <5>2
        <5>4. CASE u # t
          BY <2>1, <4>1, <5>1, <5>3, <5>4 DEF InUse, Recording
        <5>5. CASE u = t
          <6>1. held[t] # {c}
            BY <5>1, <5>2, <5>5
          <6>2. call'[t] = call[t]
            BY <1>0, <1>5, <6>1, Types DEF RestoreCommandBuffer
          <6> QED
            BY <2>1, <4>1, <5>5, <6>2 DEF Recording
        <5> QED
          BY <5>4, <5>5
      <4> QED
        BY <2>1, <3>1, <4>1 DEF InUse
    <3> QED
      BY <3>1 DEF Busy
  <2>5. Busy \subseteq Busy'
    <3>1. ASSUME NEW r \in Resource, InUse(r) PROVE InUse(r)'
      <4>1. ASSUME NEW u \in Thread, Recording(u), NEW d \in held[u], r \in content[d].uses
            PROVE  InUse(r)'
        <5>1. u # t
          BY <2>1, <4>1 DEF Recording
        <5>2. d # c /\ held'[u] = held[u]
          BY <1>0, <2>1, <5>1, Types DEF ListsInv
        <5>3. content'[d] = content[d]
          BY <2>1, <5>2
        <5> QED
          BY <2>1, <4>1, <5>1, <5>2, <5>3 DEF InUse, Recording
      <4> QED
        BY <2>1, <3>1, <4>1 DEF InUse
    <3> QED
      BY <3>1 DEF Busy
  <2> QED
    BY <2>2, <2>3, <2>4, <2>5 DEF LifetimeStep
<1>6. ASSUME GcDelete PROVE LifetimeStep
  <2>1. PICK k \in 1 .. Len(deferredDeletes) : k = gc.at
    BY <1>0, <1>6, FirstOn DEF GcDelete
  <2>2. PICK r \in Resource : r = deferredDeletes[k].resource /\ life[r] = "zombie"
    BY <1>0, <2>1, Numbers DEF CondemnedInv
  <2>3. UNCHANGED <<driver, call, held, content>> /\ gc.phase = "deletes"
    BY <1>6 DEF GcDelete
  <2>4. CASE Ready(deferredDeletes[k]) /\ life' = [life EXCEPT ![r] = "destroyed"]
    <3>1. ~InUse(r)
      BY <1>0, <2>2, <2>3, <2>4, ReadyIsIdle
    <3>2. r \notin Members[r]
      <4> SUFFICES ASSUME r \in Members[r] PROVE FALSE
        OBVIOUS
      <4>1. DeletedAhead(deferredDeletes, r, r)
        BY <1>0, <2>2 DEF BlockInv
      <4>2. PICK i \in 1 .. Len(deferredDeletes) : i < k /\ deferredDeletes[i].resource = r
        BY <2>2, <4>1 DEF DeletedAhead
      <4> QED
        BY <1>0, <2>2, <4>2 DEF CondemnedInv
    <3>3. \A m \in Members[r] : life[m] = "destroyed"
      BY <1>0, <2>2, <2>4, <3>2 DEF MembersBeforeBlock
    <3>4. /\ Status[r] # "destroyed" /\ Status' = [Status EXCEPT ![r] = "destroyed"]
          /\ r \notin Busy /\ \A m \in Members[r] : Status[m] = "destroyed"
      BY <1>0, <2>2, <2>4, <3>1, <3>3 DEF Status, Busy
    <3>5. Busy' = Busy
      BY <1>b, <2>3
    <3> QED
      BY <3>4, <3>5 DEF LifetimeStep
  <2>5. CASE UNCHANGED life
    BY <1>2, <2>5
  <2> QED
    BY <1>6, <2>1, <2>2, <2>4, <2>5 DEF GcDelete
<1>7. ASSUME GcDrain PROVE LifetimeStep
  <2>1. onDestroy # <<>> /\ onDestroy \in Seq(Resource)
    BY <1>0, <1>7, GcCounts, Types DEF GcDrain
  <2>2. PICK r \in Resource : r = Head(onDestroy) /\ life[r] = "deferred"
    BY <1>0, <2>1, TailElements, ElementOfSeq DEF CondemnedInv
  <2>3. life' = [life EXCEPT ![r] = "zombie"] /\ UNCHANGED <<driver, call, held, content>>
    BY <1>7, <2>2 DEF GcDrain
  <2>4. Status' = Status
    BY <1>0, <2>2, <2>3 DEF Status
  <2>5. Busy' = Busy
    BY <1>b, <2>3
  <2> QED
    BY <2>4, <2>5 DEF LifetimeStep
<1>8. ASSUME NEW t \in Thread,
             AskForCommandBuffer(t) \/ TakeCommandBuffer(t) \/ SubmitNumber(t) \/ SubmitTrack(t)
             \/ SubmitExecute(t) \/ SubmitSnapshot(t) \/ SubmitSignal(t)
      PROVE  LifetimeStep
  BY <1>2, <1>8 DEF AskForCommandBuffer, TakeCommandBuffer, SubmitNumber, SubmitTrack, SubmitExecute,
                    SubmitSnapshot, SubmitSignal
<1>9. ASSUME NEW q \in Queue, GpuStep(q) PROVE LifetimeStep
  BY <1>2, <1>9 DEF GpuStep
<1>10. ASSUME GcBegin \/ GcSubmit \/ GcSubmitsDone \/ GcDeletesDone \/ GcEnd PROVE LifetimeStep
  BY <1>2, <1>10 DEF GcBegin, GcSubmit, GcSubmitsDone, GcDeletesDone, GcEnd
<1>11. ASSUME DtorWaitIdle \/ DtorEnd \/ UNCHANGED vars PROVE LifetimeStep
  BY <1>2, <1>11 DEF DtorWaitIdle, DtorEnd, vars
<1> QED
  BY <1>1, <1>3, <1>4, <1>5, <1>6, <1>7, <1>8, <1>9, <1>10, <1>11 DEF Next, SubmitStep, GcStep, Terminated

(* The DX12 backend keeps the promise IDevice makes about the life of a    *)
(* resource, for any queues, resources, scratch objects and blocks: each of*)
(* its steps is a step of ResourceLifetime.                                *)
THEOREM KeepsThePromise ==
  ASSUME OneThreadAQueue
  PROVE  Spec => LifetimeSpec
<1>1. Init => Lifetime!Init
  <2> SUFFICES ASSUME Init PROVE Lifetime!Init
    OBVIOUS
  <2>1. /\ \A t \in Thread : held[t] = {}
        /\ \A q \in Queue : DOMAIN driver[q] = {} /\ \A r \in Resource : life[r] = "live"
    BY DEF Init
  <2>2. \A r \in Resource : ~InUse(r) /\ life[r] = "live"
    BY <2>1 DEF InUse, Init
  <2> QED
    BY <2>2 DEF Lifetime!Init
<1>2. DeviceInv /\ [Next]_vars => [Lifetime!Next]_(Lifetime!vars)
  BY BackendStep, LifetimeStepRefines
<1> QED
  BY <1>1, <1>2, DeviceInvariant, PTL DEF Spec, LifetimeSpec, Lifetime!Spec
=============================================================================

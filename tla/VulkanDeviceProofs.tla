------------------------- MODULE VulkanDeviceProofs -------------------------
(***************************************************************************)
(* Theorems about VulkanDevice, for every value of its constants.  First   *)
(* its types, then the parts of IInv one at a time, each preserved by      *)
(* every step (together with the parts it leans on), and that destruction  *)
(* is safe; then the other parts of DeviceInv: the order in which          *)
(* resources are destroyed, what the destructor leaves, that command pools *)
(* go round; at the end that the backend keeps the promise of IDevice.     *)
(***************************************************************************)
EXTENDS VulkanDevice, SequenceLemmas, FunctionTheorems

-----------------------------------------------------------------------------
(* Types.                                                                  *)

(* A list that is not open is a command buffer record all the same.        *)
LEMMA ClosedType ==
  /\ Closed \in CommandBuffer
  /\ Closed.state = "closed" /\ Closed.uses = {}
<1>1. (CHOOSE q \in Queue : TRUE) \in Queue
  BY QueueAssumption
<1> QED
  BY <1>1 DEF Closed, NoPool, CommandBuffer

(* A new device has its types right. *)
LEMMA InitTypeOK == Init => TypeOK
  BY ClosedType, BoundAssumption, EmptySeq
  DEF Init, TypeOK, NoSubmit, SubmitCall, NoSnapshot, Timeline, Never, DtorCollects

(* Every step of the threads, the GPU, the collector and the destructor    *)
(* keeps the types.                                                        *)
LEMMA NextTypeOK == TypeOK /\ [Next]_vars => TypeOK'
<1> SUFFICES ASSUME TypeOK, [Next]_vars PROVE TypeOK'
  OBVIOUS
<1> USE DEF TypeOK, submitVars, listVars, lifeVars, gcVars, dtorVars
<1>0. /\ 0 \in Nat /\ 1 \in Nat /\ MaxSubmits \in Nat
      /\ Closed \in CommandBuffer /\ NoSubmit \in SubmitCall
      /\ \A q \in Queue : [stage |-> "none", value |-> 0, lists |-> {}] \in SubmitCall
  BY ClosedType, BoundAssumption DEF NoSubmit, SubmitCall, Timeline
<1>1. ASSUME NEW c \in List, NEW q \in Queue, CountOpen(c, q) PROVE TypeOK'
  <2>1. [Closed EXCEPT !.state = "counted", !.queue = q] \in CommandBuffer
    BY <1>0 DEF CommandBuffer
  <2>2. list' \in [List -> CommandBuffer]
    BY <1>1, <2>1 DEF CountOpen
  <2> QED
    BY <1>1, <2>2 DEF CountOpen
<1>2. ASSUME NEW c \in List, TakePool(c) PROVE TypeOK'
  <2> DEFINE q == list[c].queue
  <2>1. list[c] \in CommandBuffer /\ q \in Queue /\ freePools[q] \in Seq(Nat) /\ poolsMade[q] \in Nat
    BY DEF CommandBuffer
  <2>2. ASSUME NEW p \in Nat
        PROVE  [list EXCEPT ![c] = [@ EXCEPT !.state = "open", !.pool = p]] \in [List -> CommandBuffer]
    <3>1. [list[c] EXCEPT !.state = "open", !.pool = p] \in CommandBuffer
      BY <2>1 DEF CommandBuffer
    <3> QED
      BY <3>1
  <2>3. CASE /\ poolsMade' = [poolsMade EXCEPT ![q] = @ + 1]
             /\ list' = [list EXCEPT ![c] = [@ EXCEPT !.state = "open", !.pool = poolsMade[q] + 1]]
             /\ UNCHANGED freePools
    <3> HIDE DEF q
    <3>0. poolsMade[q] + 1 \in Nat
      BY <2>1
    <3>1. list' \in [List -> CommandBuffer]
      BY <2>2, <2>3, <3>0
    <3>2. poolsMade' \in [Queue -> Nat]
      BY <2>1, <2>3
    <3> QED
      BY <1>2, <2>3, <3>1, <3>2 DEF TakePool, q
  <2>4. CASE /\ freePools[q] # <<>>
             /\ freePools' = [freePools EXCEPT ![q] = Front(@)]
             /\ list' = [list EXCEPT ![c] = [@ EXCEPT !.state = "open", !.pool = Last(freePools[q])]]
             /\ UNCHANGED poolsMade
    <3>1. Last(freePools[q]) \in Nat /\ Front(freePools[q]) \in Seq(Nat)
      BY <2>1, <2>4, FrontLastType
    <3>2. list' \in [List -> CommandBuffer]
      BY <2>2, <2>4, <3>1
    <3>3. freePools' \in [Queue -> Seq(Nat)]
      BY <2>1, <2>4, <3>1
    <3> QED
      BY <1>2, <2>4, <3>2, <3>3 DEF TakePool
  <2> QED
    BY <1>2, <2>3, <2>4 DEF TakePool
<1>3. ASSUME NEW c \in List, NEW r \in Resource, Record(c, r) PROVE TypeOK'
  <2>1. [list[c] EXCEPT !.uses = @ \cup {r}] \in CommandBuffer
    BY ZenonT(60) DEF CommandBuffer
  <2>2. list' \in [List -> CommandBuffer]
    BY <1>3, <2>1 DEF Record
  <2> QED
    BY <1>3, <2>2 DEF Record
<1>4. ASSUME NEW q \in Queue, NEW cs \in SUBSET List, SubmitTrack(q, cs) PROVE TypeOK'
  <2> DEFINE value == cpuTimeline[q] + 1
  <2>1. value \in Timeline
    BY <1>4 DEF SubmitTrack
  <2>2. [queue |-> q, value |-> value] \in Pending
    BY <2>1 DEF Pending
  <2>3. [stage |-> "tracked", value |-> value, lists |-> cs] \in SubmitCall
    BY <2>1 DEF SubmitCall
  <2>4. ASSUME NEW c \in List PROVE [list[c] EXCEPT !.state = "submitted"] \in CommandBuffer
    BY ZenonT(60) DEF CommandBuffer
  <2> HIDE DEF value
  <2>5. cpuTimeline' \in [Queue -> Timeline] /\ submit' \in [Queue -> SubmitCall]
    BY <1>4, <2>1, <2>3 DEF SubmitTrack, value
  <2>6. pendingSubmits' \in Seq(Pending)
    BY <1>4, <2>2, AppendProperties DEF SubmitTrack, value
  <2>7. list' \in [List -> CommandBuffer]
    BY <1>4, <2>4 DEF SubmitTrack
  <2> QED
    BY <1>4, <2>5, <2>6, <2>7 DEF SubmitTrack
<1>5. ASSUME NEW q \in Queue, SubmitHand(q) PROVE TypeOK'
  <2>1. submit[q] \in SubmitCall /\ [submit[q] EXCEPT !.stage = "handed"] \in SubmitCall
    BY DEF SubmitCall
  <2>2. submit' \in [Queue -> SubmitCall]
    BY <1>0, <1>5, <2>1 DEF SubmitHand
  <2>3. WorkOf(q) \in Submission
    BY <2>1 DEF WorkOf, Submission, SubmitCall, CommandBuffer
  <2> QED
    BY <1>5, <2>2, <2>3 DEF SubmitHand
<1>6. ASSUME NEW q \in Queue, NEW c \in List, SubmitRetire(q, c) PROVE TypeOK'
  <2>1. submit[q] \in SubmitCall /\ [submit[q] EXCEPT !.lists = @ \ {c}] \in SubmitCall
    BY DEF SubmitCall
  <2>2. submit' \in [Queue -> SubmitCall]
    BY <1>0, <1>6, <2>1 DEF SubmitRetire
  <2>3. [queue |-> q, value |-> submit[q].value, pool |-> list[c].pool] \in ListZombie
    BY <2>1 DEF ListZombie, SubmitCall, CommandBuffer
  <2>4. listZombies' \in Seq(ListZombie)
    BY <1>6, <2>3, AppendProperties DEF SubmitRetire
  <2>5. list' \in [List -> CommandBuffer]
    BY <1>0, <1>6 DEF SubmitRetire
  <2> QED
    BY <1>6, <2>2, <2>4, <2>5 DEF SubmitRetire
<1>7. ASSUME NEW q \in Queue, GpuComplete(q) PROVE TypeOK'
  <2>1. PICK w \in inFlight : /\ inFlight' = inFlight \ {w}
                              /\ gpuTimeline' = [gpuTimeline EXCEPT ![q] = w.value]
    BY <1>7 DEF GpuComplete
  <2>2. w.value \in Timeline
    BY DEF Submission
  <2> QED
    BY <1>7, <2>1, <2>2 DEF GpuComplete
<1>8. ASSUME NEW r \in Resource, TryEnqueueDestroyDeferred(r) PROVE TypeOK'
  BY <1>8 DEF TryEnqueueDestroyDeferred
<1>9. ASSUME NEW r \in Resource, DestroyImmediately(r) PROVE TypeOK'
  BY <1>9 DEF DestroyImmediately
<1>10. ASSUME GcBegin PROVE TypeOK'
  BY <1>10 DEF GcBegin, DtorCollects
<1>11. ASSUME GcList PROVE TypeOK'
  <2> DEFINE z == listZombies[gcAt]
  <2>1. gcAt \in 1 .. Len(listZombies)
    BY <1>11, LenProperties DEF GcList
  <2>2. CASE /\ freePools' = [freePools EXCEPT ![z.queue] = Append(@, z.pool)]
             /\ listZombies' = RemoveAt(listZombies, gcAt)
             /\ UNCHANGED gcAt
    <3>1. z \in ListZombie
      BY <2>1, ElementOfSeq
    <3>2. z.queue \in Queue /\ z.pool \in Nat
      BY <3>1 DEF ListZombie
    <3>3. freePools' \in [Queue -> Seq(Nat)]
      BY <2>2, <3>2, AppendProperties
    <3>4. listZombies' \in Seq(ListZombie)
      BY <2>1, <2>2, RemoveAtProperties
    <3> QED
      BY <1>11, <2>2, <3>3, <3>4 DEF GcList
  <2>3. CASE gcAt' = gcAt + 1 /\ UNCHANGED <<freePools, listZombies>>
    BY <1>11, <2>3 DEF GcList
  <2> QED
    BY <1>11, <2>2, <2>3 DEF GcList
<1>12. ASSUME GcListsDone PROVE TypeOK'
  BY <1>0, <1>12 DEF GcListsDone, Never
<1>13. ASSUME GcSubmit PROVE TypeOK'
  <2> DEFINE s == pendingSubmits[gcAt]
  <2>1. gcAt \in 1 .. Len(pendingSubmits)
    BY <1>13, LenProperties DEF GcSubmit
  <2>2. s \in Pending
    BY <2>1, ElementOfSeq
  <2>3. s.queue \in Queue /\ gpuTimeline[s.queue] \in 0 .. Never
    <3>1. s.queue \in Queue
      BY <2>2 DEF Pending
    <3> HIDE DEF s
    <3>2. gpuTimeline[s.queue] \in Timeline
      BY <3>1
    <3> QED
      BY <1>0, <3>1, <3>2 DEF Timeline, Never
  <2>4. CASE pendingSubmits' = RemoveAt(pendingSubmits, gcAt) /\ UNCHANGED <<gcAt, oldest>>
    <3>1. pendingSubmits' \in Seq(Pending)
      BY <2>1, <2>4, RemoveAtProperties
    <3> QED
      BY <1>13, <2>4, <3>1 DEF GcSubmit
  <2>5. CASE /\ oldest' = [oldest EXCEPT ![s.queue] = IF @ <= gpuTimeline[s.queue] THEN @ ELSE gpuTimeline[s.queue]]
             /\ gcAt' = gcAt + 1
             /\ UNCHANGED pendingSubmits
    <3>1. oldest' \in [Queue -> 0 .. Never]
      BY <2>3, <2>5
    <3> QED
      BY <1>13, <2>5, <3>1 DEF GcSubmit
  <2> QED
    BY <1>13, <2>4, <2>5 DEF GcSubmit
<1>14. ASSUME GcSubmitsDone PROVE TypeOK'
  BY <1>14 DEF GcSubmitsDone
<1>15. ASSUME GcZombie PROVE TypeOK'
  <2> DEFINE r == resourceZombies[gcAt]
  <2>1. gcAt \in 1 .. Len(resourceZombies)
    BY <1>15, LenProperties DEF GcZombie
  <2>2. r \in Resource /\ RemoveAt(resourceZombies, gcAt) \in Seq(Resource)
    BY <2>1, ElementOfSeq, RemoveAtProperties
  <2>3. NoSnapshot \in [Queue -> Timeline]
    BY <1>0 DEF NoSnapshot, Timeline
  <2>4. CASE /\ life' = [life EXCEPT ![r] = "destroyed"]
             /\ resourceZombies' = RemoveAt(resourceZombies, gcAt)
             /\ snapshot' = [snapshot EXCEPT ![r] = NoSnapshot]
             /\ UNCHANGED gcAt
    <3>1. /\ life' \in [Resource -> {"live", "deferred", "zombie", "destroyed"}]
          /\ snapshot' \in [Resource -> [Queue -> Timeline]]
      BY <2>2, <2>3, <2>4
    <3> QED
      BY <1>15, <2>2, <2>4, <3>1 DEF GcZombie
  <2>5. CASE gcAt' = gcAt + 1 /\ UNCHANGED <<life, snapshot, resourceZombies>>
    BY <1>15, <2>5 DEF GcZombie
  <2> QED
    BY <1>15, <2>4, <2>5 DEF GcZombie
<1>16. ASSUME GcZombiesDone PROVE TypeOK'
  BY <1>16 DEF GcZombiesDone
<1>17. ASSUME GcDrain PROVE TypeOK'
  <2>1. Head(destroyDeferred) \in Resource /\ Tail(destroyDeferred) \in Seq(Resource)
    BY <1>17, HeadTailProperties DEF GcDrain
  <2>2. resourceZombies' \in Seq(Resource)
    BY <1>17, <2>1, AppendProperties DEF GcDrain
  <2> QED
    BY <1>17, <2>1, <2>2 DEF GcDrain
<1>18. ASSUME GcEnd PROVE TypeOK'
  BY <1>0, <1>18 DEF GcEnd, Never
<1>19. ASSUME DtorWaitIdle PROVE TypeOK'
  BY <1>19 DEF DtorWaitIdle
<1>20. ASSUME DtorEnd PROVE TypeOK'
  BY <1>20 DEF DtorEnd
<1>21. CASE UNCHANGED vars
  BY <1>21 DEF vars
<1> QED
  BY <1>1, <1>2, <1>3, <1>4, <1>5, <1>6, <1>7, <1>8, <1>9, <1>10, <1>11, <1>12, <1>13, <1>14, <1>15, <1>16, <1>17, <1>18, <1>19, <1>20, <1>21 DEF Next, GcStep, Terminated

(* Type correctness of VulkanDevice, for any queues, lists, resources and  *)
(* memory blocks and any number of submissions.                            *)
THEOREM TypeCorrect == Spec => []TypeOK
<1>1. Init => TypeOK
  BY InitTypeOK
<1>2. TypeOK /\ [Next]_vars => TypeOK'
  BY NextTypeOK
<1> QED
  BY <1>1, <1>2, PTL DEF Spec

-----------------------------------------------------------------------------
(* The locks.                                                              *)

(* The actions that touch neither a list nor a SubmitQueue call, and do    *)
(* not take the exclusive lock.                                            *)
OffLock ==
  /\ UNCHANGED <<list, submit>>
  /\ gcPhase' # "idle" => gcPhase # "idle"

(* No step breaks the discipline of the two locks. *)
LEMMA LockStep == TypeOK /\ LockInv /\ [Next]_vars => LockInv'
<1> SUFFICES ASSUME TypeOK, LockInv, [Next]_vars PROVE LockInv'
  OBVIOUS
<1> USE DEF submitVars, listVars, lifeVars, gcVars, dtorVars
<1>0. /\ \A q \in Queue : submit[q] \in SubmitCall
      /\ submit \in [Queue -> SubmitCall]
      /\ list \in [List -> CommandBuffer]
      /\ \A c \in List : list[c] \in CommandBuffer
  BY DEF TypeOK
<1>1. ASSUME NEW c \in List, NEW q \in Queue, CountOpen(c, q) PROVE LockInv'
  <2>1. /\ list[c].state = "closed" /\ list[c].uses = {} /\ gcPhase' = "idle"
        /\ list' = [list EXCEPT ![c] = [Closed EXCEPT !.state = "counted", !.queue = q]]
        /\ submit' = submit
    BY <1>1 DEF CountOpen, SharedAccess, LockInv
  <2>2. list'[c].state = "counted"
    BY <1>0, <2>1, ClosedType DEF CommandBuffer
  <2>3. \A p \in Queue : c \notin submit[p].lists
    BY <2>1 DEF LockInv
  <2>4. \A d \in List : d # c => list'[d] = list[d]
    BY <1>0, <2>1
  <2> QED
    BY <1>0, <2>1, <2>2, <2>3, <2>4 DEF LockInv, SubmitCall
<1>2. ASSUME NEW c \in List, TakePool(c) PROVE LockInv'
  <2>1. PICK p : list' = [list EXCEPT ![c] = [@ EXCEPT !.state = "open", !.pool = p]]
    BY <1>2 DEF TakePool
  <2>2. list[c].state = "counted" /\ gcPhase = "idle" /\ gcPhase' = gcPhase /\ submit' = submit
    BY <1>2 DEF TakePool, LockInv, TypeOK
  <2>3. list'[c].state = "open" /\ \A d \in List : d # c => list'[d] = list[d]
    BY <1>0, <2>1 DEF CommandBuffer
  <2>4. \A q \in Queue : c \notin submit[q].lists
    BY <2>2 DEF LockInv
  <2> QED
    BY <1>0, <2>2, <2>3, <2>4 DEF LockInv, SubmitCall
<1>3. ASSUME NEW c \in List, NEW r \in Resource, Record(c, r) PROVE LockInv'
  <2>1. /\ list[c].state = "open" /\ gcPhase' = gcPhase /\ submit' = submit
        /\ list' = [list EXCEPT ![c].uses = @ \cup {r}]
    BY <1>3 DEF Record
  <2>2. list'[c].state = "open" /\ \A d \in List : d # c => list'[d] = list[d]
    BY <1>0, <2>1 DEF CommandBuffer
  <2>3. (\A q \in Queue : c \notin submit[q].lists) /\ gcPhase = "idle"
    BY <2>1 DEF LockInv
  <2> QED
    BY <1>0, <2>1, <2>2, <2>3 DEF LockInv, SubmitCall
<1>4. ASSUME NEW q \in Queue, NEW cs \in SUBSET List, SubmitTrack(q, cs) PROVE LockInv'
  <2>1. /\ gcPhase = "idle" /\ gcPhase' = gcPhase
        /\ \A c \in cs : list[c].state = "open" /\ list[c].queue = q
        /\ list' = [c \in List |-> IF c \in cs THEN [list[c] EXCEPT !.state = "submitted"] ELSE list[c]]
        /\ submit' = [submit EXCEPT ![q] = [stage |-> "tracked", value |-> cpuTimeline[q] + 1, lists |-> cs]]
    BY <1>4 DEF SubmitTrack, SharedAccess
  <2>2. /\ \A c \in cs : list'[c].state = "submitted" /\ list'[c].queue = q
        /\ \A c \in List : c \notin cs => list'[c] = list[c]
    BY <1>0, <2>1 DEF CommandBuffer
  <2>3. submit'[q].lists = cs /\ \A p \in Queue : p # q => submit'[p] = submit[p]
    BY <1>0, <2>1
  <2>4. \A p \in Queue : p # q => \A c \in submit[p].lists : c \in List /\ c \notin cs
    BY <1>0, <2>1 DEF LockInv, SubmitCall
  <2> QED
    BY <1>0, <2>1, <2>2, <2>3, <2>4 DEF LockInv
<1>5. ASSUME NEW q \in Queue, SubmitHand(q) PROVE LockInv'
  <2>1. /\ submit[q].stage = "tracked" /\ gcPhase' = gcPhase /\ list' = list
        /\ submit' = [submit EXCEPT ![q] = IF @.lists = {} THEN NoSubmit ELSE [@ EXCEPT !.stage = "handed"]]
    BY <1>5 DEF SubmitHand
  <2>2. submit'[q].lists = submit[q].lists /\ \A p \in Queue : p # q => submit'[p] = submit[p]
    BY <1>0, <2>1 DEF NoSubmit, SubmitCall
  <2>3. gcPhase = "idle"
    BY <2>1 DEF LockInv
  <2> QED
    BY <1>0, <2>1, <2>2, <2>3 DEF LockInv
<1>6. ASSUME NEW q \in Queue, NEW c \in List, SubmitRetire(q, c) PROVE LockInv'
  <2>1. /\ submit[q].stage = "handed" /\ c \in submit[q].lists /\ gcPhase' = gcPhase
        /\ list' = [list EXCEPT ![c] = Closed]
        /\ submit' = [submit EXCEPT ![q] =
                         IF submit[q].lists \ {c} = {} THEN NoSubmit
                         ELSE [@ EXCEPT !.lists = submit[q].lists \ {c}]]
    BY <1>6 DEF SubmitRetire
  <2>2. gcPhase = "idle"
    BY <2>1 DEF LockInv
  <2>3. submit'[q].lists = submit[q].lists \ {c} /\ \A p \in Queue : p # q => submit'[p] = submit[p]
    BY <1>0, <2>1 DEF NoSubmit, SubmitCall
  <2>4. list'[c] = Closed /\ \A d \in List : d # c => list'[d] = list[d]
    BY <1>0, <2>1
  <2>5. \A p \in Queue : p # q => c \notin submit[p].lists
    BY <2>1 DEF LockInv
  <2> QED
    BY <1>0, <2>1, <2>2, <2>3, <2>4, <2>5, ClosedType DEF LockInv, SubmitCall
<1>7. ASSUME GcBegin PROVE LockInv'
  BY <1>0, <1>7 DEF GcBegin, ExclusiveAccess, AreCommandListsOpen, OpenCommands, LockInv, CommandBuffer
<1>8. CASE OffLock
  BY <1>8 DEF OffLock, LockInv
<1>9. ASSUME NEW q \in Queue, GpuComplete(q) PROVE OffLock
  BY <1>9 DEF GpuComplete, OffLock
<1>10. ASSUME NEW r \in Resource, TryEnqueueDestroyDeferred(r) \/ DestroyImmediately(r) PROVE OffLock
  BY <1>10 DEF TryEnqueueDestroyDeferred, DestroyImmediately, OffLock
<1>11. ASSUME GcStep PROVE OffLock
  BY <1>11 DEF GcStep, GcList, GcListsDone, GcSubmit, GcSubmitsDone, GcZombie, GcZombiesDone,
               GcDrain, GcEnd, OffLock
<1>12. ASSUME DtorWaitIdle \/ DtorEnd \/ UNCHANGED vars PROVE OffLock
  BY <1>12 DEF DtorWaitIdle, DtorEnd, vars, OffLock
<1> QED
  BY <1>1, <1>2, <1>3, <1>4, <1>5, <1>6, <1>7, <1>8, <1>9, <1>10, <1>11, <1>12 DEF Next, Terminated

-----------------------------------------------------------------------------
(* The timelines.                                                          *)

(* The actions that touch no timeline, submission or pending submit. *)
OffTimeline == UNCHANGED <<cpuTimeline, gpuTimeline, pendingSubmits, inFlight, submit>>

(* A submission added to the pending ones hides none of the others.        *)
LEMMA AppendTracked ==
  ASSUME TypeOK, NEW q \in Queue, NEW value \in Timeline,
         pendingSubmits' = Append(pendingSubmits, [queue |-> q, value |-> value])
  PROVE  /\ \A p \in Queue, n \in Timeline : Tracked(p, n) => Tracked(p, n)'
         /\ Tracked(q, value)'
<1> DEFINE e == [queue |-> q, value |-> value]
<1>1. e \in Pending
  BY DEF Pending
<1>2. /\ Len(pendingSubmits) \in Nat
      /\ Len(pendingSubmits') = Len(pendingSubmits) + 1
      /\ \A i \in 1 .. Len(pendingSubmits) : pendingSubmits'[i] = pendingSubmits[i]
      /\ pendingSubmits'[Len(pendingSubmits) + 1] = e
  BY <1>1, AppendProperties, LenProperties DEF TypeOK
<1> QED
  BY <1>2 DEF Tracked

(* What GcSubmit forgets is complete: the others stay on record. *)
LEMMA RemoveTracked ==
  ASSUME TypeOK, NEW k \in 1 .. Len(pendingSubmits), Completed(pendingSubmits[k]),
         pendingSubmits' = RemoveAt(pendingSubmits, k), UNCHANGED gpuTimeline,
         NEW q \in Queue, NEW value \in Timeline, gpuTimeline[q] < value, Tracked(q, value)
  PROVE  Tracked(q, value)'
<1>1. PICK i \in 1 .. Len(pendingSubmits) : pendingSubmits[i] = [queue |-> q, value |-> value]
  BY DEF Tracked
<1>2. i # k
  BY <1>1, BoundAssumption DEF Completed, TypeOK, Timeline
<1>3. /\ Len(pendingSubmits) \in Nat
      /\ Len(pendingSubmits') = Len(pendingSubmits) - 1
      /\ \A j \in 1 .. Len(pendingSubmits) - 1 :
           pendingSubmits'[j] = IF j < k THEN pendingSubmits[j] ELSE pendingSubmits[j + 1]
  BY RemoveAtProperties, LenProperties DEF TypeOK
<1>4. CASE i < k
  <2>1. i \in 1 .. Len(pendingSubmits') /\ pendingSubmits'[i] = pendingSubmits[i]
    BY <1>3, <1>4
  <2> QED
    BY <1>1, <2>1 DEF Tracked
<1>5. CASE i > k
  <2>1. i - 1 \in 1 .. Len(pendingSubmits') /\ pendingSubmits'[i - 1] = pendingSubmits[i]
    BY <1>3, <1>5
  <2> QED
    BY <1>1, <2>1 DEF Tracked
<1> QED
  BY <1>2, <1>4, <1>5

(* Every unfinished submission stays numbered and on record. *)
LEMMA TimelineStep == TypeOK /\ LockInv /\ TimelineInv /\ [Next]_vars => TimelineInv'
<1> SUFFICES ASSUME TypeOK, LockInv, TimelineInv, [Next]_vars PROVE TimelineInv'
  OBVIOUS
<1> USE DEF submitVars, listVars, lifeVars, gcVars, dtorVars
<1>0. /\ MaxSubmits \in Nat /\ Timeline \subseteq Nat
      /\ cpuTimeline \in [Queue -> Timeline] /\ gpuTimeline \in [Queue -> Timeline]
      /\ submit \in [Queue -> SubmitCall]
      /\ \A q \in Queue : submit[q].value \in Nat /\ submit[q].value \in Timeline
      /\ \A q \in Queue : cpuTimeline[q] \in Nat /\ gpuTimeline[q] \in Nat
      /\ \A w \in inFlight : w.value \in Nat
      /\ \A w \in inFlight : w.queue \in Queue /\ w.value \in Timeline
  BY BoundAssumption DEF TypeOK, Timeline, SubmitCall, Submission
<1>4. ASSUME NEW q \in Queue, NEW cs \in SUBSET List, SubmitTrack(q, cs) PROVE TimelineInv'
  <2>0. PICK value \in Timeline : value = cpuTimeline[q] + 1
    BY <1>4 DEF SubmitTrack
  <2>1. /\ submit[q].stage = "none"
        /\ cpuTimeline' = [cpuTimeline EXCEPT ![q] = value]
        /\ pendingSubmits' = Append(pendingSubmits, [queue |-> q, value |-> value])
        /\ submit' = [submit EXCEPT ![q] = [stage |-> "tracked", value |-> value, lists |-> cs]]
        /\ gpuTimeline' = gpuTimeline /\ inFlight' = inFlight
    BY <1>4, <2>0 DEF SubmitTrack
  <2>2. value \in Nat /\ cpuTimeline[q] < value
    BY <1>0, <2>0
  <2>3. /\ \A p \in Queue, n \in Timeline : Tracked(p, n) => Tracked(p, n)'
        /\ Tracked(q, value)'
    BY <2>1, AppendTracked
  <2>4. /\ cpuTimeline'[q] = value
        /\ \A p \in Queue : p # q => cpuTimeline'[p] = cpuTimeline[p]
        /\ submit'[q].stage = "tracked" /\ submit'[q].value = value
        /\ \A p \in Queue : p # q => submit'[p] = submit[p]
    BY <1>0, <2>1
  <2>5. \A p \in Queue : gpuTimeline'[p] <= cpuTimeline'[p]
    BY <1>0, <2>1, <2>2, <2>4 DEF TimelineInv
  <2>6. \A w \in inFlight' : /\ gpuTimeline'[w.queue] < w.value
                              /\ w.value <= cpuTimeline'[w.queue]
                              /\ Tracked(w.queue, w.value)'
    BY <1>0, <2>1, <2>3, <2>2, <2>4 DEF TimelineInv
  <2>7. \A v, w \in inFlight' : v.queue = w.queue /\ v.value = w.value => v = w
    BY <2>1 DEF TimelineInv
  <2>8. ASSUME NEW p \in Queue, submit'[p].stage = "tracked"
        PROVE  /\ submit'[p].value = cpuTimeline'[p]
               /\ gpuTimeline'[p] < submit'[p].value
               /\ Tracked(p, submit[p].value)'
               /\ \A w \in inFlight' : w.queue = p => w.value < submit'[p].value
    <3>1. CASE p = q
      <4>1. \A n \in Nat : n <= cpuTimeline[q] => n < value
        BY <1>0, <2>2
      <4> QED
        BY <1>0, <2>1, <2>3, <2>4, <3>1, <4>1 DEF TimelineInv
    <3>2. CASE p # q
      BY <1>0, <2>1, <2>3, <2>4, <2>8, <3>2 DEF TimelineInv
    <3> QED
      BY <3>1, <3>2
  <2> QED
    BY <2>5, <2>6, <2>7, <2>8 DEF TimelineInv
<1>5. ASSUME NEW q \in Queue, SubmitHand(q) PROVE TimelineInv'
  <2>1. /\ submit[q].stage = "tracked"
        /\ inFlight' = inFlight \cup {WorkOf(q)}
        /\ submit' = [submit EXCEPT ![q] = IF @.lists = {} THEN NoSubmit ELSE [@ EXCEPT !.stage = "handed"]]
        /\ UNCHANGED <<cpuTimeline, pendingSubmits, gpuTimeline>>
    BY <1>5 DEF SubmitHand
  <2>2. WorkOf(q).queue = q /\ WorkOf(q).value = submit[q].value
    BY DEF WorkOf
  <2>3. submit'[q].stage # "tracked" /\ \A p \in Queue : p # q => submit'[p] = submit[p]
    BY <1>0, <2>1 DEF NoSubmit, SubmitCall
  <2>4. \A p \in Queue, n \in Timeline : Tracked(p, n) => Tracked(p, n)'
    BY <2>1 DEF Tracked
  <2>5. \A w \in inFlight' : /\ gpuTimeline'[w.queue] < w.value
                              /\ w.value <= cpuTimeline'[w.queue]
                              /\ Tracked(w.queue, w.value)'
    BY <1>0, <2>1, <2>2, <2>4 DEF TimelineInv
  <2>6. \A v, w \in inFlight' : v.queue = w.queue /\ v.value = w.value => v = w
    BY <1>0, <2>1, <2>2 DEF TimelineInv
  <2>7. \A p \in Queue : submit'[p].stage = "tracked" =>
          /\ submit'[p].value = cpuTimeline'[p]
          /\ gpuTimeline'[p] < submit'[p].value
          /\ Tracked(p, submit[p].value)'
          /\ \A w \in inFlight' : w.queue = p => w.value < submit'[p].value
    BY <1>0, <2>1, <2>2, <2>3, <2>4 DEF TimelineInv
  <2> QED
    BY <2>1, <2>5, <2>6, <2>7 DEF TimelineInv
<1>6. ASSUME NEW q \in Queue, NEW c \in List, SubmitRetire(q, c) PROVE TimelineInv'
  <2>1. /\ submit[q].stage = "handed"
        /\ submit' = [submit EXCEPT ![q] =
                         IF submit[q].lists \ {c} = {} THEN NoSubmit
                         ELSE [@ EXCEPT !.lists = submit[q].lists \ {c}]]
        /\ UNCHANGED <<cpuTimeline, pendingSubmits, gpuTimeline, inFlight>>
    BY <1>6 DEF SubmitRetire
  <2>2. submit'[q].stage # "tracked" /\ \A p \in Queue : p # q => submit'[p] = submit[p]
    BY <1>0, <2>1 DEF NoSubmit, SubmitCall
  <2>3. \A p \in Queue, n \in Timeline : Tracked(p, n) => Tracked(p, n)'
    BY <2>1 DEF Tracked
  <2> QED
    BY <1>0, <2>1, <2>2, <2>3 DEF TimelineInv
<1>7. ASSUME NEW q \in Queue, GpuComplete(q) PROVE TimelineInv'
  <2>1. PICK w \in inFlight :
          /\ w.queue = q
          /\ \A v \in inFlight : v.queue = q => w.value <= v.value
          /\ inFlight' = inFlight \ {w}
          /\ gpuTimeline' = [gpuTimeline EXCEPT ![q] = w.value]
    BY <1>7 DEF GpuComplete
  <2>2. UNCHANGED <<cpuTimeline, pendingSubmits, submit>>
    BY <1>7 DEF GpuComplete
  <2>3. gpuTimeline'[q] = w.value /\ \A p \in Queue : p # q => gpuTimeline'[p] = gpuTimeline[p]
    BY <1>0, <2>1
  <2>4. \A p \in Queue, n \in Timeline : Tracked(p, n) => Tracked(p, n)'
    BY <2>2 DEF Tracked
  <2>5. \A v \in inFlight' : v.queue = q => w.value < v.value
    <3>1. \A v \in inFlight' : v \in inFlight /\ v # w
      BY <2>1
    <3>2. \A v \in inFlight' : v.queue = q => w.value <= v.value /\ v.value # w.value
      BY <2>1, <3>1 DEF TimelineInv
    <3>3. w.value \in Nat /\ \A v \in inFlight' : v.value \in Nat
      BY <1>0, <3>1
    <3> QED
      BY <3>2, <3>3
  <2>6. \A p \in Queue : gpuTimeline'[p] <= cpuTimeline'[p]
    BY <1>0, <2>1, <2>2, <2>3 DEF TimelineInv
  <2>7. \A v \in inFlight' : /\ gpuTimeline'[v.queue] < v.value
                              /\ v.value <= cpuTimeline'[v.queue]
                              /\ Tracked(v.queue, v.value)'
    BY <1>0, <2>1, <2>2, <2>3, <2>4, <2>5 DEF TimelineInv
  <2>8. \A u, v \in inFlight' : u.queue = v.queue /\ u.value = v.value => u = v
    BY <2>1 DEF TimelineInv
  <2>9. \A p \in Queue : submit'[p].stage = "tracked" =>
          /\ submit'[p].value = cpuTimeline'[p]
          /\ gpuTimeline'[p] < submit'[p].value
          /\ Tracked(p, submit[p].value)'
          /\ \A v \in inFlight' : v.queue = p => v.value < submit'[p].value
    BY <1>0, <2>1, <2>2, <2>3, <2>4 DEF TimelineInv
  <2> QED
    BY <2>2, <2>6, <2>7, <2>8, <2>9 DEF TimelineInv
<1>8. ASSUME GcSubmit PROVE TimelineInv'
  <2>1. /\ gcAt \in 1 .. Len(pendingSubmits)
        /\ UNCHANGED <<cpuTimeline, gpuTimeline, inFlight, submit>>
        /\ \A q \in Queue : submit[q].stage = "none"
    BY <1>8, LenProperties DEF GcSubmit, TypeOK, LockInv
  <2>2. CASE Completed(pendingSubmits[gcAt]) /\ pendingSubmits' = RemoveAt(pendingSubmits, gcAt)
    <3>1. \A w \in inFlight : Tracked(w.queue, w.value)'
      BY <1>0, <2>1, <2>2, RemoveTracked DEF TimelineInv
    <3> QED
      BY <2>1, <3>1 DEF TimelineInv
  <2>3. CASE UNCHANGED pendingSubmits
    BY <2>1, <2>3 DEF TimelineInv, Tracked
  <2> QED
    BY <1>8, <2>2, <2>3 DEF GcSubmit
<1>9. CASE OffTimeline
  BY <1>9 DEF OffTimeline, TimelineInv, Tracked
<1>10. ASSUME NEW c \in List, NEW q \in Queue, CountOpen(c, q) PROVE OffTimeline
  BY <1>10 DEF CountOpen, OffTimeline
<1>11. ASSUME NEW c \in List, TakePool(c) PROVE OffTimeline
  BY <1>11 DEF TakePool, OffTimeline
<1>15. ASSUME NEW c \in List, NEW r \in Resource, Record(c, r) PROVE OffTimeline
  BY <1>15 DEF Record, OffTimeline
<1>12. ASSUME NEW r \in Resource, TryEnqueueDestroyDeferred(r) \/ DestroyImmediately(r) PROVE OffTimeline
  BY <1>12 DEF TryEnqueueDestroyDeferred, DestroyImmediately, OffTimeline
<1>13. ASSUME GcBegin \/ GcList \/ GcListsDone \/ GcSubmitsDone \/ GcZombie \/ GcZombiesDone \/ GcDrain \/ GcEnd
       PROVE  OffTimeline
  BY <1>13 DEF GcBegin, GcList, GcListsDone, GcSubmitsDone, GcZombie, GcZombiesDone, GcDrain, GcEnd, OffTimeline
<1>14. ASSUME DtorWaitIdle \/ DtorEnd \/ UNCHANGED vars PROVE OffTimeline
  BY <1>14 DEF DtorWaitIdle, DtorEnd, vars, OffTimeline
<1> QED
  BY <1>4, <1>5, <1>6, <1>7, <1>8, <1>9, <1>10, <1>11, <1>12, <1>13, <1>14, <1>15 DEF Next, GcStep, Terminated

-----------------------------------------------------------------------------
(* The vectors of condemned resources.                                     *)

(* Each condemned resource stays in one vector, at one place. *)
LEMMA CondemnedStep == TypeOK /\ CondemnedInv /\ [Next]_vars => CondemnedInv'
<1> SUFFICES ASSUME TypeOK, CondemnedInv, [Next]_vars PROVE CondemnedInv'
  OBVIOUS
<1> USE DEF submitVars, listVars, lifeVars, gcVars, dtorVars
<1>0. /\ life \in [Resource -> {"live", "deferred", "zombie", "destroyed"}]
      /\ destroyDeferred \in Seq(Resource) /\ resourceZombies \in Seq(Resource)
      /\ Len(destroyDeferred) \in Nat /\ Len(resourceZombies) \in Nat
      /\ \A i \in 1 .. Len(destroyDeferred) : destroyDeferred[i] \in Resource
      /\ \A i \in 1 .. Len(resourceZombies) : resourceZombies[i] \in Resource
  BY LenProperties, ElementOfSeq DEF TypeOK
<1>1. ASSUME NEW r \in Resource, TryEnqueueDestroyDeferred(r) PROVE CondemnedInv'
  <2>1. /\ life[r] = "live" /\ life' = [life EXCEPT ![r] = "deferred"]
        /\ destroyDeferred' = Append(destroyDeferred, r) /\ UNCHANGED resourceZombies
    BY <1>1 DEF TryEnqueueDestroyDeferred, MayGiveUp
  <2>2. /\ Len(destroyDeferred') = Len(destroyDeferred) + 1
        /\ \A i \in 1 .. Len(destroyDeferred) : destroyDeferred'[i] = destroyDeferred[i]
        /\ destroyDeferred'[Len(destroyDeferred) + 1] = r
    BY <1>0, <2>1, AppendProperties
  <2>3. life'[r] = "deferred" /\ \A s \in Resource : s # r => life'[s] = life[s]
    BY <1>0, <2>1
  <2>4. /\ \A i \in 1 .. Len(destroyDeferred) : destroyDeferred[i] # r
        /\ \A i \in 1 .. Len(resourceZombies) : resourceZombies[i] # r
    BY <2>1 DEF CondemnedInv
  <2>5. \A i \in 1 .. Len(destroyDeferred') :
          i = Len(destroyDeferred) + 1 \/ i \in 1 .. Len(destroyDeferred)
    BY <1>0, <2>2
  <2>6. \A i \in 1 .. Len(destroyDeferred') : life'[destroyDeferred'[i]] = "deferred"
    BY <1>0, <2>2, <2>3, <2>4, <2>5 DEF CondemnedInv
  <2>7. \A i, j \in 1 .. Len(destroyDeferred') : destroyDeferred'[i] = destroyDeferred'[j] => i = j
    BY <2>2, <2>4, <2>5 DEF CondemnedInv
  <2>8. \A i \in 1 .. Len(resourceZombies) : life'[resourceZombies[i]] = "zombie"
    BY <1>0, <2>3, <2>4 DEF CondemnedInv
  <2> QED
    BY <2>1, <2>6, <2>7, <2>8 DEF CondemnedInv
<1>2. ASSUME NEW r \in Resource, DestroyImmediately(r) PROVE CondemnedInv'
  <2>1. /\ life[r] = "live" /\ life' = [life EXCEPT ![r] = "destroyed"]
        /\ UNCHANGED <<destroyDeferred, resourceZombies>>
    BY <1>2 DEF DestroyImmediately, MayGiveUp
  <2>2. \A s \in Resource : s # r => life'[s] = life[s]
    BY <1>0, <2>1
  <2> QED
    BY <1>0, <2>1, <2>2 DEF CondemnedInv
<1>3. ASSUME GcZombie PROVE CondemnedInv'
  <2>1. gcAt \in 1 .. Len(resourceZombies) /\ UNCHANGED destroyDeferred
    BY <1>0, <1>3 DEF GcZombie, TypeOK
  <2>2. CASE /\ life' = [life EXCEPT ![resourceZombies[gcAt]] = "destroyed"]
             /\ resourceZombies' = RemoveAt(resourceZombies, gcAt)
    <3>1. PICK k \in 1 .. Len(resourceZombies) : k = gcAt
      BY <2>1
    <3>2. /\ Len(resourceZombies') = Len(resourceZombies) - 1
          /\ \A j \in 1 .. Len(resourceZombies) - 1 :
               resourceZombies'[j] = IF j < k THEN resourceZombies[j] ELSE resourceZombies[j + 1]
      BY <1>0, <2>2, <3>1, RemoveAtProperties
    <3>3. \A s \in Resource : s # resourceZombies[k] => life'[s] = life[s]
      BY <1>0, <2>2, <3>1
    <3>4. \A i \in 1 .. Len(destroyDeferred) : destroyDeferred[i] # resourceZombies[k]
      BY <3>1 DEF CondemnedInv
    <3>5. \A i \in 1 .. Len(resourceZombies') : life'[resourceZombies'[i]] = "zombie"
      <4> TAKE i \in 1 .. Len(resourceZombies')
      <4>1. PICK j \in 1 .. Len(resourceZombies) : resourceZombies'[i] = resourceZombies[j] /\ j # k
        <5>1. i \in 1 .. Len(resourceZombies) - 1
          BY <3>2
        <5>2. CASE i < k
          BY <1>0, <3>2, <5>1, <5>2
        <5>3. CASE ~(i < k)
          <6>1. i + 1 \in 1 .. Len(resourceZombies) /\ i + 1 # k
            BY <1>0, <5>1, <5>3
          <6> QED
            BY <3>2, <5>1, <5>3, <6>1
        <5> QED
          BY <5>2, <5>3
      <4> QED
        BY <1>0, <3>3, <4>1 DEF CondemnedInv
    <3>6. \A i, j \in 1 .. Len(resourceZombies') : resourceZombies'[i] = resourceZombies'[j] => i = j
      <4> TAKE i, j \in 1 .. Len(resourceZombies')
      <4> DEFINE at(n) == IF n < k THEN n ELSE n + 1
      <4>0. i \in 1 .. Len(resourceZombies) - 1 /\ j \in 1 .. Len(resourceZombies) - 1
        BY <3>2
      <4>1. /\ resourceZombies'[i] = resourceZombies[at(i)] /\ at(i) \in 1 .. Len(resourceZombies)
            /\ resourceZombies'[j] = resourceZombies[at(j)] /\ at(j) \in 1 .. Len(resourceZombies)
        <5>1. at(i) \in 1 .. Len(resourceZombies) /\ at(j) \in 1 .. Len(resourceZombies)
          BY <1>0, <4>0
        <5> QED
          BY <3>2, <4>0, <5>1
      <4>2. at(i) = at(j) => i = j
        BY <1>0, <3>2
      <4> QED
        BY <4>1, <4>2 DEF CondemnedInv
    <3> QED
      BY <1>0, <2>1, <3>3, <3>4, <3>5, <3>6 DEF CondemnedInv
  <2>3. CASE UNCHANGED <<life, resourceZombies>>
    BY <2>1, <2>3 DEF CondemnedInv
  <2> QED
    BY <1>3, <2>2, <2>3 DEF GcZombie
<1>4. ASSUME GcDrain PROVE CondemnedInv'
  <2>1. PICK r \in Resource : r = Head(destroyDeferred)
    BY <1>0, <1>4, HeadTailProperties DEF GcDrain
  <2>2. /\ destroyDeferred # <<>> /\ destroyDeferred' = Tail(destroyDeferred)
        /\ resourceZombies' = Append(resourceZombies, r)
        /\ life' = [life EXCEPT ![r] = "zombie"]
    BY <1>4, <2>1 DEF GcDrain
  <2>3. /\ Len(destroyDeferred') = Len(destroyDeferred) - 1
        /\ \A i \in 1 .. Len(destroyDeferred') : destroyDeferred'[i] = destroyDeferred[i + 1]
        /\ Len(destroyDeferred) \in Nat \ {0} /\ destroyDeferred[1] = r
    BY <1>0, <2>1, <2>2, HeadTailProperties, EmptySeq
  <2>4. /\ Len(resourceZombies') = Len(resourceZombies) + 1
        /\ \A i \in 1 .. Len(resourceZombies) : resourceZombies'[i] = resourceZombies[i]
        /\ resourceZombies'[Len(resourceZombies) + 1] = r
    BY <1>0, <2>2, AppendProperties
  <2>5. life'[r] = "zombie" /\ \A s \in Resource : s # r => life'[s] = life[s]
    BY <1>0, <2>2
  <2>6. \A i \in 1 .. Len(destroyDeferred') : i + 1 \in 1 .. Len(destroyDeferred) /\ i + 1 # 1
    BY <2>3
  <2>7. \A i \in 1 .. Len(resourceZombies) : resourceZombies[i] # r
    BY <2>3 DEF CondemnedInv
  <2>8. \A i \in 1 .. Len(resourceZombies') :
          i = Len(resourceZombies) + 1 \/ i \in 1 .. Len(resourceZombies)
    BY <1>0, <2>4
  <2>9. \A i \in 1 .. Len(destroyDeferred') : life'[destroyDeferred'[i]] = "deferred"
    <3> TAKE i \in 1 .. Len(destroyDeferred')
    <3>1. destroyDeferred[i + 1] # r /\ life[destroyDeferred[i + 1]] = "deferred"
      BY <2>3, <2>6 DEF CondemnedInv
    <3> QED
      BY <1>0, <2>3, <2>5, <2>6, <3>1
  <2>10. \A i, j \in 1 .. Len(destroyDeferred') : destroyDeferred'[i] = destroyDeferred'[j] => i = j
    BY <2>3, <2>6 DEF CondemnedInv
  <2>11. \A i \in 1 .. Len(resourceZombies') : life'[resourceZombies'[i]] = "zombie"
    BY <1>0, <2>4, <2>5, <2>7, <2>8 DEF CondemnedInv
  <2>12. \A i, j \in 1 .. Len(resourceZombies') : resourceZombies'[i] = resourceZombies'[j] => i = j
    BY <2>4, <2>7, <2>8 DEF CondemnedInv
  <2> QED
    BY <2>9, <2>10, <2>11, <2>12 DEF CondemnedInv
<1>5. CASE UNCHANGED <<life, destroyDeferred, resourceZombies>>
  BY <1>5 DEF CondemnedInv
<1>6. ASSUME NEW c \in List, NEW q \in Queue, CountOpen(c, q) \/ SubmitRetire(q, c)
      PROVE  UNCHANGED <<life, destroyDeferred, resourceZombies>>
  BY <1>6 DEF CountOpen, SubmitRetire
<1>7. ASSUME NEW c \in List, TakePool(c) PROVE UNCHANGED <<life, destroyDeferred, resourceZombies>>
  BY <1>7 DEF TakePool
<1>8. ASSUME NEW c \in List, NEW r \in Resource, Record(c, r)
      PROVE  UNCHANGED <<life, destroyDeferred, resourceZombies>>
  BY <1>8 DEF Record
<1>9. ASSUME NEW q \in Queue, NEW cs \in SUBSET List, SubmitTrack(q, cs) \/ SubmitHand(q) \/ GpuComplete(q)
      PROVE  UNCHANGED <<life, destroyDeferred, resourceZombies>>
  BY <1>9 DEF SubmitTrack, SubmitHand, GpuComplete
<1>10. ASSUME GcBegin \/ GcList \/ GcListsDone \/ GcSubmit \/ GcSubmitsDone \/ GcZombiesDone \/ GcEnd
       PROVE  UNCHANGED <<life, destroyDeferred, resourceZombies>>
  BY <1>10 DEF GcBegin, GcList, GcListsDone, GcSubmit, GcSubmitsDone, GcZombiesDone, GcEnd
<1>11. ASSUME DtorWaitIdle \/ DtorEnd \/ UNCHANGED vars
       PROVE  UNCHANGED <<life, destroyDeferred, resourceZombies>>
  BY <1>11 DEF DtorWaitIdle, DtorEnd, vars
<1> QED
  BY <1>1, <1>2, <1>3, <1>4, <1>5, <1>6, <1>7, <1>8, <1>9, <1>10, <1>11 DEF Next, GcStep, Terminated

-----------------------------------------------------------------------------
(* Uses and destructions.                                                  *)

(* Less use, and no news of any resource, disturbs neither invariant. *)
LEMMA UsesShrink ==
  ASSUME ZombieInv, NoDestroyInFlight,
         \A c \in List : list'[c].uses \subseteq list[c].uses,
         inFlight' \subseteq inFlight,
         UNCHANGED <<life, snapshot>>
  PROVE  ZombieInv' /\ NoDestroyInFlight'
BY DEF ZombieInv, NoDestroyInFlight, InUse

(* The collector's comparison: of a ready zombie no work is left. *)
LEMMA ReadyIsIdle ==
  ASSUME TypeOK, TimelineInv, ZombieInv, Scanned(Len(pendingSubmits)),
         NEW r \in Resource, life[r] = "zombie", Ready(r)
  PROVE  ~InUse(r)
<1>1. \A c \in List : r \notin list[c].uses
  BY DEF ZombieInv
<1>2. ASSUME NEW w \in inFlight, r \in w.uses PROVE FALSE
  <2>1. /\ w.queue \in Queue /\ w.value \in Nat
        /\ gpuTimeline[w.queue] \in Nat /\ snapshot[r][w.queue] \in Nat
        /\ oldest[w.queue] \in Nat
    BY BoundAssumption DEF TypeOK, Submission, Timeline, Never
  <2>2. w.value <= snapshot[r][w.queue] /\ snapshot[r][w.queue] < oldest[w.queue]
    BY <1>2, <2>1 DEF ZombieInv, Ready
  <2>3. gpuTimeline[w.queue] < w.value /\ Tracked(w.queue, w.value)
    BY DEF TimelineInv
  <2>4. \E i \in 1 .. Len(pendingSubmits) : pendingSubmits[i].queue = w.queue
    BY <2>3 DEF Tracked
  <2>5. oldest[w.queue] <= gpuTimeline[w.queue]
    BY <2>1, <2>4 DEF Scanned
  <2> QED
    BY <2>1, <2>2, <2>3, <2>5
<1> QED
  BY <1>1, <1>2 DEF InUse

(* Work is only ever put on resources that may still be used, and only     *)
(* idle ones are destroyed.                                                *)
LEMMA UseStep == IInv /\ [Next]_vars => ZombieInv' /\ NoDestroyInFlight'
<1> SUFFICES ASSUME IInv, [Next]_vars PROVE ZombieInv' /\ NoDestroyInFlight'
  OBVIOUS
<1> USE DEF submitVars, listVars, lifeVars, gcVars, dtorVars
<1>0. /\ TypeOK /\ LockInv /\ TimelineInv /\ CondemnedInv /\ ZombieInv /\ ScanInv /\ NoDestroyInFlight
      /\ life \in [Resource -> {"live", "deferred", "zombie", "destroyed"}]
      /\ snapshot \in [Resource -> [Queue -> Timeline]]
      /\ list \in [List -> CommandBuffer]
      /\ \A c \in List : list[c] \in CommandBuffer
  BY DEF IInv, TypeOK
<1>1. ASSUME NEW c \in List, NEW q \in Queue, CountOpen(c, q) PROVE ZombieInv' /\ NoDestroyInFlight'
  <2>1. /\ list' = [list EXCEPT ![c] = [Closed EXCEPT !.state = "counted", !.queue = q]]
        /\ UNCHANGED <<inFlight, life, snapshot>>
    BY <1>1 DEF CountOpen
  <2>2. list'[c].uses = {} /\ \A d \in List : d # c => list'[d] = list[d]
    BY <1>0, <2>1, ClosedType DEF CommandBuffer
  <2> QED
    BY <1>0, <2>1, <2>2, UsesShrink
<1>2. ASSUME NEW c \in List, TakePool(c) PROVE ZombieInv' /\ NoDestroyInFlight'
  <2>1. PICK p : list' = [list EXCEPT ![c] = [@ EXCEPT !.state = "open", !.pool = p]]
    BY <1>2 DEF TakePool
  <2>2. \A d \in List : list'[d].uses = list[d].uses
    BY <1>0, <2>1 DEF CommandBuffer
  <2>3. UNCHANGED <<inFlight, life, snapshot>>
    BY <1>2 DEF TakePool
  <2> QED
    BY <1>0, <2>2, <2>3, UsesShrink
<1>3. ASSUME NEW c \in List, NEW r \in Resource, Record(c, r) PROVE ZombieInv' /\ NoDestroyInFlight'
  <2>1. /\ life[r] \in {"live", "deferred"}
        /\ list' = [list EXCEPT ![c].uses = @ \cup {r}]
        /\ UNCHANGED <<inFlight, life, snapshot>>
    BY <1>3 DEF Record, Usable
  <2>2. \A d \in List : list'[d].uses \subseteq list[d].uses \cup {r}
    BY <1>0, <2>1 DEF CommandBuffer
  <2> QED
    BY <1>0, <2>1, <2>2 DEF ZombieInv, NoDestroyInFlight, InUse
<1>4. ASSUME NEW q \in Queue, NEW cs \in SUBSET List, SubmitTrack(q, cs) PROVE ZombieInv' /\ NoDestroyInFlight'
  <2>1. /\ list' = [c \in List |-> IF c \in cs THEN [list[c] EXCEPT !.state = "submitted"] ELSE list[c]]
        /\ UNCHANGED <<inFlight, life, snapshot>>
    BY <1>4 DEF SubmitTrack
  <2>2. \A c \in List : list'[c].uses = list[c].uses
    BY <1>0, <2>1 DEF CommandBuffer
  <2> QED
    BY <1>0, <2>1, <2>2, UsesShrink
<1>5. ASSUME NEW q \in Queue, SubmitHand(q) PROVE ZombieInv' /\ NoDestroyInFlight'
  <2>1. inFlight' = inFlight \cup {WorkOf(q)} /\ UNCHANGED <<list, life, snapshot>>
    BY <1>5 DEF SubmitHand
  <2>2. submit[q].lists \subseteq List
    BY <1>0 DEF TypeOK, SubmitCall
  <2>3. \A r \in WorkOf(q).uses : \E c \in List : r \in list[c].uses
    BY <2>2 DEF WorkOf
  <2>4. \A r \in WorkOf(q).uses \cap Resource : life[r] # "zombie" /\ life[r] # "destroyed"
    BY <1>0, <2>3 DEF ZombieInv, NoDestroyInFlight, InUse
  <2> QED
    BY <1>0, <2>1, <2>4 DEF ZombieInv, NoDestroyInFlight, InUse
<1>6. ASSUME NEW q \in Queue, NEW c \in List, SubmitRetire(q, c) PROVE ZombieInv' /\ NoDestroyInFlight'
  <2>1. list' = [list EXCEPT ![c] = Closed] /\ UNCHANGED <<inFlight, life, snapshot>>
    BY <1>6 DEF SubmitRetire
  <2>2. list'[c].uses = {} /\ \A d \in List : d # c => list'[d] = list[d]
    BY <1>0, <2>1, ClosedType
  <2> QED
    BY <1>0, <2>1, <2>2, UsesShrink
<1>7. ASSUME NEW q \in Queue, GpuComplete(q) PROVE ZombieInv' /\ NoDestroyInFlight'
  <2>1. inFlight' \subseteq inFlight /\ UNCHANGED <<list, life, snapshot>>
    BY <1>7 DEF GpuComplete
  <2> QED
    BY <1>0, <2>1, UsesShrink
<1>8. ASSUME NEW r \in Resource, TryEnqueueDestroyDeferred(r) PROVE ZombieInv' /\ NoDestroyInFlight'
  <2>1. life' = [life EXCEPT ![r] = "deferred"] /\ UNCHANGED <<list, inFlight, snapshot>>
    BY <1>8 DEF TryEnqueueDestroyDeferred
  <2>2. life'[r] = "deferred" /\ \A s \in Resource : s # r => life'[s] = life[s]
    BY <1>0, <2>1
  <2> QED
    BY <1>0, <2>1, <2>2 DEF ZombieInv, NoDestroyInFlight, InUse
<1>9. ASSUME NEW r \in Resource, DestroyImmediately(r) PROVE ZombieInv' /\ NoDestroyInFlight'
  <2>1. /\ life' = [life EXCEPT ![r] = "destroyed"] /\ UNCHANGED <<list, inFlight, snapshot>>
        /\ ~InUse(r)
    BY <1>9 DEF DestroyImmediately
  <2>2. life'[r] = "destroyed" /\ \A s \in Resource : s # r => life'[s] = life[s]
    BY <1>0, <2>1
  <2> QED
    BY <1>0, <2>1, <2>2 DEF ZombieInv, NoDestroyInFlight, InUse
<1>10. ASSUME GcZombie PROVE ZombieInv' /\ NoDestroyInFlight'
  <2>1. PICK r \in Resource : r = resourceZombies[gcAt] /\ life[r] = "zombie"
    BY <1>0, <1>10, ElementOfSeq, LenProperties DEF GcZombie, TypeOK, CondemnedInv
  <2>2. UNCHANGED <<list, inFlight>> /\ Scanned(Len(pendingSubmits))
    BY <1>0, <1>10 DEF GcZombie, ScanInv
  <2>3. CASE /\ Ready(r) /\ life' = [life EXCEPT ![r] = "destroyed"]
             /\ snapshot' = [snapshot EXCEPT ![r] = NoSnapshot]
    <3>1. ~InUse(r)
      BY <1>0, <2>1, <2>2, <2>3, ReadyIsIdle
    <3>2. life'[r] = "destroyed" /\ \A s \in Resource : s # r => life'[s] = life[s] /\ snapshot'[s] = snapshot[s]
      BY <1>0, <2>3
    <3> QED
      BY <1>0, <2>2, <3>1, <3>2 DEF ZombieInv, NoDestroyInFlight, InUse
  <2>4. CASE UNCHANGED <<life, snapshot>>
    BY <1>0, <2>2, <2>4, UsesShrink
  <2> QED
    BY <1>10, <2>1, <2>3, <2>4 DEF GcZombie
<1>11. ASSUME GcDrain PROVE ZombieInv' /\ NoDestroyInFlight'
  <2>1. PICK r \in Resource : r = Head(destroyDeferred)
    BY <1>0, <1>11, HeadTailProperties DEF GcDrain, TypeOK
  <2>2. /\ life' = [life EXCEPT ![r] = "zombie"] /\ snapshot' = [snapshot EXCEPT ![r] = cpuTimeline]
        /\ UNCHANGED <<list, inFlight>>
    BY <1>11, <2>1 DEF GcDrain
  <2>3. /\ life'[r] = "zombie" /\ snapshot'[r] = cpuTimeline
        /\ \A s \in Resource : s # r => life'[s] = life[s] /\ snapshot'[s] = snapshot[s]
    BY <1>0, <2>2
  <2>4. \A c \in List : list[c].uses = {}
    BY <1>0, <1>11 DEF GcDrain, LockInv
  <2>5. \A w \in inFlight : w.value <= cpuTimeline[w.queue]
    BY <1>0 DEF TimelineInv
  <2> QED
    BY <1>0, <2>2, <2>3, <2>4, <2>5 DEF ZombieInv, NoDestroyInFlight, InUse
<1>12. ASSUME GcBegin \/ GcList \/ GcListsDone \/ GcSubmit \/ GcSubmitsDone \/ GcZombiesDone \/ GcEnd
       PROVE  UNCHANGED <<list, inFlight, life, snapshot>>
  BY <1>12 DEF GcBegin, GcList, GcListsDone, GcSubmit, GcSubmitsDone, GcZombiesDone, GcEnd
<1>13. ASSUME DtorWaitIdle \/ DtorEnd \/ UNCHANGED vars
       PROVE  UNCHANGED <<list, inFlight, life, snapshot>>
  BY <1>13 DEF DtorWaitIdle, DtorEnd, vars
<1>14. CASE UNCHANGED <<list, inFlight, life, snapshot>>
  BY <1>0, <1>14, UsesShrink
<1> QED
  BY <1>1, <1>2, <1>3, <1>4, <1>5, <1>6, <1>7, <1>8, <1>9, <1>10, <1>11, <1>12, <1>13, <1>14
  DEF Next, GcStep, Terminated

-----------------------------------------------------------------------------
(* The collector's scan.                                                   *)

(* The GPU only moves on, so what the collector found stays true. *)
LEMMA ScanStable ==
  ASSUME TypeOK, ScanInv, UNCHANGED <<gcPhase, gcAt, oldest, pendingSubmits>>,
         \A q \in Queue : gpuTimeline'[q] \in Nat /\ gpuTimeline[q] <= gpuTimeline'[q]
  PROVE  ScanInv'
<1>1. \A q \in Queue : oldest[q] \in Nat /\ gpuTimeline[q] \in Nat
  BY BoundAssumption DEF TypeOK, Timeline, Never
<1>2. \A n \in Int : Scanned(n) => Scanned(n)'
  BY <1>1 DEF Scanned
<1>3. gcAt - 1 \in Int /\ Len(pendingSubmits) \in Int
  BY LenProperties DEF TypeOK
<1>4. (gcAt - 1)' = gcAt - 1 /\ Len(pendingSubmits)' = Len(pendingSubmits)
  OBVIOUS
<1>5. /\ gcPhase = "submits" => gcAt - 1 <= Len(pendingSubmits) /\ Scanned(gcAt - 1)
      /\ gcPhase = "zombies" => Scanned(Len(pendingSubmits))
  BY DEF ScanInv
<1> QED
  BY <1>1, <1>3, <1>4, <1>5 DEF ScanInv, Scanned

(* The scan covers one pending submit more, or one less is left of them. *)
LEMMA ScanStep == TypeOK /\ LockInv /\ TimelineInv /\ ScanInv /\ [Next]_vars => ScanInv'
<1> SUFFICES ASSUME TypeOK, LockInv, TimelineInv, ScanInv, [Next]_vars PROVE ScanInv'
  OBVIOUS
<1> USE DEF submitVars, listVars, lifeVars, gcVars, dtorVars
<1>0. /\ \A q \in Queue : gpuTimeline[q] \in Nat /\ oldest[q] \in Nat
      /\ pendingSubmits \in Seq(Pending) /\ Len(pendingSubmits) \in Nat
      /\ oldest \in [Queue -> 0 .. Never]
      /\ gcAt \in Nat \ {0}
  BY BoundAssumption, LenProperties DEF TypeOK, Timeline, Never
<1>1. ASSUME NEW q \in Queue, GpuComplete(q) PROVE ScanInv'
  <2>1. PICK w \in inFlight : w.queue = q /\ gpuTimeline' = [gpuTimeline EXCEPT ![q] = w.value]
    BY <1>1 DEF GpuComplete
  <2>2. w.value \in Nat /\ gpuTimeline[q] < w.value
    BY <2>1, BoundAssumption DEF TypeOK, Submission, Timeline, TimelineInv
  <2>3. \A p \in Queue : gpuTimeline'[p] \in Nat /\ gpuTimeline[p] <= gpuTimeline'[p]
    BY <1>0, <2>1, <2>2 DEF TypeOK
  <2>4. UNCHANGED <<gcPhase, gcAt, oldest, pendingSubmits>>
    BY <1>1 DEF GpuComplete
  <2> QED
    BY <2>3, <2>4, ScanStable
<1>2. CASE UNCHANGED <<gcPhase, gcAt, oldest, pendingSubmits, gpuTimeline>>
  <2>1. \A p \in Queue : gpuTimeline'[p] \in Nat /\ gpuTimeline[p] <= gpuTimeline'[p]
    BY <1>0, <1>2
  <2> QED
    BY <1>2, <2>1, ScanStable
<1>3. CASE gcPhase' \notin {"submits", "zombies"}
  BY <1>3 DEF ScanInv
<1>4. ASSUME GcListsDone PROVE ScanInv'
  <2>1. gcPhase' = "submits" /\ gcAt' = 1 /\ oldest' = [q \in Queue |-> Never] /\ pendingSubmits' = pendingSubmits
    BY <1>4 DEF GcListsDone
  <2>2. gcAt' - 1 = 0 /\ gcAt' - 1 <= Len(pendingSubmits')
    BY <1>0, <2>1
  <2>3. \A q \in Queue : oldest'[q] = Never /\ \A i \in 1 .. 0 : pendingSubmits'[i].queue # q
    BY <2>1
  <2> QED
    BY <2>1, <2>2, <2>3 DEF ScanInv, Scanned, Never
<1>5. ASSUME GcSubmit PROVE ScanInv'
  <2>1. /\ gcPhase = "submits" /\ gcPhase' = "submits"
        /\ gcAt \in 1 .. Len(pendingSubmits) /\ gpuTimeline' = gpuTimeline
    BY <1>0, <1>5 DEF GcSubmit
  <2>2. Scanned(gcAt - 1)
    BY <2>1 DEF ScanInv
  <2>3. CASE pendingSubmits' = RemoveAt(pendingSubmits, gcAt) /\ UNCHANGED <<gcAt, oldest>>
    <3>1. /\ Len(pendingSubmits') = Len(pendingSubmits) - 1
          /\ \A i \in 1 .. gcAt - 1 : pendingSubmits'[i] = pendingSubmits[i]
      <4>1. PICK k \in 1 .. Len(pendingSubmits) : k = gcAt
        BY <2>1
      <4>2. /\ Len(pendingSubmits') = Len(pendingSubmits) - 1
            /\ \A i \in 1 .. Len(pendingSubmits) - 1 :
                 pendingSubmits'[i] = IF i < k THEN pendingSubmits[i] ELSE pendingSubmits[i + 1]
        BY <1>0, <2>3, <4>1, RemoveAtProperties
      <4>3. \A i \in 1 .. gcAt - 1 : i \in 1 .. Len(pendingSubmits) - 1 /\ i < k
        BY <1>0, <4>1
      <4> QED
        BY <4>2, <4>3
    <3>2. gcAt' - 1 <= Len(pendingSubmits')
      BY <1>0, <2>1, <2>3, <3>1
    <3> QED
      BY <2>1, <2>2, <2>3, <3>1, <3>2 DEF ScanInv, Scanned, Never
  <2>4. CASE /\ oldest' = [oldest EXCEPT ![pendingSubmits[gcAt].queue] =
                              IF @ <= gpuTimeline[pendingSubmits[gcAt].queue] THEN @
                              ELSE gpuTimeline[pendingSubmits[gcAt].queue]]
             /\ gcAt' = gcAt + 1
             /\ UNCHANGED pendingSubmits
    <3>1. PICK q \in Queue : q = pendingSubmits[gcAt].queue
      <4>1. pendingSubmits[gcAt] \in Pending
        BY <1>0, <2>1, ElementOfSeq
      <4> QED
        BY <4>1 DEF Pending
    <3>2. oldest'[q] <= gpuTimeline[q] /\ \A p \in Queue : p # q => oldest'[p] = oldest[p]
      BY <1>0, <2>4, <3>1
    <3>3. \A i \in 1 .. gcAt' - 1 : i \in 1 .. gcAt - 1 \/ i = gcAt
      BY <1>0, <2>4
    <3>4. gcAt' - 1 <= Len(pendingSubmits')
      BY <1>0, <2>1, <2>4
    <3>5. Scanned(gcAt - 1)'
      BY <2>1, <2>2, <2>4, <3>1, <3>2, <3>3 DEF Scanned, Never
    <3> QED
      BY <2>1, <3>4, <3>5 DEF ScanInv
  <2> QED
    BY <1>5, <2>3, <2>4 DEF GcSubmit
<1>6. ASSUME GcSubmitsDone PROVE ScanInv'
  <2>1. /\ gcPhase = "submits" /\ gcPhase' = "zombies" /\ gcAt > Len(pendingSubmits)
        /\ UNCHANGED <<oldest, pendingSubmits, gpuTimeline>>
    BY <1>6 DEF GcSubmitsDone
  <2>2. gcAt - 1 = Len(pendingSubmits) /\ Scanned(gcAt - 1)
    BY <1>0, <2>1 DEF ScanInv
  <2> QED
    BY <2>1, <2>2 DEF ScanInv, Scanned, Never
<1>7. ASSUME GcZombie PROVE ScanInv'
  BY <1>7 DEF GcZombie, ScanInv, Scanned, Never
<1>8. ASSUME NEW q \in Queue, NEW cs \in SUBSET List, SubmitTrack(q, cs)
      PROVE  gcPhase' \notin {"submits", "zombies"}
  BY <1>8 DEF SubmitTrack, SharedAccess
<1>9. ASSUME GcBegin \/ GcList \/ GcZombiesDone \/ GcDrain \/ GcEnd
      PROVE  gcPhase' \notin {"submits", "zombies"}
  BY <1>9 DEF GcBegin, GcList, GcZombiesDone, GcDrain, GcEnd
<1>10. ASSUME NEW c \in List, NEW q \in Queue, CountOpen(c, q) \/ SubmitRetire(q, c)
       PROVE  UNCHANGED <<gcPhase, gcAt, oldest, pendingSubmits, gpuTimeline>>
  BY <1>10 DEF CountOpen, SubmitRetire
<1>11. ASSUME NEW c \in List, TakePool(c)
       PROVE  UNCHANGED <<gcPhase, gcAt, oldest, pendingSubmits, gpuTimeline>>
  BY <1>11 DEF TakePool
<1>12. ASSUME NEW c \in List, NEW r \in Resource, Record(c, r)
       PROVE  UNCHANGED <<gcPhase, gcAt, oldest, pendingSubmits, gpuTimeline>>
  BY <1>12 DEF Record
<1>13. ASSUME NEW q \in Queue, SubmitHand(q)
       PROVE  UNCHANGED <<gcPhase, gcAt, oldest, pendingSubmits, gpuTimeline>>
  BY <1>13 DEF SubmitHand
<1>14. ASSUME NEW r \in Resource, TryEnqueueDestroyDeferred(r) \/ DestroyImmediately(r)
       PROVE  UNCHANGED <<gcPhase, gcAt, oldest, pendingSubmits, gpuTimeline>>
  BY <1>14 DEF TryEnqueueDestroyDeferred, DestroyImmediately
<1>15. ASSUME DtorWaitIdle \/ DtorEnd \/ UNCHANGED vars
       PROVE  UNCHANGED <<gcPhase, gcAt, oldest, pendingSubmits, gpuTimeline>>
  BY <1>15 DEF DtorWaitIdle, DtorEnd, vars
<1> QED
  BY <1>1, <1>2, <1>3, <1>4, <1>5, <1>6, <1>7, <1>8, <1>9, <1>10, <1>11, <1>12, <1>13, <1>14, <1>15
  DEF Next, GcStep, Terminated

-----------------------------------------------------------------------------
(* The inductive invariant.                                                *)

(* A new device satisfies every part of the invariant. *)
LEMMA InitIInv == Init => IInv
<1> SUFFICES ASSUME Init PROVE IInv
  OBVIOUS
<1>1. TypeOK
  BY InitTypeOK
<1>2. \A c \in List : list[c].state = "closed" /\ list[c].uses = {}
  BY ClosedType DEF Init
<1>3. \A q \in Queue : submit[q].stage = "none" /\ submit[q].lists = {}
  BY DEF Init, NoSubmit
<1>4. inFlight = {} /\ gcPhase = "idle" /\ \A r \in Resource : life[r] = "live"
  BY DEF Init
<1>5. LockInv
  BY <1>2, <1>3, <1>4 DEF LockInv
<1>6. TimelineInv
  BY <1>3, <1>4 DEF Init, TimelineInv
<1>7. CondemnedInv
  BY EmptySeq DEF Init, CondemnedInv
<1>8. ZombieInv /\ NoDestroyInFlight /\ ScanInv
  BY <1>4 DEF ZombieInv, NoDestroyInFlight, ScanInv
<1> QED
  BY <1>1, <1>5, <1>6, <1>7, <1>8 DEF IInv

(* IInv is an invariant of the backend. *)
THEOREM InductiveInvariant == Spec => []IInv
<1>1. Init => IInv
  BY InitIInv
<1>2. IInv /\ [Next]_vars => IInv'
  BY NextTypeOK, LockStep, TimelineStep, CondemnedStep, ScanStep, UseStep DEF IInv
<1> QED
  BY <1>1, <1>2, PTL DEF Spec

(* No resource is destroyed while a recorded command list or an unfinished *)
(* submission uses it, whatever the number of queues and threads: the      *)
(* promise of CollectGarbage and of the Destroy* functions.                *)
THEOREM DestroyIsSafe == Spec => []NoDestroyInFlight
<1>1. IInv => NoDestroyInFlight
  BY DEF IInv
<1> QED
  BY <1>1, InductiveInvariant, PTL

-----------------------------------------------------------------------------
(* The order of destruction.                                               *)

(* What SnapshotInv says of a zombie is about its snapshot alone, and the  *)
(* timelines of the CPU only grow.                                         *)
LEMMA SnapshotStable ==
  ASSUME TypeOK, SnapshotInv, UNCHANGED <<resourceZombies, snapshot>>,
         \A q \in Queue : cpuTimeline'[q] \in Nat /\ cpuTimeline[q] <= cpuTimeline'[q],
         \/ gcPhase' # "zombies"
         \/ UNCHANGED <<gcPhase, gcAt, oldest>>
         \/ gcAt' = 1
  PROVE  SnapshotInv'
<1>1. /\ Len(resourceZombies) \in Nat
      /\ \A i \in 1 .. Len(resourceZombies) : resourceZombies[i] \in Resource
      /\ \A r \in Resource, q \in Queue : snapshot[r][q] \in Nat
      /\ \A q \in Queue : cpuTimeline[q] \in Nat
  BY LenProperties, ElementOfSeq, BoundAssumption DEF TypeOK, Timeline
<1>2. \A i \in 1 .. Len(resourceZombies) : \A q \in Queue :
        snapshot[resourceZombies[i]][q] <= cpuTimeline'[q]
  <2> SUFFICES ASSUME NEW i \in 1 .. Len(resourceZombies), NEW q \in Queue
               PROVE  snapshot[resourceZombies[i]][q] <= cpuTimeline'[q]
    OBVIOUS
  <2>1. snapshot[resourceZombies[i]][q] <= cpuTimeline[q]
    BY DEF SnapshotInv
  <2>2. snapshot[resourceZombies[i]][q] \in Nat /\ cpuTimeline[q] \in Nat
    BY <1>1
  <2> QED
    BY <2>1, <2>2
<1>3. gcPhase' = "zombies" =>
        \A i \in 1 .. Len(resourceZombies) : i < gcAt' => ~Ready(resourceZombies[i])'
  <2>1. CASE UNCHANGED <<gcPhase, gcAt, oldest>>
    BY <2>1 DEF SnapshotInv, Ready
  <2>2. CASE gcAt' = 1
    BY <1>1, <2>2
  <2> QED
    BY <2>1, <2>2
<1> QED
  BY <1>2, <1>3 DEF SnapshotInv

(* Snapshots go on growing along the zombies, and what the collector has   *)
(* passed stays unready.                                                   *)
LEMMA SnapshotStep == IInv /\ SnapshotInv /\ [Next]_vars => SnapshotInv'
<1> SUFFICES ASSUME IInv, SnapshotInv, [Next]_vars PROVE SnapshotInv'
  OBVIOUS
<1> USE DEF submitVars, listVars, lifeVars, gcVars, dtorVars
<1> DEFINE z == resourceZombies
<1>0. /\ TypeOK /\ CondemnedInv
      /\ z \in Seq(Resource) /\ Len(z) \in Nat /\ gcAt \in Nat \ {0}
      /\ \A i \in 1 .. Len(z) : z[i] \in Resource
      /\ snapshot \in [Resource -> [Queue -> Timeline]]
      /\ cpuTimeline \in [Queue -> Timeline]
      /\ \A r \in Resource, q \in Queue : snapshot[r][q] \in Nat
      /\ \A q \in Queue : cpuTimeline[q] \in Nat
  BY LenProperties, ElementOfSeq, BoundAssumption DEF IInv, TypeOK, Timeline
<1>1. CASE UNCHANGED <<resourceZombies, snapshot, cpuTimeline>> /\
           (gcPhase' # "zombies" \/ UNCHANGED <<gcPhase, gcAt, oldest>> \/ gcAt' = 1)
  BY <1>0, <1>1, SnapshotStable
<1>2. ASSUME NEW q \in Queue, NEW cs \in SUBSET List, SubmitTrack(q, cs) PROVE SnapshotInv'
  <2>1. /\ UNCHANGED <<resourceZombies, snapshot>> /\ gcPhase' # "zombies"
        /\ cpuTimeline' = [cpuTimeline EXCEPT ![q] = cpuTimeline[q] + 1]
    BY <1>2 DEF SubmitTrack, SharedAccess
  <2>2. \A p \in Queue : cpuTimeline'[p] \in Nat /\ cpuTimeline[p] <= cpuTimeline'[p]
    BY <1>0, <2>1
  <2> QED
    BY <1>0, <2>1, <2>2, SnapshotStable
<1>3. ASSUME GcZombie PROVE SnapshotInv'
  <2> DEFINE r == z[gcAt]
  <2>1. gcPhase = "zombies" /\ gcAt \in 1 .. Len(z) /\ gcPhase' = "zombies"
        /\ UNCHANGED <<cpuTimeline, oldest>>
    BY <1>0, <1>3 DEF GcZombie
  <2>2. CASE /\ z' = RemoveAt(z, gcAt)
             /\ snapshot' = [snapshot EXCEPT ![r] = NoSnapshot]
             /\ gcAt' = gcAt
    <3>1. /\ Len(z') = Len(z) - 1
          /\ \A j \in 1 .. Len(z) - 1 : z'[j] = IF j < gcAt THEN z[j] ELSE z[j + 1]
      BY <1>0, <2>1, <2>2, RemoveAtProperties
    <3>2. ASSUME NEW j \in 1 .. Len(z')
          PROVE  \E i \in 1 .. Len(z) :
                   /\ z'[j] = z[i] /\ i # gcAt
                   /\ i = IF j < gcAt THEN j ELSE j + 1
      <4>1. j \in 1 .. Len(z) - 1 /\ j \in 1 .. Len(z) /\ j + 1 \in 1 .. Len(z)
        BY <1>0, <3>1
      <4>2. CASE j < gcAt
        BY <1>0, <3>1, <4>1, <4>2
      <4>3. CASE ~(j < gcAt)
        <5>1. z'[j] = z[j + 1] /\ j + 1 # gcAt
          BY <1>0, <3>1, <4>1, <4>3
        <5> QED
          BY <4>1, <4>3, <5>1
      <4> QED
        BY <4>2, <4>3
    <3>3. \A i \in 1 .. Len(z) : i # gcAt => z[i] # r /\ snapshot'[z[i]] = snapshot[z[i]]
      BY <1>0, <2>1, <2>2 DEF CondemnedInv
    <3>4. \A j \in 1 .. Len(z') : \A q \in Queue : snapshot'[z'[j]][q] <= cpuTimeline'[q]
      BY <2>1, <3>2, <3>3 DEF SnapshotInv
    <3>5. ASSUME NEW i \in 1 .. Len(z'), NEW j \in 1 .. Len(z'), i <= j, NEW q \in Queue
          PROVE  snapshot'[z'[i]][q] <= snapshot'[z'[j]][q]
      <4>1. PICK k \in 1 .. Len(z) : z'[i] = z[k] /\ k # gcAt /\ k = IF i < gcAt THEN i ELSE i + 1
        BY <3>2
      <4>2. PICK l \in 1 .. Len(z) : z'[j] = z[l] /\ l # gcAt /\ l = IF j < gcAt THEN j ELSE j + 1
        BY <3>2
      <4>3. k <= l
        BY <1>0, <3>1, <3>5, <4>1, <4>2
      <4> QED
        BY <3>3, <4>1, <4>2, <4>3 DEF SnapshotInv
    <3>6. ASSUME NEW j \in 1 .. Len(z'), j < gcAt' PROVE ~Ready(z[j])' /\ z'[j] = z[j]
      <4>1. j \in 1 .. Len(z) /\ j # gcAt /\ z'[j] = z[j] /\ j < gcAt
        BY <1>0, <2>2, <3>1, <3>6
      <4>2. ~Ready(z[j])
        BY <2>1, <4>1 DEF SnapshotInv
      <4>3. snapshot'[z[j]] = snapshot[z[j]]
        BY <3>3, <4>1
      <4>4. PICK q \in Queue : ~(oldest[q] > snapshot[z[j]][q])
        BY <4>2 DEF Ready
      <4>5. ~(oldest'[q] > snapshot'[z'[j]][q])
        BY <2>1, <4>1, <4>3, <4>4
      <4> QED
        BY <4>1, <4>5 DEF Ready
    <3> QED
      BY <3>4, <3>5, <3>6 DEF SnapshotInv
  <2>3. CASE ~Ready(r) /\ gcAt' = gcAt + 1 /\ UNCHANGED <<snapshot, resourceZombies>>
    <3>1. \A i \in 1 .. Len(z) : i < gcAt' => i < gcAt \/ i = gcAt
      BY <1>0, <2>3
    <3>2. \A i \in 1 .. Len(z) : i < gcAt' => ~Ready(z[i])
      BY <2>1, <2>3, <3>1 DEF SnapshotInv
    <3> QED
      BY <2>1, <2>3, <3>2 DEF SnapshotInv, Ready
  <2> QED
    BY <1>3, <2>2, <2>3 DEF GcZombie
<1>4. ASSUME GcDrain PROVE SnapshotInv'
  <2>1. PICK r \in Resource : r = Head(destroyDeferred) /\ r = destroyDeferred[1] /\ 1 \in 1 .. Len(destroyDeferred)
    BY <1>0, <1>4, HeadTailProperties, EmptySeq, LenProperties DEF GcDrain, TypeOK
  <2>2. /\ z' = Append(z, r) /\ snapshot' = [snapshot EXCEPT ![r] = cpuTimeline]
        /\ cpuTimeline' = cpuTimeline /\ gcPhase' # "zombies"
    BY <1>4, <2>1 DEF GcDrain
  <2>3. /\ Len(z') = Len(z) + 1 /\ z'[Len(z) + 1] = r
        /\ \A i \in 1 .. Len(z) : z'[i] = z[i]
    BY <1>0, <2>1, <2>2, AppendProperties
  <2>4. \A i \in 1 .. Len(z) : snapshot'[z[i]] = snapshot[z[i]]
    <3>1. life[r] = "deferred" /\ \A i \in 1 .. Len(z) : life[z[i]] = "zombie"
      BY <1>0, <2>1 DEF CondemnedInv
    <3> QED
      BY <1>0, <2>2, <3>1
  <2>5. snapshot'[r] = cpuTimeline
    BY <1>0, <2>2
  <2>6. \A i \in 1 .. Len(z') : i \in 1 .. Len(z) \/ i = Len(z) + 1
    BY <1>0, <2>3
  <2>7. \A i \in 1 .. Len(z') : \A q \in Queue : snapshot'[z'[i]][q] <= cpuTimeline[q]
    <3>1. \A q \in Queue : cpuTimeline[q] <= cpuTimeline[q]
      BY <1>0
    <3> QED
      BY <2>3, <2>4, <2>5, <2>6, <3>1 DEF SnapshotInv
  <2>8. ASSUME NEW i \in 1 .. Len(z'), NEW j \in 1 .. Len(z'), i <= j, NEW q \in Queue
        PROVE  snapshot'[z'[i]][q] <= snapshot'[z'[j]][q]
    <3>1. CASE j = Len(z) + 1
      BY <2>3, <2>5, <2>7, <3>1
    <3>2. CASE j \in 1 .. Len(z)
      <4>1. i \in 1 .. Len(z)
        BY <1>0, <2>3, <2>8, <3>2
      <4> QED
        BY <2>3, <2>4, <2>8, <3>2, <4>1 DEF SnapshotInv
    <3> QED
      BY <2>6, <3>1, <3>2
  <2> QED
    BY <2>2, <2>7, <2>8 DEF SnapshotInv
<1>5. ASSUME NEW c \in List, NEW q \in Queue, CountOpen(c, q) \/ SubmitRetire(q, c) PROVE SnapshotInv'
  BY <1>1, <1>5 DEF CountOpen, SubmitRetire
<1>6. ASSUME NEW c \in List, TakePool(c) PROVE SnapshotInv'
  BY <1>1, <1>6 DEF TakePool
<1>7. ASSUME NEW c \in List, NEW r \in Resource, Record(c, r) PROVE SnapshotInv'
  BY <1>1, <1>7 DEF Record
<1>8. ASSUME NEW q \in Queue, SubmitHand(q) \/ GpuComplete(q) PROVE SnapshotInv'
  BY <1>1, <1>8 DEF SubmitHand, GpuComplete
<1>9. ASSUME NEW r \in Resource, TryEnqueueDestroyDeferred(r) \/ DestroyImmediately(r) PROVE SnapshotInv'
  BY <1>1, <1>9 DEF TryEnqueueDestroyDeferred, DestroyImmediately
<1>10. ASSUME GcBegin \/ GcList \/ GcListsDone \/ GcSubmit \/ GcSubmitsDone \/ GcZombiesDone \/ GcEnd
       PROVE  SnapshotInv'
  BY <1>1, <1>10 DEF GcBegin, GcList, GcListsDone, GcSubmit, GcSubmitsDone, GcZombiesDone, GcEnd
<1>11. ASSUME DtorWaitIdle \/ DtorEnd \/ UNCHANGED vars PROVE SnapshotInv'
  BY <1>1, <1>11 DEF DtorWaitIdle, DtorEnd, vars
<1> QED
  BY <1>2, <1>3, <1>4, <1>5, <1>6, <1>7, <1>8, <1>9, <1>10, <1>11 DEF Next, GcStep, Terminated

(* A member that is ahead of its block stays so when another element is    *)
(* erased from the vector,                                                 *)
LEMMA AheadRemoveAt ==
  ASSUME NEW s \in Seq(Resource), NEW k \in 1 .. Len(s), NEW m, NEW r,
         Ahead(s, m, r), s[k] # m
  PROVE  Ahead(RemoveAt(s, k), m, r)
<1> DEFINE t == RemoveAt(s, k)
<1>1. /\ Len(t) = Len(s) - 1
      /\ \A j \in 1 .. Len(s) - 1 : t[j] = IF j < k THEN s[j] ELSE s[j + 1]
  BY RemoveAtProperties
<1>2. Len(s) \in Nat
  BY LenProperties
<1> HIDE DEF t
<1> SUFFICES ASSUME NEW j \in 1 .. Len(t), t[j] = r
             PROVE  \E i \in 1 .. Len(t) : i < j /\ t[i] = m
  BY DEF Ahead, t
<1>3. PICK l \in 1 .. Len(s) : s[l] = r /\ l = IF j < k THEN j ELSE j + 1
  <2>1. j \in 1 .. Len(s) - 1 /\ j \in 1 .. Len(s) /\ j + 1 \in 1 .. Len(s)
    BY <1>1, <1>2
  <2> QED
    BY <1>1, <2>1
<1>4. PICK i \in 1 .. Len(s) : i < l /\ s[i] = m
  BY <1>3 DEF Ahead
<1>5. i # k
  BY <1>4
<1>6. CASE i < k
  <2>1. i \in 1 .. Len(s) - 1 /\ i \in 1 .. Len(t) /\ i < j
    BY <1>1, <1>2, <1>3, <1>4, <1>6
  <2> QED
    BY <1>1, <1>4, <1>6, <2>1
<1>7. CASE i > k
  <2>1. /\ i - 1 \in 1 .. Len(s) - 1 /\ i - 1 \in 1 .. Len(t)
        /\ i - 1 < j /\ ~(i - 1 < k) /\ (i - 1) + 1 = i
    BY <1>1, <1>2, <1>3, <1>4, <1>7
  <2> QED
    BY <1>1, <1>4, <2>1
<1> QED
  BY <1>5, <1>6, <1>7

(* when an element is pushed at the back (the block only when the member   *)
(* is in the vector),                                                      *)
LEMMA AheadAppend ==
  ASSUME NEW s \in Seq(Resource), NEW x \in Resource, NEW m, NEW r, Ahead(s, m, r),
         x = r => \E i \in 1 .. Len(s) : s[i] = m
  PROVE  Ahead(Append(s, x), m, r)
<1> DEFINE t == Append(s, x)
<1>1. /\ Len(t) = Len(s) + 1 /\ t[Len(s) + 1] = x
      /\ \A i \in 1 .. Len(s) : t[i] = s[i]
  BY AppendProperties
<1>2. Len(s) \in Nat
  BY LenProperties
<1> HIDE DEF t
<1> SUFFICES ASSUME NEW j \in 1 .. Len(t), t[j] = r
             PROVE  \E i \in 1 .. Len(t) : i < j /\ t[i] = m
  BY DEF Ahead, t
<1>3. PICK i \in 1 .. Len(s) : i < j /\ s[i] = m
  <2>1. CASE j \in 1 .. Len(s)
    BY <1>1, <2>1 DEF Ahead
  <2>2. CASE j = Len(s) + 1
    BY <1>1, <1>2, <2>2
  <2> QED
    BY <1>1, <1>2, <2>1, <2>2
<1> QED
  BY <1>1, <1>2, <1>3

(* and when another element is popped at the front.                        *)
LEMMA AheadTail ==
  ASSUME NEW s \in Seq(Resource), s # <<>>, NEW m, NEW r, Ahead(s, m, r), s[1] # m
  PROVE  Ahead(Tail(s), m, r)
<1> DEFINE t == Tail(s)
<1>1. /\ Len(t) = Len(s) - 1 /\ Len(s) \in Nat \ {0}
      /\ \A i \in 1 .. Len(t) : t[i] = s[i + 1]
  BY HeadTailProperties, EmptySeq
<1> HIDE DEF t
<1> SUFFICES ASSUME NEW j \in 1 .. Len(t), t[j] = r
             PROVE  \E i \in 1 .. Len(t) : i < j /\ t[i] = m
  BY DEF Ahead, t
<1>2. j + 1 \in 1 .. Len(s) /\ s[j + 1] = r
  BY <1>1
<1>3. PICK i \in 1 .. Len(s) : i < j + 1 /\ s[i] = m
  BY <1>2 DEF Ahead
<1>4. i - 1 \in 1 .. Len(t) /\ i - 1 < j /\ (i - 1) + 1 = i
  BY <1>1, <1>3
<1> QED
  BY <1>1, <1>3, <1>4

(* A memory block is condemned, becomes a zombie and is destroyed after    *)
(* the resources placed in it: the requests are carried out in order, and  *)
(* a member's snapshot is not above its block's.                           *)
LEMMA BlockStep == OrderInv /\ [Next]_vars => BlockInv' /\ MembersBeforeBlock'
<1> SUFFICES ASSUME OrderInv, [Next]_vars PROVE BlockInv' /\ MembersBeforeBlock'
  OBVIOUS
<1> USE DEF submitVars, listVars, lifeVars, gcVars, dtorVars
<1> DEFINE z == resourceZombies
           d == destroyDeferred
           Life == {"live", "deferred", "zombie", "destroyed"}
<1>0. /\ TypeOK /\ CondemnedInv /\ SnapshotInv /\ BlockInv /\ MembersBeforeBlock
      /\ z \in Seq(Resource) /\ Len(z) \in Nat /\ gcAt \in Nat \ {0}
      /\ d \in Seq(Resource) /\ Len(d) \in Nat
      /\ life \in [Resource -> Life]
      /\ Members \in [Resource -> SUBSET Resource]
      /\ \A r \in Resource, q \in Queue : snapshot[r][q] \in Nat
      /\ \A q \in Queue : oldest[q] \in Nat
  BY LenProperties, BoundAssumption, MembersAssumption DEF OrderInv, IInv, TypeOK, Timeline, Never
<1>1. CASE UNCHANGED <<life, destroyDeferred, resourceZombies>>
  <2>1. \A r \in Resource : \A m \in Members[r] :
          /\ Ahead(d, m, r)' = Ahead(d, m, r)
          /\ Ahead(z, m, r)' = Ahead(z, m, r)
    BY <1>1 DEF Ahead
  <2> QED
    BY <1>0, <1>1, <2>1 DEF BlockInv, MembersBeforeBlock
<1>2. ASSUME NEW x \in Resource, TryEnqueueDestroyDeferred(x) PROVE BlockInv' /\ MembersBeforeBlock'
  <2>1. /\ life[x] = "live" /\ \A m \in Members[x] : life[m] # "live"
        /\ d' = Append(d, x) /\ UNCHANGED resourceZombies
        /\ life' = [life EXCEPT ![x] = "deferred"]
    BY <1>2 DEF TryEnqueueDestroyDeferred, MayGiveUp
  <2>2. life'[x] = "deferred" /\ \A r \in Resource : r # x => life'[r] = life[r]
    BY <1>0, <2>1
  <2>3. /\ Len(d') = Len(d) + 1 /\ d'[Len(d) + 1] = x
        /\ \A i \in 1 .. Len(d) : d'[i] = d[i]
    BY <1>0, <2>1, AppendProperties
  <2>4. ASSUME NEW r \in Resource, life'[r] = "deferred"
        PROVE  \E i \in 1 .. Len(d') : d'[i] = r
    <3>1. CASE r = x
      <4>1. Len(d) + 1 \in 1 .. Len(d') /\ d'[Len(d) + 1] = r
        BY <1>0, <2>3, <3>1
      <4> QED
        BY <4>1
    <3>2. CASE r # x
      <4>1. PICK i \in 1 .. Len(d) : d[i] = r
        BY <1>0, <2>2, <2>4, <3>2 DEF BlockInv
      <4> QED
        BY <1>0, <2>3, <4>1
    <3> QED
      BY <3>1, <3>2
  <2>5. ASSUME NEW r \in Resource, NEW m \in Members[r], life'[m] = "deferred"
        PROVE  Ahead(d', m, r)
    <3>1. m \in Resource
      BY <1>0
    <3>2. CASE m = x
      <4>1. x # r /\ \A j \in 1 .. Len(d) : d[j] # r
        BY <1>0, <2>1, <3>2 DEF BlockInv, CondemnedInv
      <4>2. Ahead(d, m, r)
        BY <4>1 DEF Ahead
      <4> QED
        BY <1>0, <2>1, <4>1, <4>2, AheadAppend
    <3>3. CASE m # x
      <4>1. life[m] = "deferred"
        BY <2>2, <2>5, <3>1, <3>3
      <4>2. Ahead(d, m, r) /\ \E i \in 1 .. Len(d) : d[i] = m
        BY <1>0, <3>1, <4>1 DEF BlockInv
      <4> QED
        BY <1>0, <2>1, <4>2, AheadAppend
    <3> QED
      BY <3>2, <3>3
  <2>6. ASSUME NEW r \in Resource, NEW m \in Members[r], life'[m] = "zombie"
        PROVE  Ahead(z, m, r)
    BY <1>0, <2>2, <2>6 DEF BlockInv
  <2>7. ASSUME NEW r \in Resource, NEW m \in Members[r]
        PROVE  /\ life'[r] # "live" => life'[m] # "live"
               /\ life'[r] \in {"zombie", "destroyed"} => life'[m] \in {"zombie", "destroyed"}
               /\ life'[r] = "destroyed" => life'[m] = "destroyed"
    BY <1>0, <2>1, <2>2 DEF BlockInv, MembersBeforeBlock
  <2>8. \A r \in Resource : life'[r] = "zombie" => \E i \in 1 .. Len(z) : z[i] = r
    BY <1>0, <2>2 DEF BlockInv
  <2> QED
    BY <2>1, <2>4, <2>5, <2>6, <2>7, <2>8 DEF BlockInv, MembersBeforeBlock, Ahead
<1>3. ASSUME NEW x \in Resource, DestroyImmediately(x) PROVE BlockInv' /\ MembersBeforeBlock'
  <2>1. /\ life[x] = "live" /\ \A m \in Members[x] : life[m] = "destroyed"
        /\ UNCHANGED <<destroyDeferred, resourceZombies>>
        /\ life' = [life EXCEPT ![x] = "destroyed"]
    BY <1>3 DEF DestroyImmediately, MayGiveUp
  <2>2. life'[x] = "destroyed" /\ \A r \in Resource : r # x => life'[r] = life[r]
    BY <1>0, <2>1
  <2>3. ASSUME NEW r \in Resource, NEW m \in Members[r]
        PROVE  /\ life'[r] # "live" => life'[m] # "live"
               /\ life'[r] \in {"zombie", "destroyed"} => life'[m] \in {"zombie", "destroyed"}
               /\ life'[r] = "destroyed" => life'[m] = "destroyed"
               /\ life'[m] = "deferred" => Ahead(d, m, r)
               /\ life'[m] = "zombie" => Ahead(z, m, r)
    BY <1>0, <2>1, <2>2 DEF BlockInv, MembersBeforeBlock
  <2>4. /\ \A r \in Resource : life'[r] = "deferred" => \E i \in 1 .. Len(d) : d[i] = r
        /\ \A r \in Resource : life'[r] = "zombie" => \E i \in 1 .. Len(z) : z[i] = r
    BY <1>0, <2>2 DEF BlockInv
  <2> QED
    BY <2>1, <2>3, <2>4 DEF BlockInv, MembersBeforeBlock, Ahead
<1>4. ASSUME GcZombie PROVE BlockInv' /\ MembersBeforeBlock'
  <2>1. PICK k \in 1 .. Len(z) : k = gcAt
    BY <1>0, <1>4 DEF GcZombie
  <2>2. PICK x \in Resource : x = z[k]
    BY <1>0, <2>1, ElementOfSeq
  <2>3. life[x] = "zombie" /\ gcPhase = "zombies" /\ UNCHANGED destroyDeferred
    BY <1>0, <1>4, <2>1, <2>2 DEF GcZombie, CondemnedInv
  <2>4. CASE /\ Ready(x) /\ life' = [life EXCEPT ![x] = "destroyed"]
             /\ z' = RemoveAt(z, k)
    <3>1. life'[x] = "destroyed" /\ \A r \in Resource : r # x => life'[r] = life[r]
      BY <1>0, <2>4
    <3>2. ASSUME NEW m \in Members[x] PROVE life'[m] = "destroyed"
      <4>1. m \in Resource /\ life[m] \in {"zombie", "destroyed"}
        BY <1>0, <2>3 DEF BlockInv
      <4>2. ASSUME life[m] = "zombie" PROVE FALSE
        <5>1. Ahead(z, m, x)
          BY <1>0, <4>2 DEF BlockInv
        <5>2. PICK i \in 1 .. Len(z) : i < k /\ z[i] = m
          BY <2>2, <5>1 DEF Ahead
        <5>3. ~Ready(m)
          BY <1>0, <2>1, <2>3, <5>2 DEF SnapshotInv
        <5>4. \A q \in Queue : snapshot[m][q] <= snapshot[x][q]
          BY <1>0, <2>2, <5>2 DEF SnapshotInv
        <5>5. ASSUME NEW q \in Queue PROVE oldest[q] > snapshot[m][q]
          <6>1. /\ oldest[q] \in Nat /\ snapshot[m][q] \in Nat /\ snapshot[x][q] \in Nat
                /\ oldest[q] > snapshot[x][q] /\ snapshot[m][q] <= snapshot[x][q]
            BY <1>0, <2>4, <4>1, <5>4 DEF Ready
          <6> QED
            BY <6>1
        <5> QED
          BY <5>3, <5>5 DEF Ready
      <4> QED
        BY <3>1, <4>1, <4>2
    <3>3. ASSUME NEW r \in Resource, life'[r] = "zombie" PROVE \E i \in 1 .. Len(z') : z'[i] = r
      <4>1. PICK i \in 1 .. Len(z) : z[i] = r /\ i # k
        BY <1>0, <2>2, <3>1, <3>3 DEF BlockInv
      <4>2. /\ Len(z') = Len(z) - 1
            /\ \A j \in 1 .. Len(z) - 1 : z'[j] = IF j < k THEN z[j] ELSE z[j + 1]
        BY <1>0, <2>4, RemoveAtProperties
      <4>3. CASE i < k
        <5>1. i \in 1 .. Len(z) - 1
          BY <1>0, <4>3
        <5> QED
          BY <4>1, <4>2, <4>3, <5>1
      <4>4. CASE i > k
        <5>1. i - 1 \in 1 .. Len(z) - 1 /\ ~(i - 1 < k) /\ (i - 1) + 1 = i
          BY <1>0, <4>4
        <5> QED
          BY <4>1, <4>2, <5>1
      <4> QED
        BY <4>1, <4>3, <4>4
    <3>4. ASSUME NEW r \in Resource, NEW m \in Members[r], life'[m] = "zombie" PROVE Ahead(z', m, r)
      <4>1. m # x /\ m \in Resource /\ Ahead(z, m, r)
        BY <1>0, <3>1, <3>4 DEF BlockInv
      <4> QED
        BY <1>0, <2>2, <2>4, <4>1, AheadRemoveAt
    <3>5. ASSUME NEW r \in Resource, NEW m \in Members[r]
          PROVE  /\ life'[r] # "live" => life'[m] # "live"
                 /\ life'[r] \in {"zombie", "destroyed"} => life'[m] \in {"zombie", "destroyed"}
                 /\ life'[r] = "destroyed" => life'[m] = "destroyed"
                 /\ life'[m] = "deferred" => Ahead(d, m, r)
      BY <1>0, <2>3, <3>1, <3>2 DEF BlockInv, MembersBeforeBlock
    <3>6. \A r \in Resource : life'[r] = "deferred" => \E i \in 1 .. Len(d) : d[i] = r
      BY <1>0, <2>3, <3>1 DEF BlockInv
    <3> QED
      BY <2>3, <3>3, <3>4, <3>5, <3>6 DEF BlockInv, MembersBeforeBlock, Ahead
  <2>5. CASE UNCHANGED <<life, resourceZombies>>
    BY <1>1, <2>3, <2>5
  <2> QED
    BY <1>4, <2>1, <2>2, <2>4, <2>5 DEF GcZombie
<1>5. ASSUME GcDrain PROVE BlockInv' /\ MembersBeforeBlock'
  <2>1. PICK x \in Resource : x = Head(d) /\ x = d[1] /\ 1 \in 1 .. Len(d)
    BY <1>0, <1>5, HeadTailProperties, EmptySeq DEF GcDrain
  <2>2. /\ d # <<>> /\ d' = Tail(d) /\ z' = Append(z, x)
        /\ life' = [life EXCEPT ![x] = "zombie"] /\ life[x] = "deferred"
    BY <1>0, <1>5, <2>1 DEF GcDrain, CondemnedInv
  <2>3. life'[x] = "zombie" /\ \A r \in Resource : r # x => life'[r] = life[r]
    BY <1>0, <2>2
  <2>4. /\ Len(d') = Len(d) - 1 /\ \A i \in 1 .. Len(d') : d'[i] = d[i + 1]
    BY <1>0, <2>2, HeadTailProperties
  <2>5. /\ Len(z') = Len(z) + 1 /\ z'[Len(z) + 1] = x
        /\ \A i \in 1 .. Len(z) : z'[i] = z[i]
    BY <1>0, <2>2, AppendProperties
  <2>6. ASSUME NEW m \in Members[x] PROVE life[m] \in {"zombie", "destroyed"}
    <3>1. m \in Resource /\ life[m] # "live"
      BY <1>0, <2>2 DEF BlockInv
    <3>2. ASSUME life[m] = "deferred" PROVE FALSE
      <4>1. Ahead(d, m, x)
        BY <1>0, <3>2 DEF BlockInv
      <4>2. PICK i \in 1 .. Len(d) : i < 1
        BY <2>1, <4>1 DEF Ahead
      <4> QED
        BY <1>0, <4>2
    <3> QED
      BY <1>0, <3>1, <3>2
  <2>7. ASSUME NEW r \in Resource, life'[r] = "deferred" PROVE \E i \in 1 .. Len(d') : d'[i] = r
    <3>1. PICK i \in 1 .. Len(d) : d[i] = r /\ i # 1
      BY <1>0, <2>1, <2>3, <2>7 DEF BlockInv
    <3>2. i - 1 \in 1 .. Len(d') /\ (i - 1) + 1 = i
      BY <1>0, <2>4, <3>1
    <3> QED
      BY <2>4, <3>1, <3>2
  <2>8. ASSUME NEW r \in Resource, life'[r] = "zombie" PROVE \E i \in 1 .. Len(z') : z'[i] = r
    <3>1. CASE r = x
      BY <1>0, <2>5, <3>1
    <3>2. CASE r # x
      <4>1. PICK i \in 1 .. Len(z) : z[i] = r
        BY <1>0, <2>3, <2>8, <3>2 DEF BlockInv
      <4> QED
        BY <1>0, <2>5, <4>1
    <3> QED
      BY <3>1, <3>2
  <2>9. ASSUME NEW r \in Resource, NEW m \in Members[r], life'[m] = "deferred"
        PROVE  Ahead(d', m, r)
    <3>1. m # x /\ m \in Resource /\ Ahead(d, m, r)
      BY <1>0, <2>3, <2>9 DEF BlockInv
    <3> QED
      BY <1>0, <2>1, <2>2, <3>1, AheadTail
  <2>10. ASSUME NEW r \in Resource, NEW m \in Members[r], life'[m] = "zombie"
         PROVE  Ahead(z', m, r)
    <3>1. m \in Resource
      BY <1>0
    <3>2. CASE m = x
      <4>1. r # x /\ life[r] # "zombie"
        BY <1>0, <2>2, <2>6, <3>2 DEF BlockInv
      <4>2. \A i \in 1 .. Len(z) : z[i] # r
        BY <1>0, <4>1 DEF CondemnedInv
      <4>3. Ahead(z, m, r)
        BY <4>2 DEF Ahead
      <4> QED
        BY <1>0, <2>2, <4>1, <4>3, AheadAppend
    <3>3. CASE m # x
      <4>1. Ahead(z, m, r) /\ \E i \in 1 .. Len(z) : z[i] = m
        BY <1>0, <2>3, <2>10, <3>1, <3>3 DEF BlockInv
      <4> QED
        BY <1>0, <2>2, <4>1, AheadAppend
    <3> QED
      BY <3>2, <3>3
  <2>11. ASSUME NEW r \in Resource, NEW m \in Members[r]
         PROVE  /\ life'[r] # "live" => life'[m] # "live"
                /\ life'[r] \in {"zombie", "destroyed"} => life'[m] \in {"zombie", "destroyed"}
                /\ life'[r] = "destroyed" => life'[m] = "destroyed"
    BY <1>0, <2>2, <2>3, <2>6 DEF BlockInv, MembersBeforeBlock
  <2> QED
    BY <2>7, <2>8, <2>9, <2>10, <2>11 DEF BlockInv, MembersBeforeBlock, Ahead
<1>6. ASSUME NEW c \in List, NEW q \in Queue, CountOpen(c, q) \/ SubmitRetire(q, c)
      PROVE  UNCHANGED <<life, destroyDeferred, resourceZombies>>
  BY <1>6 DEF CountOpen, SubmitRetire
<1>7. ASSUME NEW c \in List, TakePool(c) PROVE UNCHANGED <<life, destroyDeferred, resourceZombies>>
  BY <1>7 DEF TakePool
<1>8. ASSUME NEW c \in List, NEW r \in Resource, Record(c, r)
      PROVE  UNCHANGED <<life, destroyDeferred, resourceZombies>>
  BY <1>8 DEF Record
<1>9. ASSUME NEW q \in Queue, NEW cs \in SUBSET List, SubmitTrack(q, cs) \/ SubmitHand(q) \/ GpuComplete(q)
      PROVE  UNCHANGED <<life, destroyDeferred, resourceZombies>>
  BY <1>9 DEF SubmitTrack, SubmitHand, GpuComplete
<1>10. ASSUME GcBegin \/ GcList \/ GcListsDone \/ GcSubmit \/ GcSubmitsDone \/ GcZombiesDone \/ GcEnd
       PROVE  UNCHANGED <<life, destroyDeferred, resourceZombies>>
  BY <1>10 DEF GcBegin, GcList, GcListsDone, GcSubmit, GcSubmitsDone, GcZombiesDone, GcEnd
<1>11. ASSUME DtorWaitIdle \/ DtorEnd \/ UNCHANGED vars
       PROVE  UNCHANGED <<life, destroyDeferred, resourceZombies>>
  BY <1>11 DEF DtorWaitIdle, DtorEnd, vars
<1> QED
  BY <1>1, <1>2, <1>3, <1>4, <1>5, <1>6, <1>7, <1>8, <1>9, <1>10, <1>11 DEF Next, GcStep, Terminated

(* A new device has condemned nothing.                                     *)
LEMMA InitOrderInv == Init => OrderInv
<1> SUFFICES ASSUME Init PROVE OrderInv
  OBVIOUS
<1>1. /\ \A r \in Resource : life[r] = "live"
      /\ resourceZombies = <<>> /\ Len(resourceZombies) = 0 /\ gcPhase = "idle"
  BY EmptySeq DEF Init
<1>2. \A r \in Resource : Members[r] \subseteq Resource
  BY MembersAssumption
<1>3. BlockInv /\ MembersBeforeBlock
  BY <1>1, <1>2 DEF BlockInv, MembersBeforeBlock
<1> QED
  BY <1>1, <1>3, InitIInv DEF OrderInv, SnapshotInv

(* No step breaks the order. *)
LEMMA OrderStep == OrderInv /\ [Next]_vars => OrderInv'
<1>1. IInv /\ [Next]_vars => IInv'
  BY NextTypeOK, LockStep, TimelineStep, CondemnedStep, ScanStep, UseStep DEF IInv
<1> QED
  BY <1>1, SnapshotStep, BlockStep DEF OrderInv

(* A memory block is destroyed after every resource placed in it, whatever *)
(* the number of blocks, members and queues and the GPU's progress: the    *)
(* assertion that a block has no reference left when it goes.              *)
THEOREM BlocksGoLast == Spec => []MembersBeforeBlock
<1>1. OrderInv => MembersBeforeBlock
  BY DEF OrderInv
<1> QED
  BY <1>1, InitOrderInv, OrderStep, PTL DEF Spec

-----------------------------------------------------------------------------
(* The destructor.                                                         *)

(* The numbers stay below the CPU's timelines, and a queue whose GPU is    *)
(* behind its CPU has its last submission in hand or in flight.            *)
LEMMA CountStep == IInv /\ CountInv /\ [Next]_vars => CountInv'
<1> SUFFICES ASSUME IInv, CountInv, [Next]_vars PROVE CountInv'
  OBVIOUS
<1> USE DEF submitVars, listVars, lifeVars, gcVars, dtorVars
<1>0. /\ TypeOK /\ TimelineInv
      /\ cpuTimeline \in [Queue -> Timeline] /\ gpuTimeline \in [Queue -> Timeline]
      /\ submit \in [Queue -> SubmitCall]
      /\ pendingSubmits \in Seq(Pending) /\ listZombies \in Seq(ListZombie)
      /\ Len(pendingSubmits) \in Nat /\ Len(listZombies) \in Nat
      /\ \A i \in 1 .. Len(pendingSubmits) : pendingSubmits[i].queue \in Queue /\ pendingSubmits[i].value \in Nat
      /\ \A i \in 1 .. Len(listZombies) : listZombies[i].queue \in Queue /\ listZombies[i].value \in Nat
      /\ \A q \in Queue : cpuTimeline[q] \in Nat /\ gpuTimeline[q] \in Nat /\ submit[q].value \in Nat
      /\ \A w \in inFlight : w.queue \in Queue /\ w.value \in Nat
  <2>1. \A i \in 1 .. Len(pendingSubmits) : pendingSubmits[i] \in Pending
    BY ElementOfSeq DEF IInv, TypeOK
  <2>2. \A i \in 1 .. Len(listZombies) : listZombies[i] \in ListZombie
    BY ElementOfSeq DEF IInv, TypeOK
  <2>3. /\ \A i \in 1 .. Len(pendingSubmits) : pendingSubmits[i].queue \in Queue /\ pendingSubmits[i].value \in Nat
        /\ \A i \in 1 .. Len(listZombies) : listZombies[i].queue \in Queue /\ listZombies[i].value \in Nat
    BY <2>1, <2>2, BoundAssumption DEF Pending, ListZombie, Timeline
  <2>4. /\ \A q \in Queue : cpuTimeline[q] \in Nat /\ gpuTimeline[q] \in Nat /\ submit[q].value \in Nat
        /\ \A w \in inFlight : w.queue \in Queue /\ w.value \in Nat
    BY BoundAssumption DEF IInv, TypeOK, Timeline, SubmitCall, Submission
  <2> QED
    BY <2>3, <2>4, LenProperties DEF IInv, TypeOK
<1>1. CASE UNCHANGED <<cpuTimeline, gpuTimeline, pendingSubmits, listZombies, submit, inFlight>>
  BY <1>1 DEF CountInv
<1>2. ASSUME NEW q \in Queue, NEW cs \in SUBSET List, SubmitTrack(q, cs) PROVE CountInv'
  <2>1. PICK value \in Nat : value = cpuTimeline[q] + 1
    BY <1>0
  <2>2. /\ cpuTimeline' = [cpuTimeline EXCEPT ![q] = value]
        /\ pendingSubmits' = Append(pendingSubmits, [queue |-> q, value |-> value])
        /\ submit' = [submit EXCEPT ![q] = [stage |-> "tracked", value |-> value, lists |-> cs]]
        /\ UNCHANGED <<gpuTimeline, inFlight, listZombies>> /\ value \in Timeline
    BY <1>2, <2>1 DEF SubmitTrack
  <2>3. /\ \A p \in Queue : cpuTimeline'[p] \in Nat /\ cpuTimeline[p] <= cpuTimeline'[p]
        /\ \A p \in Queue : p # q => cpuTimeline'[p] = cpuTimeline[p] /\ submit'[p] = submit[p]
        /\ cpuTimeline'[q] = value /\ submit'[q].value = value /\ submit'[q].stage = "tracked"
    BY <1>0, <2>1, <2>2
  <2>4. [queue |-> q, value |-> value] \in Pending
    BY <2>2 DEF Pending
  <2>5. /\ Len(pendingSubmits') = Len(pendingSubmits) + 1
        /\ \A i \in 1 .. Len(pendingSubmits) : pendingSubmits'[i] = pendingSubmits[i]
        /\ pendingSubmits'[Len(pendingSubmits) + 1] = [queue |-> q, value |-> value]
    BY <1>0, <2>2, <2>4, AppendProperties
  <2>6. ASSUME NEW i \in 1 .. Len(pendingSubmits')
        PROVE  pendingSubmits'[i].value <= cpuTimeline'[pendingSubmits'[i].queue]
    <3>1. CASE i \in 1 .. Len(pendingSubmits)
      <4>1. /\ pendingSubmits[i].queue \in Queue /\ pendingSubmits[i].value \in Nat
            /\ pendingSubmits[i].value <= cpuTimeline[pendingSubmits[i].queue]
        BY <1>0, <3>1 DEF CountInv
      <4> QED
        BY <1>0, <2>3, <2>5, <3>1, <4>1
    <3>2. CASE i = Len(pendingSubmits) + 1
      BY <2>3, <2>5, <3>2
    <3> QED
      BY <1>0, <2>5, <3>1, <3>2
  <2>7. ASSUME NEW i \in 1 .. Len(listZombies)
        PROVE  listZombies[i].value <= cpuTimeline'[listZombies[i].queue]
    <3>1. /\ listZombies[i].queue \in Queue /\ listZombies[i].value \in Nat
          /\ listZombies[i].value <= cpuTimeline[listZombies[i].queue]
      BY <1>0 DEF CountInv
    <3> QED
      BY <1>0, <2>3, <3>1
  <2>8. ASSUME NEW p \in Queue
        PROVE  /\ submit'[p].value <= cpuTimeline'[p]
               /\ \/ gpuTimeline[p] = cpuTimeline'[p]
                  \/ submit'[p].stage = "tracked"
                  \/ \E w \in inFlight : w.queue = p /\ w.value = cpuTimeline'[p]
    BY <2>1, <2>3 DEF CountInv
  <2> QED
    BY <2>2, <2>6, <2>7, <2>8 DEF CountInv
<1>3. ASSUME NEW q \in Queue, SubmitHand(q) PROVE CountInv'
  <2>1. /\ submit[q].stage = "tracked" /\ inFlight' = inFlight \cup {WorkOf(q)}
        /\ submit' = [submit EXCEPT ![q] = IF @.lists = {} THEN NoSubmit ELSE [@ EXCEPT !.stage = "handed"]]
        /\ UNCHANGED <<cpuTimeline, pendingSubmits, gpuTimeline, listZombies>>
    BY <1>3 DEF SubmitHand
  <2>2. WorkOf(q).queue = q /\ WorkOf(q).value = cpuTimeline[q]
    BY <1>0, <2>1 DEF WorkOf, TimelineInv
  <2>3. /\ \A p \in Queue : p # q => submit'[p] = submit[p]
        /\ submit'[q].value \in {0, submit[q].value}
    BY <1>0, <2>1 DEF NoSubmit, SubmitCall
  <2>4. ASSUME NEW p \in Queue
        PROVE  \/ gpuTimeline[p] = cpuTimeline[p]
               \/ submit'[p].stage = "tracked"
               \/ \E w \in inFlight' : w.queue = p /\ w.value = cpuTimeline[p]
    BY <2>1, <2>2, <2>3 DEF CountInv
  <2>5. \A p \in Queue : submit'[p].value <= cpuTimeline[p]
    BY <1>0, <2>3 DEF CountInv
  <2> QED
    BY <2>1, <2>4, <2>5 DEF CountInv
<1>4. ASSUME NEW q \in Queue, NEW c \in List, SubmitRetire(q, c) PROVE CountInv'
  <2>1. PICK e \in ListZombie : /\ e.queue = q /\ e.value = submit[q].value
                                /\ listZombies' = Append(listZombies, e)
    <3>1. [queue |-> q, value |-> submit[q].value, pool |-> list[c].pool] \in ListZombie
      BY <1>0 DEF ListZombie, SubmitCall, CommandBuffer, TypeOK
    <3> QED
      BY <1>4, <3>1 DEF SubmitRetire
  <2>2. /\ submit[q].stage = "handed"
        /\ submit' = [submit EXCEPT ![q] = IF submit[q].lists \ {c} = {} THEN NoSubmit
                                           ELSE [@ EXCEPT !.lists = submit[q].lists \ {c}]]
        /\ UNCHANGED <<cpuTimeline, pendingSubmits, gpuTimeline, inFlight>>
    BY <1>4 DEF SubmitRetire
  <2>3. /\ \A p \in Queue : p # q => submit'[p] = submit[p]
        /\ submit'[q].value \in {0, submit[q].value}
    BY <1>0, <2>2 DEF NoSubmit, SubmitCall
  <2>4. /\ Len(listZombies') = Len(listZombies) + 1
        /\ \A i \in 1 .. Len(listZombies) : listZombies'[i] = listZombies[i]
        /\ listZombies'[Len(listZombies) + 1] = e
    BY <1>0, <2>1, AppendProperties
  <2>5. ASSUME NEW i \in 1 .. Len(listZombies')
        PROVE  listZombies'[i].value <= cpuTimeline[listZombies'[i].queue]
    <3>1. i \in 1 .. Len(listZombies) \/ i = Len(listZombies) + 1
      BY <1>0, <2>4
    <3> QED
      BY <2>1, <2>4, <3>1 DEF CountInv
  <2>6. \A p \in Queue : submit'[p].value <= cpuTimeline[p]
    BY <1>0, <2>3 DEF CountInv
  <2>7. \A p \in Queue : submit[p].stage = "tracked" => submit'[p].stage = "tracked"
    BY <2>2, <2>3
  <2> QED
    BY <2>2, <2>5, <2>6, <2>7 DEF CountInv
<1>5. ASSUME NEW q \in Queue, GpuComplete(q) PROVE CountInv'
  <2>1. PICK w \in inFlight : /\ w.queue = q /\ inFlight' = inFlight \ {w}
                              /\ gpuTimeline' = [gpuTimeline EXCEPT ![q] = w.value]
    BY <1>5 DEF GpuComplete
  <2>2. UNCHANGED <<cpuTimeline, pendingSubmits, listZombies, submit>>
    BY <1>5 DEF GpuComplete
  <2>3. gpuTimeline[q] < w.value /\ w.value <= cpuTimeline[q]
    BY <2>1, <1>0 DEF TimelineInv
  <2>4. ASSUME NEW p \in Queue
        PROVE  \/ gpuTimeline'[p] = cpuTimeline[p]
               \/ submit[p].stage = "tracked"
               \/ \E v \in inFlight' : v.queue = p /\ v.value = cpuTimeline[p]
    <3>1. CASE p # q
      BY <1>0, <2>1, <3>1 DEF CountInv
    <3>2. CASE p = q
      <4>1. gpuTimeline'[q] = w.value /\ gpuTimeline[q] # cpuTimeline[q]
        BY <1>0, <2>1, <2>3
      <4>2. \/ submit[q].stage = "tracked"
            \/ \E v \in inFlight : v.queue = q /\ v.value = cpuTimeline[q]
        BY <4>1 DEF CountInv
      <4> QED
        BY <2>1, <3>2, <4>1, <4>2
    <3> QED
      BY <3>1, <3>2
  <2> QED
    BY <2>2, <2>4 DEF CountInv
<1>6. ASSUME GcList PROVE CountInv'
  <2>1. UNCHANGED <<cpuTimeline, gpuTimeline, pendingSubmits, submit, inFlight>>
    BY <1>6 DEF GcList
  <2>2. CASE listZombies' = RemoveAt(listZombies, gcAt)
    <3>1. PICK k \in 1 .. Len(listZombies) : k = gcAt
      BY <1>0, <1>6 DEF GcList, TypeOK
    <3>2. \A j \in 1 .. Len(listZombies') : \E i \in 1 .. Len(listZombies) : listZombies'[j] = listZombies[i]
      BY <1>0, <2>2, <3>1, RemoveAtElements
    <3>3. \A j \in 1 .. Len(listZombies') : listZombies'[j].value <= cpuTimeline[listZombies'[j].queue]
      BY <3>2 DEF CountInv
    <3> QED
      BY <2>1, <3>3 DEF CountInv
  <2> QED
    BY <1>1, <1>6, <2>1, <2>2 DEF GcList
<1>7. ASSUME GcSubmit PROVE CountInv'
  <2>1. UNCHANGED <<cpuTimeline, gpuTimeline, listZombies, submit, inFlight>>
    BY <1>7 DEF GcSubmit
  <2>2. CASE pendingSubmits' = RemoveAt(pendingSubmits, gcAt)
    <3>1. PICK k \in 1 .. Len(pendingSubmits) : k = gcAt
      BY <1>0, <1>7 DEF GcSubmit, TypeOK
    <3>2. \A j \in 1 .. Len(pendingSubmits') : \E i \in 1 .. Len(pendingSubmits) : pendingSubmits'[j] = pendingSubmits[i]
      BY <1>0, <2>2, <3>1, RemoveAtElements
    <3>3. \A j \in 1 .. Len(pendingSubmits') : pendingSubmits'[j].value <= cpuTimeline[pendingSubmits'[j].queue]
      BY <3>2 DEF CountInv
    <3> QED
      BY <2>1, <3>3 DEF CountInv
  <2> QED
    BY <1>1, <1>7, <2>1, <2>2 DEF GcSubmit
<1>8. ASSUME NEW c \in List, NEW q \in Queue, CountOpen(c, q) PROVE CountInv'
  BY <1>1, <1>8 DEF CountOpen
<1>9. ASSUME NEW c \in List, TakePool(c) PROVE CountInv'
  BY <1>1, <1>9 DEF TakePool
<1>10. ASSUME NEW c \in List, NEW r \in Resource, Record(c, r) PROVE CountInv'
  BY <1>1, <1>10 DEF Record
<1>11. ASSUME NEW r \in Resource, TryEnqueueDestroyDeferred(r) \/ DestroyImmediately(r) PROVE CountInv'
  BY <1>1, <1>11 DEF TryEnqueueDestroyDeferred, DestroyImmediately
<1>12. ASSUME GcBegin \/ GcListsDone \/ GcSubmitsDone \/ GcZombie \/ GcZombiesDone \/ GcDrain \/ GcEnd
       PROVE  CountInv'
  BY <1>1, <1>12 DEF GcBegin, GcListsDone, GcSubmitsDone, GcZombie, GcZombiesDone, GcDrain, GcEnd
<1>13. ASSUME DtorWaitIdle \/ DtorEnd \/ UNCHANGED vars PROVE CountInv'
  BY <1>1, <1>13 DEF DtorWaitIdle, DtorEnd, vars
<1> QED
  BY <1>2, <1>3, <1>4, <1>5, <1>6, <1>7, <1>8, <1>9, <1>10, <1>11, <1>12, <1>13
  DEF Next, GcStep, Terminated

(* With nothing in flight and nothing being submitted the GPU is where the *)
(* CPU is, so everything on record is complete.                            *)
LEMMA CaughtUp ==
  ASSUME TypeOK, CountInv, inFlight = {}, \A q \in Queue : submit[q].stage = "none"
  PROVE  /\ \A i \in 1 .. Len(listZombies) : Completed(listZombies[i])
         /\ \A i \in 1 .. Len(pendingSubmits) : Completed(pendingSubmits[i])
<1>1. \A q \in Queue : gpuTimeline[q] = cpuTimeline[q]
  BY DEF CountInv
<1>2. ASSUME NEW i \in 1 .. Len(listZombies) PROVE Completed(listZombies[i])
  <2>1. listZombies[i] \in ListZombie
    BY ElementOfSeq DEF TypeOK
  <2>2. listZombies[i].queue \in Queue /\ listZombies[i].value \in Nat
    BY <2>1, BoundAssumption DEF ListZombie, Timeline
  <2>3. listZombies[i].value <= cpuTimeline[listZombies[i].queue]
    BY DEF CountInv
  <2> QED
    BY <1>1, <2>2, <2>3 DEF Completed
<1>3. ASSUME NEW i \in 1 .. Len(pendingSubmits) PROVE Completed(pendingSubmits[i])
  <2>1. pendingSubmits[i] \in Pending
    BY ElementOfSeq DEF TypeOK
  <2>2. pendingSubmits[i].queue \in Queue /\ pendingSubmits[i].value \in Nat
    BY <2>1, BoundAssumption DEF Pending, Timeline
  <2>3. pendingSubmits[i].value <= cpuTimeline[pendingSubmits[i].queue]
    BY DEF CountInv
  <2> QED
    BY <1>1, <2>2, <2>3 DEF Completed
<1> QED
  BY <1>2, <1>3

(* Each of the destructor's collections leaves what ShutInv says of it. *)
LEMMA ShutStep == IInv /\ CountInv /\ ShutInv /\ [Next]_vars => ShutInv'
<1> SUFFICES ASSUME IInv, CountInv, ShutInv, [Next]_vars PROVE ShutInv'
  OBVIOUS
<1> USE DEF submitVars, listVars, lifeVars, gcVars, dtorVars
<1>0. /\ TypeOK /\ LockInv
      /\ list \in [List -> CommandBuffer] /\ \A c \in List : list[c].queue \in Queue
      /\ pendingSubmits \in Seq(Pending) /\ listZombies \in Seq(ListZombie)
      /\ resourceZombies \in Seq(Resource)
      /\ Len(pendingSubmits) \in Nat /\ Len(listZombies) \in Nat /\ Len(resourceZombies) \in Nat
      /\ gcAt \in Nat \ {0} /\ collectsLeft \in 0 .. 3
  BY LenProperties DEF IInv, TypeOK, CommandBuffer, DtorCollects
<1>1. CASE device = "alive" /\ UNCHANGED dtorVars
  BY <1>1 DEF ShutInv
<1>2. ASSUME DtorWaitIdle PROVE ShutInv'
  <2>1. /\ gcPhase = "idle" /\ collectsLeft = DtorCollects /\ inFlight = {}
        /\ device' = "collecting"
        /\ UNCHANGED <<submitVars, gpuTimeline, inFlight, listVars, lifeVars, gcVars, collectsLeft>>
        /\ \A q \in Queue : submit[q].stage = "none"
    BY <1>2 DEF DtorWaitIdle, ExclusiveAccess, ShutInv
  <2>2. \A c \in List : list[c].state = "closed"
    BY <1>0, <1>2 DEF DtorWaitIdle, AreCommandListsOpen, OpenCommands
  <2>3. Collected' = 0
    BY <1>0, <2>1 DEF Collected, DtorCollects
  <2> QED
    BY <2>1, <2>2, <2>3 DEF ShutInv
<1>3. CASE device # "alive"
  <2>1. /\ inFlight = {} /\ \A q \in Queue : submit[q].stage = "none"
        /\ \A c \in List : list[c].state = "closed"
    BY <1>3 DEF ShutInv
  <2>2. CASE UNCHANGED <<inFlight, submit, list, listZombies, pendingSubmits, resourceZombies,
                         destroyDeferred, gcPhase, gcAt, oldest, dtorVars>>
    BY <2>2 DEF ShutInv, Collected
  <2>3. ASSUME GcBegin PROVE ShutInv'
    <3>1. /\ gcPhase = "idle" /\ gcPhase' = "lists" /\ gcAt' = 1
          /\ device = "collecting" /\ device' = device
          /\ collectsLeft > 0 /\ collectsLeft' = collectsLeft - 1
          /\ UNCHANGED <<submitVars, gpuTimeline, inFlight, listVars, lifeVars, oldest>>
      BY <1>3, <2>3 DEF GcBegin, ExclusiveAccess
    <3>2. Collected' = Collected /\ Collected \in Int /\ collectsLeft' < DtorCollects
      BY <1>0, <3>1 DEF Collected, DtorCollects
    <3> QED
      BY <1>3, <3>1, <3>2 DEF ShutInv
  <2>4. ASSUME GcList PROVE ShutInv'
    <3>1. /\ gcPhase = "lists" /\ gcAt = 1 /\ gcAt \in 1 .. Len(listZombies) /\ UNCHANGED gcPhase
          /\ UNCHANGED <<inFlight, submit, list, pendingSubmits, resourceZombies, destroyDeferred,
                         oldest, device, collectsLeft>>
      BY <1>0, <1>3, <2>4 DEF GcList, ShutInv
    <3>2. gcAt' = gcAt /\ listZombies # <<>>
      <4>1. Completed(listZombies[gcAt])
        BY <1>0, <2>1, <3>1, CaughtUp
      <4> QED
        BY <1>0, <2>4, <3>1, <4>1, EmptySeq DEF GcList
    <3> QED
      BY <1>3, <3>1, <3>2 DEF ShutInv, Collected
  <2>5. ASSUME GcListsDone PROVE ShutInv'
    <3>1. /\ gcPhase = "lists" /\ gcPhase' = "submits" /\ gcAt' = 1
          /\ gcAt = 1 /\ gcAt > Len(listZombies) /\ oldest' = [q \in Queue |-> Never]
          /\ UNCHANGED <<submitVars, gpuTimeline, inFlight, listVars, lifeVars, dtorVars>>
      BY <1>3, <2>5 DEF GcListsDone, ShutInv
    <3>2. listZombies = <<>> /\ Collected' = Collected
      BY <1>0, <3>1, EmptySeq DEF Collected
    <3> QED
      BY <1>3, <3>1, <3>2 DEF ShutInv
  <2>6. ASSUME GcSubmit PROVE ShutInv'
    <3>1. /\ gcPhase = "submits" /\ gcAt = 1 /\ gcAt \in 1 .. Len(pendingSubmits) /\ UNCHANGED gcPhase
          /\ UNCHANGED <<inFlight, submit, list, listZombies, resourceZombies, destroyDeferred,
                         device, collectsLeft>>
      BY <1>0, <1>3, <2>6 DEF GcSubmit, ShutInv
    <3>2. gcAt' = gcAt /\ oldest' = oldest /\ pendingSubmits # <<>>
      <4>1. Completed(pendingSubmits[gcAt])
        BY <1>0, <2>1, <3>1, CaughtUp
      <4> QED
        BY <1>0, <2>6, <3>1, <4>1, EmptySeq DEF GcSubmit
    <3> QED
      BY <1>3, <3>1, <3>2 DEF ShutInv, Collected
  <2>7. ASSUME GcSubmitsDone PROVE ShutInv'
    <3>1. /\ gcPhase = "submits" /\ gcPhase' = "zombies" /\ gcAt' = 1
          /\ gcAt = 1 /\ gcAt > Len(pendingSubmits)
          /\ UNCHANGED <<submitVars, gpuTimeline, inFlight, listVars, lifeVars, oldest, dtorVars>>
      BY <1>3, <2>7 DEF GcSubmitsDone, ShutInv
    <3>2. pendingSubmits = <<>> /\ Collected' = Collected
      BY <1>0, <3>1, EmptySeq DEF Collected
    <3> QED
      BY <1>3, <3>1, <3>2 DEF ShutInv
  <2>8. ASSUME GcZombie PROVE ShutInv'
    <3>1. /\ gcPhase = "zombies" /\ gcAt = 1 /\ gcAt \in 1 .. Len(resourceZombies) /\ UNCHANGED gcPhase
          /\ UNCHANGED <<inFlight, submit, list, listZombies, pendingSubmits, destroyDeferred,
                         oldest, device, collectsLeft>>
      BY <1>0, <1>3, <2>8 DEF GcZombie, ShutInv
    <3>2. gcAt' = gcAt /\ resourceZombies # <<>>
      <4>1. PICK r \in Resource : r = resourceZombies[gcAt]
        BY <1>0, <3>1, ElementOfSeq
      <4>2. \A q \in Queue : snapshot[r][q] \in 0 .. MaxSubmits /\ oldest[q] = MaxSubmits + 1
        BY <1>0, <1>3, <3>1, <4>1 DEF TypeOK, Timeline, ShutInv, Never
      <4>3. Ready(r)
        BY <4>2, BoundAssumption DEF Ready
      <4> QED
        BY <1>0, <2>8, <3>1, <4>1, <4>3, EmptySeq DEF GcZombie
    <3> QED
      BY <1>3, <3>1, <3>2 DEF ShutInv, Collected
  <2>9. ASSUME GcZombiesDone PROVE ShutInv'
    <3>1. /\ gcPhase = "zombies" /\ gcPhase' = "drain"
          /\ gcAt = 1 /\ gcAt > Len(resourceZombies)
          /\ UNCHANGED <<submitVars, gpuTimeline, inFlight, listVars, lifeVars, gcAt, oldest, dtorVars>>
      BY <1>3, <2>9 DEF GcZombiesDone, ShutInv
    <3>2. resourceZombies = <<>> /\ Collected' = Collected
      BY <1>0, <3>1, EmptySeq DEF Collected
    <3> QED
      BY <1>3, <3>1, <3>2 DEF ShutInv
  <2>10. ASSUME GcDrain PROVE ShutInv'
    <3>1. /\ gcPhase = "drain" /\ destroyDeferred # <<>> /\ Collected' = Collected
          /\ UNCHANGED <<inFlight, submit, list, listZombies, pendingSubmits, gcPhase, gcAt, oldest, dtorVars>>
      BY <2>10 DEF GcDrain, Collected
    <3>2. ~(Collected >= 1) /\ ~(Collected >= 2) /\ Collected \in Int
      BY <1>0, <1>3, <3>1 DEF ShutInv, Collected, DtorCollects
    <3> QED
      BY <1>3, <3>1, <3>2 DEF ShutInv
  <2>11. ASSUME GcEnd PROVE ShutInv'
    <3>1. /\ gcPhase = "drain" /\ destroyDeferred = <<>> /\ gcPhase' = "idle"
          /\ UNCHANGED <<submitVars, gpuTimeline, inFlight, listVars, lifeVars, dtorVars>>
      BY <2>11 DEF GcEnd
    <3>2. Collected' = Collected + 1 /\ Collected \in Int
      BY <1>0, <3>1 DEF Collected, DtorCollects
    <3>3. listZombies = <<>> /\ pendingSubmits = <<>>
      BY <1>3, <3>1 DEF ShutInv
    <3>4. Collected' >= 2 => resourceZombies = <<>>
      BY <1>3, <3>1, <3>2 DEF ShutInv
    <3> QED
      BY <1>3, <3>1, <3>3, <3>4 DEF ShutInv
  <2>12. ASSUME DtorEnd PROVE ShutInv'
    BY <2>12 DEF DtorEnd, ShutInv, Collected
  <2>13. ASSUME NEW c \in List, NEW q \in Queue, CountOpen(c, q) \/ SubmitRetire(q, c) PROVE FALSE
    BY <1>3, <2>1, <2>13 DEF CountOpen, SubmitRetire
  <2>14. ASSUME NEW c \in List, TakePool(c) PROVE FALSE
    BY <2>1, <2>14 DEF TakePool
  <2>15. ASSUME NEW c \in List, NEW r \in Resource, Record(c, r) PROVE FALSE
    BY <2>1, <2>15 DEF Record
  <2>16. ASSUME NEW q \in Queue, NEW cs \in SUBSET List, SubmitTrack(q, cs) \/ SubmitHand(q) \/ GpuComplete(q)
         PROVE  FALSE
    BY <1>3, <2>1, <2>16 DEF SubmitTrack, SubmitHand, GpuComplete
  <2>17. ASSUME NEW r \in Resource, TryEnqueueDestroyDeferred(r) \/ DestroyImmediately(r) PROVE FALSE
    BY <1>3, <2>17 DEF TryEnqueueDestroyDeferred, DestroyImmediately, MayGiveUp
  <2>18. ASSUME DtorWaitIdle PROVE FALSE
    BY <1>3, <2>18 DEF DtorWaitIdle
  <2>19. CASE UNCHANGED vars
    BY <2>2, <2>19 DEF vars
  <2> QED
    BY <2>3, <2>4, <2>5, <2>6, <2>7, <2>8, <2>9, <2>10, <2>11, <2>12, <2>13, <2>14, <2>15, <2>16,
       <2>17, <2>18, <2>19
    DEF Next, GcStep, Terminated
<1>4. ASSUME device = "alive" PROVE UNCHANGED dtorVars \/ DtorWaitIdle
  <2>1. ASSUME NEW c \in List, NEW q \in Queue, CountOpen(c, q) \/ SubmitRetire(q, c) PROVE UNCHANGED dtorVars
    BY <2>1 DEF CountOpen, SubmitRetire
  <2>2. ASSUME NEW c \in List, TakePool(c) PROVE UNCHANGED dtorVars
    BY <2>2 DEF TakePool
  <2>3. ASSUME NEW c \in List, NEW r \in Resource, Record(c, r) PROVE UNCHANGED dtorVars
    BY <2>3 DEF Record
  <2>4. ASSUME NEW q \in Queue, NEW cs \in SUBSET List, SubmitTrack(q, cs) \/ SubmitHand(q) \/ GpuComplete(q)
        PROVE  UNCHANGED dtorVars
    BY <2>4 DEF SubmitTrack, SubmitHand, GpuComplete
  <2>5. ASSUME NEW r \in Resource, TryEnqueueDestroyDeferred(r) \/ DestroyImmediately(r) PROVE UNCHANGED dtorVars
    BY <2>5 DEF TryEnqueueDestroyDeferred, DestroyImmediately
  <2>6. ASSUME GcBegin \/ GcStep PROVE UNCHANGED dtorVars
    BY <1>4, <2>6 DEF GcBegin, GcStep, GcList, GcListsDone, GcSubmit, GcSubmitsDone, GcZombie,
                      GcZombiesDone, GcDrain, GcEnd
  <2>7. ASSUME DtorEnd PROVE FALSE
    BY <1>4, <2>7 DEF DtorEnd
  <2>8. CASE UNCHANGED vars
    BY <2>8 DEF vars
  <2> QED
    BY <2>1, <2>2, <2>3, <2>4, <2>5, <2>6, <2>7, <2>8 DEF Next, Terminated
<1> QED
  BY <1>1, <1>2, <1>3, <1>4

(* A new device has nothing on record, and all its collections to make. *)
LEMMA InitCountShut == Init => CountInv /\ ShutInv
<1> SUFFICES ASSUME Init PROVE CountInv /\ ShutInv
  OBVIOUS
<1>1. /\ Len(pendingSubmits) = 0 /\ Len(listZombies) = 0
      /\ \A q \in Queue : cpuTimeline[q] = 0 /\ gpuTimeline[q] = 0 /\ submit[q].value = 0
      /\ device = "alive" /\ collectsLeft = DtorCollects
  BY EmptySeq DEF Init, NoSubmit
<1> QED
  BY <1>1 DEF CountInv, ShutInv

(* Once the device is destroyed nothing it had to recycle or destroy is    *)
(* left, however much there was when the destructor was called: the        *)
(* destructor's assertion that no zombie is left, and more.                *)
THEOREM DestructorCleansUp == Spec => []DtorLeavesNothing
<1>1. Init => IInv /\ CountInv /\ ShutInv
  BY InitIInv, InitCountShut
<1>2. IInv /\ CountInv /\ ShutInv /\ [Next]_vars => (IInv /\ CountInv /\ ShutInv)'
  <2>1. IInv /\ [Next]_vars => IInv'
    BY NextTypeOK, LockStep, TimelineStep, CondemnedStep, ScanStep, UseStep DEF IInv
  <2> QED
    BY <2>1, CountStep, ShutStep
<1>3. IInv /\ ShutInv => DtorLeavesNothing
  <2> SUFFICES ASSUME IInv, ShutInv, device = "destroyed" PROVE DtorLeavesNothing
    BY DEF DtorLeavesNothing
  <2>1. Collected = 3
    BY DEF Collected, ShutInv, DtorCollects
  <2> QED
    BY <2>1 DEF ShutInv, DtorLeavesNothing
<1> QED
  BY <1>1, <1>2, <1>3, PTL DEF Spec

-----------------------------------------------------------------------------
(* Command pools.                                                          *)

(* The types the pools' proofs lean on. *)
LEMMA PoolTypes ==
  ASSUME TypeOK
  PROVE  /\ list \in [List -> CommandBuffer]
         /\ \A c \in List : list[c].queue \in Queue /\ list[c].pool \in Nat
         /\ freePools \in [Queue -> Seq(Nat)]
         /\ \A q \in Queue : /\ freePools[q] \in Seq(Nat) /\ Len(freePools[q]) \in Nat
                             /\ poolsMade[q] \in Nat
                             /\ \A i \in 1 .. Len(freePools[q]) : freePools[q][i] \in Nat
         /\ poolsMade \in [Queue -> Nat]
         /\ listZombies \in Seq(ListZombie) /\ Len(listZombies) \in Nat
         /\ \A i \in 1 .. Len(listZombies) :
              /\ listZombies[i] \in ListZombie
              /\ listZombies[i].queue \in Queue /\ listZombies[i].pool \in Nat
<1>1. /\ \A c \in List : list[c].queue \in Queue /\ list[c].pool \in Nat
      /\ list \in [List -> CommandBuffer]
  BY DEF TypeOK, CommandBuffer
<1>2. /\ \A q \in Queue : freePools[q] \in Seq(Nat) /\ poolsMade[q] \in Nat
      /\ freePools \in [Queue -> Seq(Nat)] /\ poolsMade \in [Queue -> Nat]
  BY DEF TypeOK
<1>3. \A q \in Queue : Len(freePools[q]) \in Nat /\ \A i \in 1 .. Len(freePools[q]) : freePools[q][i] \in Nat
  BY <1>2, LenProperties, ElementOfSeq
<1>4. /\ listZombies \in Seq(ListZombie) /\ Len(listZombies) \in Nat
      /\ \A i \in 1 .. Len(listZombies) : listZombies[i] \in ListZombie
  BY LenProperties, ElementOfSeq DEF TypeOK
<1>5. \A i \in 1 .. Len(listZombies) : listZombies[i].queue \in Queue /\ listZombies[i].pool \in Nat
  BY <1>4 DEF ListZombie
<1> QED
  BY <1>1, <1>2, <1>3, <1>4, <1>5

(* While the pools stay where they are, a list may only give its pool up   *)
(* together with its state.                                                *)
LEMMA ApartStable ==
  ASSUME TypeOK, PoolsApart, UNCHANGED <<freePools, listZombies, poolsMade>>,
         \A c \in List :
           \/ /\ list'[c].queue = list[c].queue /\ list'[c].pool = list[c].pool
              /\ list'[c].state \in {"closed", "counted"} <=> list[c].state \in {"closed", "counted"}
           \/ /\ list'[c].queue \in Queue /\ list'[c].pool = NoPool
              /\ list'[c].state \in {"closed", "counted"}
  PROVE  PoolsApart'
<1>1. \A q \in Queue : \A i \in 1 .. Len(freePools[q]) :
        /\ \A c \in List : list'[c].queue = q => list'[c].pool # freePools[q][i]
        /\ freePools[q][i] # NoPool
  <2>1. \A q \in Queue : \A i \in 1 .. Len(freePools[q]) :
          /\ freePools[q][i] \in 1 .. poolsMade[q]
          /\ \A c \in List : list[c].queue = q => list[c].pool # freePools[q][i]
    BY DEF PoolsApart
  <2>2. \A q \in Queue : \A i \in 1 .. Len(freePools[q]) : freePools[q][i] # NoPool
    BY <2>1, PoolTypes DEF NoPool
  <2>3. \A c \in List : \/ list'[c].queue = list[c].queue /\ list'[c].pool = list[c].pool
                        \/ list'[c].pool = NoPool
    OBVIOUS
  <2> QED
    BY <2>1, <2>2, <2>3
<1>2. \A i \in 1 .. Len(listZombies) :
        \A c \in List : list'[c].queue = listZombies[i].queue => list'[c].pool # listZombies[i].pool
  BY PoolTypes DEF PoolsApart, NoPool
<1>3. \A c, d \in List :
        list'[c].queue = list'[d].queue /\ list'[c].pool = list'[d].pool /\ list'[c].pool # NoPool => c = d
  BY DEF PoolsApart
<1>4. \A c \in List :
        /\ list'[c].pool \in 0 .. poolsMade[list'[c].queue]
        /\ list'[c].pool = NoPool <=> list'[c].state \in {"closed", "counted"}
  BY PoolTypes DEF PoolsApart, NoPool
<1> QED
  BY <1>1, <1>2, <1>3, <1>4 DEF PoolsApart

(* A pool is never in two places. *)
LEMMA ApartStep == IInv /\ PoolsApart /\ [Next]_vars => PoolsApart'
<1> SUFFICES ASSUME IInv, PoolsApart, [Next]_vars PROVE PoolsApart'
  OBVIOUS
<1> USE DEF submitVars, listVars, lifeVars, gcVars, dtorVars
<1>0. TypeOK /\ LockInv
  BY DEF IInv
<1>1. CASE UNCHANGED <<list, freePools, listZombies, poolsMade>>
  BY <1>0, <1>1, ApartStable
<1>2. ASSUME NEW c \in List, NEW q \in Queue, CountOpen(c, q) PROVE PoolsApart'
  <2>1. /\ list' = [list EXCEPT ![c] = [Closed EXCEPT !.state = "counted", !.queue = q]]
        /\ UNCHANGED <<freePools, listZombies, poolsMade>>
    BY <1>2 DEF CountOpen
  <2>2. /\ list'[c].queue = q /\ list'[c].pool = NoPool /\ list'[c].state = "counted"
        /\ \A b \in List : b # c => list'[b] = list[b]
    BY <1>0, <2>1, PoolTypes DEF Closed
  <2> QED
    BY <1>0, <2>1, <2>2, ApartStable
<1>3. ASSUME NEW c \in List, TakePool(c) PROVE PoolsApart'
  <2> DEFINE q == list[c].queue
  <2>0. /\ q \in Queue /\ list[c].state = "counted" /\ list[c].pool = NoPool
        /\ UNCHANGED listZombies
    BY <1>0, <1>3, PoolTypes DEF TakePool, PoolsApart
  <2> HIDE DEF q
  <2>1. ASSUME NEW p \in Nat, list' = [list EXCEPT ![c] = [@ EXCEPT !.state = "open", !.pool = p]]
        PROVE  /\ list'[c].queue = q /\ list'[c].pool = p /\ list'[c].state = "open"
               /\ \A b \in List : b # c => list'[b] = list[b]
    BY <1>0, <2>1, PoolTypes DEF CommandBuffer, q
  <2>2. CASE /\ poolsMade' = [poolsMade EXCEPT ![q] = @ + 1]
             /\ list' = [list EXCEPT ![c] = [@ EXCEPT !.state = "open", !.pool = poolsMade[q] + 1]]
             /\ UNCHANGED freePools
    <3>1. PICK p \in Nat : p = poolsMade[q] + 1
      BY <1>0, <2>0, PoolTypes
    <3>2. /\ list'[c].queue = q /\ list'[c].pool = p /\ list'[c].state = "open"
          /\ \A b \in List : b # c => list'[b] = list[b]
      BY <2>1, <2>2, <3>1
    <3>3. /\ poolsMade'[q] = p /\ p > poolsMade[q] /\ p # NoPool
          /\ \A o \in Queue : poolsMade'[o] \in Nat /\ poolsMade[o] <= poolsMade'[o]
      BY <1>0, <2>0, <2>2, <3>1, PoolTypes DEF NoPool
    <3>4. /\ \A i \in 1 .. Len(freePools[q]) : freePools[q][i] # p
          /\ \A i \in 1 .. Len(listZombies) : listZombies[i].queue = q => listZombies[i].pool # p
          /\ \A b \in List : list[b].queue = q => list[b].pool # p
      BY <1>0, <2>0, <3>3, PoolTypes DEF PoolsApart
    <3>5. \A o \in Queue : \A i \in 1 .. Len(freePools[o]) :
            /\ freePools[o][i] \in 1 .. poolsMade'[o]
            /\ \A b \in List : list'[b].queue = o => list'[b].pool # freePools[o][i]
      <4> TAKE o \in Queue
      <4> TAKE i \in 1 .. Len(freePools[o])
      <4>1. freePools[o][i] \in 1 .. poolsMade[o] /\ \A b \in List : list[b].queue = o => list[b].pool # freePools[o][i]
        BY DEF PoolsApart
      <4>2. poolsMade[o] \in Nat /\ poolsMade'[o] \in Nat /\ poolsMade[o] <= poolsMade'[o]
        BY <1>0, <3>3, PoolTypes
      <4>3. freePools[o][i] \in 1 .. poolsMade'[o]
        BY <4>1, <4>2
      <4> QED
        BY <3>2, <3>4, <4>1, <4>3
    <3>6. \A i \in 1 .. Len(listZombies) :
            /\ listZombies[i].pool \in 1 .. poolsMade'[listZombies[i].queue]
            /\ \A b \in List : list'[b].queue = listZombies[i].queue => list'[b].pool # listZombies[i].pool
      <4> TAKE i \in 1 .. Len(listZombies)
      <4>1. PICK o \in Queue : o = listZombies[i].queue
        BY <1>0, PoolTypes
      <4>2. /\ listZombies[i].pool \in 1 .. poolsMade[o]
            /\ \A b \in List : list[b].queue = o => list[b].pool # listZombies[i].pool
        BY <4>1 DEF PoolsApart
      <4>3. poolsMade[o] \in Nat /\ poolsMade'[o] \in Nat /\ poolsMade[o] <= poolsMade'[o]
        BY <1>0, <3>3, PoolTypes
      <4>4. listZombies[i].pool \in 1 .. poolsMade'[o]
        BY <4>2, <4>3
      <4> QED
        BY <3>2, <3>4, <4>1, <4>2, <4>4
    <3>7. \A b, e \in List :
            list'[b].queue = list'[e].queue /\ list'[b].pool = list'[e].pool /\ list'[b].pool # NoPool => b = e
      BY <3>2, <3>4 DEF PoolsApart
    <3>8. \A b \in List :
            /\ list'[b].pool \in 0 .. poolsMade'[list'[b].queue]
            /\ list'[b].pool = NoPool <=> list'[b].state \in {"closed", "counted"}
      <4> TAKE b \in List
      <4>1. CASE b = c
        BY <2>0, <3>2, <3>3, <4>1
      <4>2. CASE b # c
        <5>1. PICK o \in Queue : o = list[b].queue
          BY <1>0, PoolTypes
        <5>2. /\ list[b].pool \in 0 .. poolsMade[o]
              /\ list[b].pool = NoPool <=> list[b].state \in {"closed", "counted"}
          BY <5>1 DEF PoolsApart
        <5>3. poolsMade[o] \in Nat /\ poolsMade'[o] \in Nat /\ poolsMade[o] <= poolsMade'[o]
          BY <1>0, <3>3, PoolTypes
        <5>4. list[b].pool \in 0 .. poolsMade'[o]
          BY <5>2, <5>3
        <5> QED
          BY <3>2, <4>2, <5>1, <5>2, <5>4
      <4> QED
        BY <4>1, <4>2
    <3> QED
      BY <2>0, <2>2, <3>5, <3>6, <3>7, <3>8 DEF PoolsApart
  <2>3. CASE /\ freePools[q] # <<>>
             /\ freePools' = [freePools EXCEPT ![q] = Front(@)]
             /\ list' = [list EXCEPT ![c] = [@ EXCEPT !.state = "open", !.pool = Last(freePools[q])]]
             /\ UNCHANGED poolsMade
    <3> DEFINE n == Len(freePools[q])
    <3>1. PICK p \in Nat : /\ p = Last(freePools[q]) /\ n \in Nat \ {0} /\ p = freePools[q][n]
      BY <1>0, <2>0, <2>3, PoolTypes, FrontLastElements, FrontLastType
    <3>2. /\ list'[c].queue = q /\ list'[c].pool = p /\ list'[c].state = "open"
          /\ \A b \in List : b # c => list'[b] = list[b]
      BY <2>1, <2>3, <3>1
    <3>3. /\ Len(freePools'[q]) = n - 1
          /\ \A i \in 1 .. n - 1 : freePools'[q][i] = freePools[q][i]
          /\ \A o \in Queue : o # q => freePools'[o] = freePools[o]
      <4>1. freePools'[q] = Front(freePools[q]) /\ \A o \in Queue : o # q => freePools'[o] = freePools[o]
        BY <1>0, <2>0, <2>3, PoolTypes
      <4> QED
        BY <1>0, <2>0, <2>3, <4>1, PoolTypes, FrontLastElements
    <3>4. n \in 1 .. n /\ \A i \in 1 .. n - 1 : i \in 1 .. n /\ i # n
      BY <3>1
    <3>5. /\ \A i \in 1 .. n - 1 : freePools[q][i] # p
          /\ \A i \in 1 .. Len(listZombies) : listZombies[i].queue = q => listZombies[i].pool # p
          /\ \A b \in List : list[b].queue = q => list[b].pool # p
          /\ p \in 1 .. poolsMade[q] /\ p # NoPool
      <4> DEFINE Free(o, i) == /\ freePools[o][i] \in 1 .. poolsMade[o]
                               /\ \A b \in List : list[b].queue = o => list[b].pool # freePools[o][i]
                               /\ \A j \in 1 .. Len(listZombies) :
                                    listZombies[j].queue = o => listZombies[j].pool # freePools[o][i]
      <4>0. \A o \in Queue : \A i \in 1 .. Len(freePools[o]) : Free(o, i)
        BY DEF PoolsApart
      <4>5. Free(q, n)
        BY <2>0, <3>4, <4>0
      <4>1. /\ p \in 1 .. poolsMade[q]
            /\ \A j \in 1 .. Len(listZombies) : listZombies[j].queue = q => listZombies[j].pool # p
            /\ \A b \in List : list[b].queue = q => list[b].pool # p
        BY <3>1, <4>5
      <4>2. \A i \in 1 .. n : freePools[q][i] = freePools[q][n] => i = n
        BY <2>0, <3>4 DEF PoolsApart
      <4>3. p # NoPool
        BY <4>1 DEF NoPool
      <4> QED
        BY <3>1, <3>4, <4>1, <4>2, <4>3
    <3> HIDE DEF n
    <3>6. /\ \A o \in Queue : \A i \in 1 .. Len(freePools'[o]) :
               /\ i \in 1 .. Len(freePools[o]) /\ freePools'[o][i] = freePools[o][i]
               /\ o = q => freePools[o][i] # p
      BY <3>3, <3>4, <3>5 DEF n
    <3>7. \A o \in Queue : \A i \in 1 .. Len(freePools'[o]) :
            /\ freePools'[o][i] \in 1 .. poolsMade[o]
            /\ \A b \in List : list'[b].queue = o => list'[b].pool # freePools'[o][i]
            /\ \A j \in 1 .. Len(listZombies) : listZombies[j].queue = o => listZombies[j].pool # freePools'[o][i]
            /\ \A j \in 1 .. Len(freePools'[o]) : freePools'[o][i] = freePools'[o][j] => i = j
      <4> TAKE o \in Queue
      <4> TAKE i \in 1 .. Len(freePools'[o])
      <4>1. /\ i \in 1 .. Len(freePools[o]) /\ freePools'[o][i] = freePools[o][i]
            /\ o = q => freePools[o][i] # p
        BY <3>6
      <4>2. /\ freePools[o][i] \in 1 .. poolsMade[o]
            /\ \A b \in List : list[b].queue = o => list[b].pool # freePools[o][i]
            /\ \A j \in 1 .. Len(listZombies) : listZombies[j].queue = o => listZombies[j].pool # freePools[o][i]
            /\ \A j \in 1 .. Len(freePools[o]) : freePools[o][i] = freePools[o][j] => i = j
        BY <4>1 DEF PoolsApart
      <4>3. \A b \in List : list'[b].queue = o => list'[b].pool # freePools[o][i]
        BY <3>2, <4>1, <4>2
      <4>4. \A j \in 1 .. Len(freePools'[o]) : freePools'[o][i] = freePools'[o][j] => i = j
        BY <3>6, <4>1, <4>2
      <4> QED
        BY <4>1, <4>2, <4>3, <4>4
    <3>8. \A i \in 1 .. Len(listZombies) :
            \A b \in List : list'[b].queue = listZombies[i].queue => list'[b].pool # listZombies[i].pool
      BY <3>2, <3>5 DEF PoolsApart
    <3>9. \A b, e \in List :
            list'[b].queue = list'[e].queue /\ list'[b].pool = list'[e].pool /\ list'[b].pool # NoPool => b = e
      BY <3>2, <3>5 DEF PoolsApart
    <3>10. \A b \in List :
             /\ list'[b].pool \in 0 .. poolsMade[list'[b].queue]
             /\ list'[b].pool = NoPool <=> list'[b].state \in {"closed", "counted"}
      BY <3>2, <3>5 DEF PoolsApart
    <3> QED
      BY <2>0, <2>3, <3>7, <3>8, <3>9, <3>10 DEF PoolsApart
  <2> QED
    BY <1>3, <2>2, <2>3 DEF TakePool, q
<1>4. ASSUME NEW c \in List, NEW r \in Resource, Record(c, r) PROVE PoolsApart'
  <2>1. /\ list' = [list EXCEPT ![c].uses = @ \cup {r}]
        /\ UNCHANGED <<freePools, listZombies, poolsMade>>
    BY <1>4 DEF Record
  <2>2. \A b \in List : /\ list'[b].queue = list[b].queue /\ list'[b].pool = list[b].pool
                        /\ list'[b].state = list[b].state
    BY <1>0, <2>1, PoolTypes DEF CommandBuffer
  <2> QED
    BY <1>0, <2>1, <2>2, ApartStable
<1>5. ASSUME NEW q \in Queue, NEW cs \in SUBSET List, SubmitTrack(q, cs) PROVE PoolsApart'
  <2>1. /\ list' = [c \in List |-> IF c \in cs THEN [list[c] EXCEPT !.state = "submitted"] ELSE list[c]]
        /\ UNCHANGED <<freePools, listZombies, poolsMade>>
        /\ \A c \in cs : list[c].state = "open"
    BY <1>5 DEF SubmitTrack
  <2>2. \A b \in List : /\ list'[b].queue = list[b].queue /\ list'[b].pool = list[b].pool
                        /\ list'[b].state = list[b].state \/ (list[b].state = "open" /\ list'[b].state = "submitted")
    BY <1>0, <2>1, PoolTypes DEF CommandBuffer
  <2> QED
    BY <1>0, <2>1, <2>2, ApartStable
<1>6. ASSUME NEW q \in Queue, NEW c \in List, SubmitRetire(q, c) PROVE PoolsApart'
  <2>1. /\ list[c].state = "submitted" /\ list[c].queue = q /\ list[c].pool # NoPool
        /\ list' = [list EXCEPT ![c] = Closed] /\ UNCHANGED <<freePools, poolsMade>>
    BY <1>0, <1>6 DEF SubmitRetire, LockInv, PoolsApart
  <2>2. PICK e \in ListZombie : /\ e.queue = q /\ e.pool = list[c].pool
                                /\ listZombies' = Append(listZombies, e)
    <3>1. [queue |-> q, value |-> submit[q].value, pool |-> list[c].pool] \in ListZombie
      BY <1>0 DEF ListZombie, SubmitCall, CommandBuffer, TypeOK
    <3> QED
      BY <1>6, <3>1 DEF SubmitRetire
  <2>3. /\ list'[c].pool = NoPool /\ list'[c].state = "closed" /\ list'[c].queue \in Queue
        /\ \A b \in List : b # c => list'[b] = list[b]
    BY <1>0, <2>1, PoolTypes, ClosedType DEF Closed, CommandBuffer
  <2> DEFINE n == Len(listZombies)
  <2>4. /\ Len(listZombies') = n + 1 /\ listZombies'[n + 1] = e
        /\ \A i \in 1 .. n : listZombies'[i] = listZombies[i]
        /\ \A i \in 1 .. n + 1 : i \in 1 .. n \/ i = n + 1
    BY <1>0, <2>2, PoolTypes, AppendProperties
  <2> HIDE DEF n
  <2>5. /\ \A i \in 1 .. n : listZombies[i].queue = q => listZombies[i].pool # e.pool
        /\ \A b \in List : b # c /\ list[b].queue = q => list[b].pool # e.pool
        /\ \A i \in 1 .. Len(freePools[q]) : freePools[q][i] # e.pool
        /\ e.pool \in 1 .. poolsMade[q]
    <3>1. \A i \in 1 .. Len(freePools[q]) : freePools[q][i] # e.pool
      BY <2>1, <2>2 DEF PoolsApart
    <3>2. e.pool \in 1 .. poolsMade[q]
      BY <1>0, <2>1, <2>2, PoolTypes DEF PoolsApart, NoPool
    <3> QED
      BY <2>1, <2>2, <3>1, <3>2 DEF PoolsApart, n
  <2>6. \A i, j \in 1 .. n + 1 :
          listZombies'[i].queue = listZombies'[j].queue /\ listZombies'[i].pool = listZombies'[j].pool => i = j
    BY <2>2, <2>4, <2>5 DEF PoolsApart, n
  <2>7. \A b, d \in List :
          list'[b].queue = list'[d].queue /\ list'[b].pool = list'[d].pool /\ list'[b].pool # NoPool => b = d
    BY <2>3 DEF PoolsApart
  <2>8. \A o \in Queue : \A i \in 1 .. Len(freePools[o]) :
          /\ \A b \in List : list'[b].queue = o => list'[b].pool # freePools[o][i]
          /\ \A j \in 1 .. n + 1 : listZombies'[j].queue = o => listZombies'[j].pool # freePools[o][i]
    <3>1. \A o \in Queue : \A i \in 1 .. Len(freePools[o]) : freePools[o][i] # NoPool
      BY <1>0, PoolTypes DEF PoolsApart, NoPool
    <3> TAKE o \in Queue
    <3> TAKE i \in 1 .. Len(freePools[o])
    <3>2. /\ \A b \in List : list[b].queue = o => list[b].pool # freePools[o][i]
          /\ \A j \in 1 .. n : listZombies[j].queue = o => listZombies[j].pool # freePools[o][i]
      BY DEF PoolsApart, n
    <3>3. o = q => freePools[o][i] # e.pool
      BY <2>5
    <3> QED
      BY <2>2, <2>3, <2>4, <3>1, <3>2, <3>3
  <2>9. \A i \in 1 .. n + 1 :
          /\ listZombies'[i].pool \in 1 .. poolsMade[listZombies'[i].queue]
          /\ listZombies'[i].pool # NoPool
    <3>1. \A i \in 1 .. n : listZombies[i].pool \in 1 .. poolsMade[listZombies[i].queue] /\ listZombies[i].pool # NoPool
      BY <1>0, PoolTypes DEF PoolsApart, NoPool, n
    <3> QED
      BY <2>1, <2>2, <2>4, <2>5, <3>1
  <2>10. \A i \in 1 .. n + 1 :
           \A b \in List : list'[b].queue = listZombies'[i].queue => list'[b].pool # listZombies'[i].pool
    <3> TAKE i \in 1 .. n + 1
    <3> TAKE b \in List
    <3>1. CASE b = c
      BY <2>3, <2>9, <3>1
    <3>2. CASE b # c
      BY <2>2, <2>3, <2>4, <2>5, <3>2 DEF PoolsApart, n
    <3> QED
      BY <3>1, <3>2
  <2>11. \A b \in List :
           /\ list'[b].pool \in 0 .. poolsMade[list'[b].queue]
           /\ list'[b].pool = NoPool <=> list'[b].state \in {"closed", "counted"}
    <3> TAKE b \in List
    <3>1. CASE b = c
      BY <1>0, <2>3, <3>1, PoolTypes DEF NoPool
    <3>2. CASE b # c
      BY <2>3, <3>2 DEF PoolsApart
    <3> QED
      BY <3>1, <3>2
  <2> QED
    BY <2>1, <2>4, <2>6, <2>7, <2>8, <2>9, <2>10, <2>11 DEF PoolsApart
<1>7. ASSUME GcList PROVE PoolsApart'
  <2>1. PICK k \in 1 .. Len(listZombies) : k = gcAt
    BY <1>0, <1>7, PoolTypes DEF GcList, TypeOK
  <2>2. PICK e \in ListZombie : e = listZombies[k] /\ e.queue \in Queue /\ e.pool \in Nat
    BY <1>0, <2>1, PoolTypes
  <2>3. UNCHANGED <<list, poolsMade>>
    BY <1>7 DEF GcList
  <2>4. CASE /\ freePools' = [freePools EXCEPT ![e.queue] = Append(@, e.pool)]
             /\ listZombies' = RemoveAt(listZombies, k)
    <3> DEFINE at(j) == IF j < k THEN j ELSE j + 1
    <3>1. /\ Len(listZombies') = Len(listZombies) - 1
          /\ \A j \in 1 .. Len(listZombies) - 1 : listZombies'[j] = listZombies[at(j)]
      BY <1>0, <2>1, <2>4, PoolTypes, RemoveAtProperties
    <3>2. /\ \A j \in 1 .. Len(listZombies') :
               /\ at(j) \in 1 .. Len(listZombies) /\ at(j) # k
               /\ listZombies'[j] = listZombies[at(j)]
          /\ \A i, j \in 1 .. Len(listZombies') : at(i) = at(j) => i = j
      BY <1>0, <3>1, PoolTypes
    <3> HIDE DEF at
    <3> DEFINE n == Len(freePools[e.queue])
    <3>3. /\ Len(freePools'[e.queue]) = n + 1 /\ freePools'[e.queue][n + 1] = e.pool
          /\ \A i \in 1 .. n : freePools'[e.queue][i] = freePools[e.queue][i]
          /\ \A o \in Queue : o # e.queue => freePools'[o] = freePools[o]
          /\ \A i \in 1 .. n + 1 : i \in 1 .. n \/ i = n + 1
      <4>1. /\ freePools'[e.queue] = Append(freePools[e.queue], e.pool)
            /\ \A o \in Queue : o # e.queue => freePools'[o] = freePools[o]
        BY <1>0, <2>2, <2>4, PoolTypes
      <4>2. freePools[e.queue] \in Seq(Nat) /\ n \in Nat
        BY <1>0, <2>2, PoolTypes
      <4>3. \A i \in 1 .. n + 1 : i \in 1 .. n \/ i = n + 1
        BY <4>2
      <4> HIDE DEF n
      <4> QED
        BY <2>2, <4>1, <4>2, <4>3, AppendProperties DEF n
    <3> HIDE DEF n
    <3>4. /\ \A i \in 1 .. n : freePools[e.queue][i] # e.pool
          /\ \A j \in 1 .. Len(listZombies') : listZombies'[j].queue = e.queue => listZombies'[j].pool # e.pool
          /\ \A c \in List : list[c].queue = e.queue => list[c].pool # e.pool
          /\ e.pool \in 1 .. poolsMade[e.queue]
      <4>1. \A j \in 1 .. Len(listZombies') : listZombies'[j].queue = e.queue => listZombies'[j].pool # e.pool
        BY <2>2, <3>2 DEF PoolsApart
      <4> QED
        BY <2>2, <4>1 DEF PoolsApart, n
    <3>5. \A i, j \in 1 .. Len(listZombies') :
            listZombies'[i].queue = listZombies'[j].queue /\ listZombies'[i].pool = listZombies'[j].pool => i = j
      BY <3>2 DEF PoolsApart
    <3>6. \A i \in 1 .. Len(listZombies') :
            /\ listZombies'[i].pool \in 1 .. poolsMade[listZombies'[i].queue]
            /\ \A c \in List : list[c].queue = listZombies'[i].queue => list[c].pool # listZombies'[i].pool
      BY <3>2 DEF PoolsApart
    <3>7. ASSUME NEW o \in Queue, NEW i \in 1 .. Len(freePools'[o])
          PROVE  /\ freePools'[o][i] \in 1 .. poolsMade[o]
                 /\ \A c \in List : list[c].queue = o => list[c].pool # freePools'[o][i]
                 /\ \A j \in 1 .. Len(listZombies') : listZombies'[j].queue = o => listZombies'[j].pool # freePools'[o][i]
                 /\ \A j \in 1 .. Len(freePools'[o]) : freePools'[o][i] = freePools'[o][j] => i = j
      <4>1. ASSUME NEW l \in 1 .. Len(freePools[o]), freePools'[o][i] = freePools[o][l]
            PROVE  /\ freePools'[o][i] \in 1 .. poolsMade[o]
                   /\ \A c \in List : list[c].queue = o => list[c].pool # freePools'[o][i]
                   /\ \A j \in 1 .. Len(listZombies') : listZombies'[j].queue = o => listZombies'[j].pool # freePools'[o][i]
                   /\ \A j \in 1 .. Len(freePools[o]) : freePools[o][l] = freePools[o][j] => l = j
        <5>1. /\ freePools[o][l] \in 1 .. poolsMade[o]
              /\ \A c \in List : list[c].queue = o => list[c].pool # freePools[o][l]
              /\ \A j \in 1 .. Len(listZombies) : listZombies[j].queue = o => listZombies[j].pool # freePools[o][l]
              /\ \A j \in 1 .. Len(freePools[o]) : freePools[o][l] = freePools[o][j] => l = j
          BY DEF PoolsApart
        <5> QED
          BY <3>2, <4>1, <5>1
      <4>2. CASE o # e.queue
        BY <3>3, <4>1, <4>2
      <4>3. CASE o = e.queue /\ i \in 1 .. n
        BY ZenonT(60), <3>3, <3>4, <4>1, <4>3 DEF n
      <4>4. CASE o = e.queue /\ i = n + 1
        BY <2>2, <3>3, <3>4, <4>4
      <4> QED
        BY <3>3, <4>2, <4>3, <4>4
    <3> QED
      BY <2>3, <3>5, <3>6, <3>7 DEF PoolsApart
  <2>5. CASE UNCHANGED <<freePools, listZombies>>
    BY <1>1, <2>3, <2>5
  <2> QED
    BY <1>7, <2>1, <2>2, <2>4, <2>5 DEF GcList
<1>8. ASSUME NEW q \in Queue, SubmitHand(q) \/ GpuComplete(q) PROVE PoolsApart'
  BY <1>1, <1>8 DEF SubmitHand, GpuComplete
<1>9. ASSUME NEW r \in Resource, TryEnqueueDestroyDeferred(r) \/ DestroyImmediately(r) PROVE PoolsApart'
  BY <1>1, <1>9 DEF TryEnqueueDestroyDeferred, DestroyImmediately
<1>10. ASSUME GcBegin \/ GcListsDone \/ GcSubmit \/ GcSubmitsDone \/ GcZombie \/ GcZombiesDone \/ GcDrain \/ GcEnd
       PROVE  PoolsApart'
  BY <1>1, <1>10 DEF GcBegin, GcListsDone, GcSubmit, GcSubmitsDone, GcZombie, GcZombiesDone, GcDrain, GcEnd
<1>11. ASSUME DtorWaitIdle \/ DtorEnd \/ UNCHANGED vars PROVE PoolsApart'
  BY <1>1, <1>11 DEF DtorWaitIdle, DtorEnd, vars
<1> QED
  BY <1>2, <1>3, <1>4, <1>5, <1>6, <1>7, <1>8, <1>9, <1>10, <1>11 DEF Next, GcStep, Terminated

(* Where the pools of unfinished submissions are does not change unless a  *)
(* list zombie goes, or a list that is being submitted.                    *)
LEMMA InFlightStable ==
  ASSUME PoolsInFlight, inFlight' \subseteq inFlight, UNCHANGED submit,
         \A i \in 1 .. Len(listZombies) : \E j \in 1 .. Len(listZombies') : listZombies'[j] = listZombies[i],
         \A q \in Queue : \A c \in submit[q].lists : list'[c].pool = list[c].pool,
         \A w \in inFlight : w.queue \in Queue
  PROVE  PoolsInFlight'
<1> SUFFICES ASSUME NEW w \in inFlight, NEW p \in w.pools
             PROVE  \/ \E i \in 1 .. Len(listZombies') :
                         listZombies'[i] = [queue |-> w.queue, value |-> w.value, pool |-> p]
                    \/ /\ submit[w.queue].stage = "handed" /\ submit[w.queue].value = w.value
                       /\ \E c \in submit[w.queue].lists : list'[c].pool = p
  BY DEF PoolsInFlight
<1>1. CASE \E i \in 1 .. Len(listZombies) : listZombies[i] = [queue |-> w.queue, value |-> w.value, pool |-> p]
  BY <1>1
<1>2. CASE /\ submit[w.queue].stage = "handed" /\ submit[w.queue].value = w.value
           /\ \E c \in submit[w.queue].lists : list[c].pool = p
  BY <1>2
<1> QED
  BY <1>1, <1>2 DEF PoolsInFlight

(* A pool the GPU reads from stays with a list zombie, or with a list on   *)
(* its way to become one, until the submission is complete.                *)
LEMMA InFlightStep == IInv /\ PoolsInFlight /\ [Next]_vars => PoolsInFlight'
<1> SUFFICES ASSUME IInv, PoolsInFlight, [Next]_vars PROVE PoolsInFlight'
  OBVIOUS
<1> USE DEF submitVars, listVars, lifeVars, gcVars, dtorVars
<1>0. /\ TypeOK /\ LockInv /\ TimelineInv
      /\ submit \in [Queue -> SubmitCall]
      /\ \A w \in inFlight : w.queue \in Queue
      /\ \A q \in Queue : \A c \in submit[q].lists : c \in List /\ list[c].state = "submitted" /\ list[c].queue = q
      /\ \A i \in 1 .. Len(listZombies) : \E j \in 1 .. Len(listZombies) : listZombies[j] = listZombies[i]
  BY DEF IInv, TypeOK, Submission, LockInv, SubmitCall
<1>1. CASE UNCHANGED <<list, listZombies, submit>> /\ inFlight' \subseteq inFlight
  BY <1>0, <1>1, InFlightStable
<1>2. ASSUME NEW c \in List, NEW q \in Queue, CountOpen(c, q) PROVE PoolsInFlight'
  <2>1. /\ list' = [list EXCEPT ![c] = [Closed EXCEPT !.state = "counted", !.queue = q]]
        /\ list[c].state = "closed" /\ UNCHANGED <<inFlight, submit, listZombies>>
    BY <1>2 DEF CountOpen
  <2>2. \A o \in Queue : \A d \in submit[o].lists : list'[d].pool = list[d].pool
    BY <1>0, <2>1, PoolTypes
  <2> QED
    BY <1>0, <2>1, <2>2, InFlightStable
<1>3. ASSUME NEW c \in List, TakePool(c) PROVE PoolsInFlight'
  <2>1. PICK p : list' = [list EXCEPT ![c] = [@ EXCEPT !.state = "open", !.pool = p]]
    BY <1>3 DEF TakePool
  <2>2. list[c].state = "counted" /\ UNCHANGED <<inFlight, submit, listZombies>>
    BY <1>3 DEF TakePool
  <2>3. \A o \in Queue : \A d \in submit[o].lists : list'[d].pool = list[d].pool
    BY <1>0, <2>1, <2>2, PoolTypes
  <2> QED
    BY <1>0, <2>2, <2>3, InFlightStable
<1>4. ASSUME NEW c \in List, NEW r \in Resource, Record(c, r) PROVE PoolsInFlight'
  <2>1. /\ list' = [list EXCEPT ![c].uses = @ \cup {r}] /\ UNCHANGED <<inFlight, submit, listZombies>>
    BY <1>4 DEF Record
  <2>2. \A d \in List : list'[d].pool = list[d].pool
    BY <1>0, <2>1, PoolTypes DEF CommandBuffer
  <2> QED
    BY <1>0, <2>1, <2>2, InFlightStable
<1>5. ASSUME NEW q \in Queue, NEW cs \in SUBSET List, SubmitTrack(q, cs) PROVE PoolsInFlight'
  <2>1. /\ submit[q].stage = "none" /\ UNCHANGED <<inFlight, listZombies>>
        /\ submit' = [submit EXCEPT ![q] = [stage |-> "tracked", value |-> cpuTimeline[q] + 1, lists |-> cs]]
        /\ list' = [c \in List |-> IF c \in cs THEN [list[c] EXCEPT !.state = "submitted"] ELSE list[c]]
    BY <1>5 DEF SubmitTrack
  <2>2. \A c \in List : list'[c].pool = list[c].pool
    BY <1>0, <2>1, PoolTypes DEF CommandBuffer
  <2>3. \A o \in Queue : o # q => submit'[o] = submit[o]
    BY <1>0, <2>1
  <2>4. ASSUME NEW w \in inFlight, NEW p \in w.pools
        PROVE  \/ \E i \in 1 .. Len(listZombies) :
                    listZombies[i] = [queue |-> w.queue, value |-> w.value, pool |-> p]
               \/ /\ submit'[w.queue].stage = "handed" /\ submit'[w.queue].value = w.value
                  /\ \E c \in submit'[w.queue].lists : list'[c].pool = p
    <3>1. CASE w.queue = q
      BY <2>1, <3>1 DEF PoolsInFlight
    <3>2. CASE w.queue # q
      BY <1>0, <2>2, <2>3, <3>2 DEF PoolsInFlight
    <3> QED
      BY <3>1, <3>2
  <2>5. UNCHANGED <<inFlight, listZombies>>
    BY <2>1
  <2> QED
    BY <2>4, <2>5 DEF PoolsInFlight
<1>6. ASSUME NEW q \in Queue, SubmitHand(q) PROVE PoolsInFlight'
  <2>1. /\ submit[q].stage = "tracked" /\ inFlight' = inFlight \cup {WorkOf(q)}
        /\ submit' = [submit EXCEPT ![q] = IF @.lists = {} THEN NoSubmit ELSE [@ EXCEPT !.stage = "handed"]]
        /\ UNCHANGED <<list, listZombies>>
    BY <1>6 DEF SubmitHand
  <2>2. /\ \A o \in Queue : o # q => submit'[o] = submit[o]
        /\ submit[q].lists # {} =>
             /\ submit'[q].stage = "handed" /\ submit'[q].value = submit[q].value
             /\ submit'[q].lists = submit[q].lists
    BY <1>0, <2>1 DEF SubmitCall
  <2>3. ASSUME NEW w \in inFlight', NEW p \in w.pools
        PROVE  \/ \E i \in 1 .. Len(listZombies) :
                    listZombies[i] = [queue |-> w.queue, value |-> w.value, pool |-> p]
               \/ /\ submit'[w.queue].stage = "handed" /\ submit'[w.queue].value = w.value
                  /\ \E c \in submit'[w.queue].lists : list[c].pool = p
    <3>1. CASE w \in inFlight /\ w.queue = q
      BY <2>1, <3>1 DEF PoolsInFlight
    <3>2. CASE w \in inFlight /\ w.queue # q
      BY <1>0, <2>2, <3>2 DEF PoolsInFlight
    <3>3. CASE w = WorkOf(q)
      <4>1. w.queue = q /\ w.value = submit[q].value /\ w.pools = {list[c].pool : c \in submit[q].lists}
        BY <3>3 DEF WorkOf
      <4>2. PICK c \in submit[q].lists : list[c].pool = p
        BY <4>1
      <4> QED
        BY <2>2, <4>1, <4>2
    <3> QED
      BY <2>1, <3>1, <3>2, <3>3
  <2> QED
    BY <2>1, <2>3 DEF PoolsInFlight
<1>7. ASSUME NEW q \in Queue, NEW c \in List, SubmitRetire(q, c) PROVE PoolsInFlight'
  <2>1. PICK e \in ListZombie : /\ e = [queue |-> q, value |-> submit[q].value, pool |-> list[c].pool]
                                /\ listZombies' = Append(listZombies, e)
    <3>1. [queue |-> q, value |-> submit[q].value, pool |-> list[c].pool] \in ListZombie
      BY <1>0 DEF ListZombie, SubmitCall, CommandBuffer, TypeOK
    <3> QED
      BY <1>7, <3>1 DEF SubmitRetire
  <2>2. /\ submit[q].stage = "handed" /\ c \in submit[q].lists
        /\ submit' = [submit EXCEPT ![q] = IF submit[q].lists \ {c} = {} THEN NoSubmit
                                           ELSE [@ EXCEPT !.lists = submit[q].lists \ {c}]]
        /\ list' = [list EXCEPT ![c] = Closed] /\ inFlight' = inFlight
    BY <1>7 DEF SubmitRetire
  <2>3. /\ \A o \in Queue : o # q => submit'[o] = submit[o]
        /\ submit[q].lists \ {c} # {} =>
             /\ submit'[q].stage = "handed" /\ submit'[q].value = submit[q].value
             /\ submit'[q].lists = submit[q].lists \ {c}
        /\ \A d \in List : d # c => list'[d] = list[d]
    BY <1>0, <2>2, PoolTypes DEF SubmitCall
  <2> DEFINE n == Len(listZombies)
  <2>4. /\ Len(listZombies') = n + 1 /\ listZombies'[n + 1] = e
        /\ \A i \in 1 .. n : listZombies'[i] = listZombies[i] /\ i \in 1 .. n + 1
        /\ n + 1 \in 1 .. n + 1
    BY <1>0, <2>1, PoolTypes, AppendProperties
  <2> HIDE DEF n
  <2>5. ASSUME NEW w \in inFlight, NEW p \in w.pools
        PROVE  \/ \E i \in 1 .. n + 1 :
                    listZombies'[i] = [queue |-> w.queue, value |-> w.value, pool |-> p]
               \/ /\ submit'[w.queue].stage = "handed" /\ submit'[w.queue].value = w.value
                  /\ \E d \in submit'[w.queue].lists : list'[d].pool = p
    <3>1. CASE \E i \in 1 .. n : listZombies[i] = [queue |-> w.queue, value |-> w.value, pool |-> p]
      BY <2>4, <3>1
    <3>2. ASSUME submit[w.queue].stage = "handed", submit[w.queue].value = w.value,
                 NEW d \in submit[w.queue].lists, list[d].pool = p
          PROVE  \/ \E i \in 1 .. n + 1 :
                      listZombies'[i] = [queue |-> w.queue, value |-> w.value, pool |-> p]
                 \/ /\ submit'[w.queue].stage = "handed" /\ submit'[w.queue].value = w.value
                    /\ \E b \in submit'[w.queue].lists : list'[b].pool = p
      <4>0. w.queue \in Queue /\ d \in List /\ list[d].queue = w.queue /\ list[c].queue = q
        BY <1>0, <2>2, <3>2
      <4>1. CASE d = c
        <5>1. w.queue = q /\ e = [queue |-> w.queue, value |-> w.value, pool |-> p]
          BY <2>1, <3>2, <4>0, <4>1
        <5> QED
          BY <2>4, <5>1
      <4>2. CASE d # c
        BY <2>3, <3>2, <4>0, <4>2
      <4> QED
        BY <4>1, <4>2
    <3> QED
      BY <3>1, <3>2 DEF PoolsInFlight, n
  <2> QED
    BY <2>2, <2>4, <2>5 DEF PoolsInFlight
<1>8. ASSUME GcList PROVE PoolsInFlight'
  <2>1. PICK k \in 1 .. Len(listZombies) : k = gcAt
    BY <1>0, <1>8, PoolTypes DEF GcList, TypeOK
  <2>2. UNCHANGED <<inFlight, submit, list>> /\ \A q \in Queue : submit[q].stage = "none"
    BY <1>0, <1>8 DEF GcList, LockInv
  <2>3. CASE Completed(listZombies[k]) /\ listZombies' = RemoveAt(listZombies, k)
    <3>1. \A i \in 1 .. Len(listZombies) : i # k =>
            \E j \in 1 .. Len(listZombies') : listZombies'[j] = listZombies[i]
      <4>1. listZombies \in Seq(ListZombie)
        BY <1>0, PoolTypes
      <4>2. \A i \in 1 .. Len(listZombies) : i # k =>
              \E j \in 1 .. Len(RemoveAt(listZombies, k)) : RemoveAt(listZombies, k)[j] = listZombies[i]
        BY <4>1, RemoveAtElements
      <4> QED
        BY <2>3, <4>2
    <3>2. ASSUME NEW w \in inFlight, NEW p \in w.pools
          PROVE  \E j \in 1 .. Len(listZombies') : listZombies'[j] = [queue |-> w.queue, value |-> w.value, pool |-> p]
      <4>1. PICK i \in 1 .. Len(listZombies) : listZombies[i] = [queue |-> w.queue, value |-> w.value, pool |-> p]
        BY <1>0, <2>2, <3>2 DEF PoolsInFlight
      <4>2. w.value \in Nat /\ gpuTimeline[w.queue] \in Nat /\ gpuTimeline[w.queue] < w.value
        BY <1>0, BoundAssumption DEF TypeOK, Submission, Timeline, TimelineInv
      <4>3. i # k
        BY <2>3, <4>1, <4>2 DEF Completed
      <4> QED
        BY <3>1, <4>1, <4>3
    <3> QED
      BY <2>2, <3>2 DEF PoolsInFlight
  <2>4. CASE UNCHANGED listZombies
    BY <1>1, <2>2, <2>4
  <2> QED
    BY <1>8, <2>1, <2>3, <2>4 DEF GcList
<1>9. ASSUME NEW q \in Queue, GpuComplete(q) PROVE PoolsInFlight'
  BY <1>1, <1>9 DEF GpuComplete
<1>10. ASSUME NEW r \in Resource, TryEnqueueDestroyDeferred(r) \/ DestroyImmediately(r) PROVE PoolsInFlight'
  BY <1>1, <1>10 DEF TryEnqueueDestroyDeferred, DestroyImmediately
<1>11. ASSUME GcBegin \/ GcListsDone \/ GcSubmit \/ GcSubmitsDone \/ GcZombie \/ GcZombiesDone \/ GcDrain \/ GcEnd
       PROVE  PoolsInFlight'
  BY <1>1, <1>11 DEF GcBegin, GcListsDone, GcSubmit, GcSubmitsDone, GcZombie, GcZombiesDone, GcDrain, GcEnd
<1>12. ASSUME DtorWaitIdle \/ DtorEnd \/ UNCHANGED vars PROVE PoolsInFlight'
  BY <1>1, <1>12 DEF DtorWaitIdle, DtorEnd, vars
<1> QED
  BY <1>2, <1>3, <1>4, <1>5, <1>6, <1>7, <1>8, <1>9, <1>10, <1>11, <1>12 DEF Next, GcStep, Terminated

(* The entries of a vector of list zombies that are of queue q. *)
Of(s, q) == {i \in DOMAIN s : s[i].queue = q}

(* One more of them after a push of one,                                   *)
LEMMA OfAppend ==
  ASSUME NEW s \in Seq(ListZombie), NEW e \in ListZombie, NEW q
  PROVE  /\ IsFiniteSet(Of(s, q)) /\ Cardinality(Of(s, q)) \in Nat
         /\ Cardinality(Of(Append(s, e), q)) = Cardinality(Of(s, q)) + IF e.queue = q THEN 1 ELSE 0
<1> DEFINE n == Len(s)
           t == Append(s, e)
<1>1. /\ n \in Nat /\ DOMAIN s = 1 .. n /\ DOMAIN t = 1 .. n + 1
      /\ t[n + 1] = e /\ \A i \in 1 .. n : t[i] = s[i]
  BY LenProperties, AppendProperties
<1>2. IsFiniteSet(1 .. n)
  BY <1>1, FS_Interval
<1>3. IsFiniteSet(Of(s, q)) /\ n + 1 \notin Of(s, q)
  BY <1>1, <1>2, FS_Subset DEF Of
<1>4. Cardinality(Of(s, q)) \in Nat
  BY <1>3, FS_CardinalityType
<1> HIDE DEF n, t
<1>5. CASE e.queue = q
  <2>1. Of(t, q) = Of(s, q) \cup {n + 1}
    BY <1>1, <1>5 DEF Of
  <2> QED
    BY <1>3, <1>4, <1>5, <2>1, FS_AddElement DEF t
<1>6. CASE e.queue # q
  <2>1. Of(t, q) = Of(s, q)
    BY <1>1, <1>6 DEF Of
  <2> QED
    BY <1>3, <1>4, <1>6, <2>1 DEF t
<1> QED
  BY <1>3, <1>4, <1>5, <1>6

(* one less after one is erased.                                           *)
LEMMA OfRemoveAt ==
  ASSUME NEW s \in Seq(ListZombie), NEW k \in 1 .. Len(s), NEW q
  PROVE  Cardinality(Of(RemoveAt(s, k), q)) = Cardinality(Of(s, q)) - IF s[k].queue = q THEN 1 ELSE 0
<1> DEFINE n == Len(s)
           t == RemoveAt(s, k)
           at(j) == IF j < k THEN j ELSE j + 1
           f == [j \in Of(t, q) |-> at(j)]
           S == Of(s, q) \ {k}
<1>1. /\ n \in Nat /\ DOMAIN s = 1 .. n /\ k \in Nat /\ k \in 1 .. n
      /\ DOMAIN t = 1 .. n - 1
      /\ \A j \in 1 .. n - 1 : t[j] = s[at(j)]
  <2>1. t \in Seq(ListZombie) /\ Len(t) = n - 1 /\ \A j \in 1 .. n - 1 : t[j] = s[at(j)]
    BY RemoveAtProperties
  <2> QED
    BY <2>1, LenProperties
<1>2. IsFiniteSet(1 .. n)
  BY <1>1, FS_Interval
<1>3. IsFiniteSet(Of(s, q))
  BY <1>1, <1>2, FS_Subset DEF Of
<1> HIDE DEF n, t
<1>4. f \in Bijection(Of(t, q), S)
  <2>1. \A j \in Of(t, q) : j \in 1 .. n - 1 /\ at(j) \in S
    BY <1>1 DEF Of
  <2>2. \A i, j \in Of(t, q) : at(i) = at(j) => i = j
    BY <2>1, <1>1
  <2>3. ASSUME NEW i \in S PROVE \E j \in Of(t, q) : at(j) = i
    <3>0. i \in 1 .. n /\ i # k /\ s[i].queue = q
      BY <1>1 DEF Of
    <3>1. CASE i < k
      <4>1. i \in 1 .. n - 1 /\ at(i) = i
        BY <1>1, <3>0, <3>1
      <4>2. i \in Of(t, q)
        BY <1>1, <3>0, <4>1 DEF Of
      <4> QED
        BY <4>1, <4>2
    <3>2. CASE i > k
      <4>1. i - 1 \in 1 .. n - 1 /\ at(i - 1) = i
        BY <1>1, <3>0, <3>2
      <4>2. i - 1 \in Of(t, q)
        BY <1>1, <3>0, <4>1 DEF Of
      <4> QED
        BY <4>1, <4>2
    <3> QED
      BY <1>1, <3>0, <3>1, <3>2
  <2> HIDE DEF at, S
  <2>4. /\ f \in [Of(t, q) -> S]
        /\ \A i, j \in Of(t, q) : f[i] = f[j] => i = j
        /\ \A i \in S : \E j \in Of(t, q) : f[j] = i
    BY <2>1, <2>2, <2>3
  <2> QED
    BY <2>4 DEF Bijection, Injection, Surjection, IsInjective
<1>5. IsFiniteSet(S) /\ Cardinality(Of(t, q)) = Cardinality(S)
  <2>1. IsFiniteSet(S)
    BY <1>3, FS_Subset
  <2>2. ExistsBijection(Of(t, q), S)
    BY <1>4 DEF ExistsBijection
  <2>3. ExistsBijection(S, Of(t, q))
    BY <2>2, Fun_ExistsBijSymmetric
  <2> QED
    BY <2>1, <2>3, FS_Bijection
<1>6. CASE s[k].queue = q
  <2>1. k \in Of(s, q)
    BY <1>1, <1>6 DEF Of
  <2> QED
    BY <1>3, <1>5, <1>6, <2>1, FS_RemoveElement, FS_CardinalityType DEF t
<1>7. CASE s[k].queue # q
  <2>1. S = Of(s, q)
    BY <1>7 DEF Of
  <2>2. Cardinality(Of(s, q)) \in Nat
    BY <1>3, FS_CardinalityType
  <2>3. Cardinality(Of(t, q)) = Cardinality(Of(s, q))
    BY <1>5, <2>1
  <2> QED
    BY <1>7, <2>2, <2>3 DEF t
<1> QED
  BY <1>6, <1>7

(* The lists of queue q that have a pool. *)
Holding(q) == {c \in OpenCommands(q) : list[c].pool # NoPool}

Counted == (\A q \in Queue : IsFiniteSet(OpenCommands(q))) /\ PoolsConserved

(* What is to be shown of one queue: the numbers of its pools add up. *)
LEMMA CountedByQueue ==
  Counted <=>
    \A q \in Queue :
      /\ IsFiniteSet(OpenCommands(q))
      /\ poolsMade[q] = Len(freePools[q]) + Cardinality(Holding(q)) + Cardinality(Of(listZombies, q))
  BY DEF Counted, PoolsConserved, Holding, Of

(* A step that moves no pool. *)
LEMMA CountedStable ==
  ASSUME Counted, UNCHANGED <<freePools, listZombies, poolsMade>>,
         \A c \in List :
           \/ /\ list'[c].queue = list[c].queue /\ list'[c].pool = list[c].pool
              /\ list'[c].state = "closed" <=> list[c].state = "closed"
  PROVE  Counted'
<1>1. \A q \in Queue : OpenCommands(q)' = OpenCommands(q) /\ Holding(q)' = Holding(q)
  BY DEF OpenCommands, Holding
<1> QED
  BY <1>1 DEF Counted, PoolsConserved, Holding

(* No pool is lost or doubled. *)
LEMMA CountedStep == IInv /\ PoolsApart /\ Counted /\ [Next]_vars => Counted'
<1> SUFFICES ASSUME IInv, PoolsApart, Counted, [Next]_vars PROVE Counted'
  OBVIOUS
<1> USE DEF submitVars, listVars, lifeVars, gcVars, dtorVars
<1>0. /\ TypeOK /\ LockInv
      /\ \A q \in Queue : /\ IsFiniteSet(OpenCommands(q)) /\ IsFiniteSet(Holding(q))
                          /\ Cardinality(Holding(q)) \in Nat
                          /\ Len(freePools[q]) \in Nat /\ poolsMade[q] \in Nat
                          /\ Cardinality(Of(listZombies, q)) \in Nat
  <2>1. TypeOK /\ LockInv /\ \A q \in Queue : IsFiniteSet(OpenCommands(q))
    BY DEF IInv, Counted
  <2>2. \A q \in Queue : IsFiniteSet(Holding(q)) /\ Cardinality(Holding(q)) \in Nat
    BY <2>1, FS_Subset, FS_CardinalityType DEF Holding
  <2>3. ASSUME NEW q \in Queue PROVE Cardinality(Of(listZombies, q)) \in Nat
    <3>1. listZombies \in Seq(ListZombie) /\ DOMAIN listZombies = 1 .. Len(listZombies) /\ Len(listZombies) \in Nat
      BY <2>1, LenProperties DEF TypeOK
    <3>2. IsFiniteSet(Of(listZombies, q))
      <4>1. IsFiniteSet(1 .. Len(listZombies))
        BY <3>1, FS_Interval
      <4>2. Of(listZombies, q) \subseteq 1 .. Len(listZombies)
        BY <3>1 DEF Of
      <4> QED
        BY <4>1, <4>2, FS_Subset
    <3> QED
      BY <3>2, FS_CardinalityType
  <2> QED
    BY <2>1, <2>2, <2>3, PoolTypes
<1>1. CASE UNCHANGED <<list, freePools, listZombies, poolsMade>>
  BY <1>1, CountedStable
<1>2. ASSUME NEW c \in List, NEW q \in Queue, CountOpen(c, q) PROVE Counted'
  <2>1. /\ list[c].state = "closed" /\ UNCHANGED <<freePools, listZombies, poolsMade>>
        /\ list' = [list EXCEPT ![c] = [Closed EXCEPT !.state = "counted", !.queue = q]]
    BY <1>2 DEF CountOpen
  <2>2. /\ list'[c].queue = q /\ list'[c].pool = NoPool /\ list'[c].state = "counted"
        /\ \A b \in List : b # c => list'[b] = list[b]
    BY <1>0, <2>1, PoolTypes DEF Closed
  <2>3. ASSUME NEW o \in Queue PROVE IsFiniteSet(OpenCommands(o))' /\ Holding(o)' = Holding(o)
    <3>1. OpenCommands(o)' \subseteq OpenCommands(o) \cup {c} /\ Holding(o)' = Holding(o)
      BY <2>1, <2>2 DEF OpenCommands, Holding
    <3>2. IsFiniteSet(OpenCommands(o) \cup {c})
      BY <1>0, FS_AddElement
    <3> QED
      BY <3>1, <3>2, FS_Subset
  <2> QED
    BY <2>1, <2>3, CountedByQueue DEF Counted, PoolsConserved, Holding
<1>3. ASSUME NEW c \in List, TakePool(c) PROVE Counted'
  <2> DEFINE q == list[c].queue
  <2>0. /\ q \in Queue /\ list[c].state = "counted" /\ list[c].pool = NoPool /\ UNCHANGED listZombies
    BY <1>0, <1>3, PoolTypes DEF TakePool, PoolsApart
  <2> HIDE DEF q
  <2>1. ASSUME NEW p \in Nat \ {NoPool},
               list' = [list EXCEPT ![c] = [@ EXCEPT !.state = "open", !.pool = p]]
        PROVE  \A o \in Queue :
                 /\ IsFiniteSet(OpenCommands(o))'
                 /\ Cardinality(Holding(o))' = Cardinality(Holding(o)) + IF o = q THEN 1 ELSE 0
    <3>1. /\ list'[c].queue = q /\ list'[c].pool = p /\ list'[c].state = "open"
          /\ \A b \in List : b # c => list'[b] = list[b]
      BY <1>0, <2>1, PoolTypes DEF CommandBuffer, q
    <3>2. \A o \in Queue : OpenCommands(o)' = OpenCommands(o)
      BY <2>0, <3>1 DEF OpenCommands, q
    <3>3. \A o \in Queue : o # q => Holding(o)' = Holding(o)
      BY <2>0, <3>1 DEF OpenCommands, Holding, q
    <3>4. ASSUME NEW o \in Queue
          PROVE  Cardinality(Holding(o)') = Cardinality(Holding(o)) + IF o = q THEN 1 ELSE 0
      <4>1. CASE o = q
        <5>1. Holding(o)' = Holding(o) \cup {c} /\ c \notin Holding(o)
          BY <2>0, <3>1, <4>1 DEF OpenCommands, Holding, q
        <5>2. Cardinality(Holding(o) \cup {c}) = Cardinality(Holding(o)) + 1
          BY <1>0, <5>1, FS_AddElement
        <5> QED
          BY <4>1, <5>1, <5>2
      <4>2. CASE o # q
        <5>1. Cardinality(Holding(o)') = Cardinality(Holding(o)) /\ Cardinality(Holding(o)) \in Nat
          BY <1>0, <3>3, <4>2
        <5> QED
          BY <4>2, <5>1
      <4> QED
        BY <4>1, <4>2
    <3>5. ASSUME NEW o \in Queue PROVE IsFiniteSet(OpenCommands(o))'
      BY <1>0, <3>2
    <3> QED
      BY <3>4, <3>5
  <2>2. CASE /\ poolsMade' = [poolsMade EXCEPT ![q] = @ + 1]
             /\ list' = [list EXCEPT ![c] = [@ EXCEPT !.state = "open", !.pool = poolsMade[q] + 1]]
             /\ UNCHANGED freePools
    <3>1. PICK p \in Nat \ {NoPool} : p = poolsMade[q] + 1
      BY <1>0, <2>0 DEF NoPool
    <3>2. poolsMade'[q] = poolsMade[q] + 1 /\ \A o \in Queue : o # q => poolsMade'[o] = poolsMade[o]
      BY <1>0, <2>0, <2>2, PoolTypes
    <3>3. \A o \in Queue :
            /\ IsFiniteSet(OpenCommands(o))'
            /\ Cardinality(Holding(o))' = Cardinality(Holding(o)) + IF o = q THEN 1 ELSE 0
      BY <2>1, <2>2, <3>1
    <3>4. ASSUME NEW o \in Queue
          PROVE  poolsMade'[o] = Len(freePools[o]) + Cardinality(Holding(o))' + Cardinality(Of(listZombies, o))
      <4>1. poolsMade[o] = Len(freePools[o]) + Cardinality(Holding(o)) + Cardinality(Of(listZombies, o))
        BY CountedByQueue
      <4> QED
        BY <1>0, <3>2, <3>3, <4>1
    <3> QED
      BY ZenonT(60), <2>0, <2>2, <3>3, <3>4 DEF Counted, PoolsConserved, Holding, Of
  <2>3. CASE /\ freePools[q] # <<>>
             /\ freePools' = [freePools EXCEPT ![q] = Front(@)]
             /\ list' = [list EXCEPT ![c] = [@ EXCEPT !.state = "open", !.pool = Last(freePools[q])]]
             /\ UNCHANGED poolsMade
    <3>1. PICK p \in Nat \ {NoPool} : p = Last(freePools[q])
      <4>1. /\ Last(freePools[q]) = freePools[q][Len(freePools[q])]
            /\ Len(freePools[q]) \in 1 .. Len(freePools[q])
        BY <1>0, <2>0, <2>3, PoolTypes, FrontLastElements
      <4>2. freePools[q][Len(freePools[q])] \in 1 .. poolsMade[q]
        BY <2>0, <4>1 DEF PoolsApart
      <4> QED
        BY <1>0, <2>0, <4>1, <4>2 DEF NoPool
    <3>2. /\ Len(freePools'[q]) = Len(freePools[q]) - 1
          /\ \A o \in Queue : o # q => freePools'[o] = freePools[o]
      <4>1. freePools'[q] = Front(freePools[q]) /\ \A o \in Queue : o # q => freePools'[o] = freePools[o]
        BY <1>0, <2>0, <2>3, PoolTypes
      <4> QED
        BY <1>0, <2>0, <2>3, <4>1, PoolTypes, FrontLastElements
    <3>3. \A o \in Queue :
            /\ IsFiniteSet(OpenCommands(o))'
            /\ Cardinality(Holding(o))' = Cardinality(Holding(o)) + IF o = q THEN 1 ELSE 0
      BY <2>1, <2>3, <3>1
    <3>4. ASSUME NEW o \in Queue
          PROVE  poolsMade[o] = Len(freePools'[o]) + Cardinality(Holding(o))' + Cardinality(Of(listZombies, o))
      <4>1. poolsMade[o] = Len(freePools[o]) + Cardinality(Holding(o)) + Cardinality(Of(listZombies, o))
        BY CountedByQueue
      <4>2. CASE o = q
        BY SMTT(30), <1>0, <3>2, <3>3, <4>1, <4>2
      <4>3. CASE o # q
        BY <1>0, <3>2, <3>3, <4>1, <4>3
      <4> QED
        BY <4>2, <4>3
    <3> QED
      BY ZenonT(60), <2>0, <2>3, <3>3, <3>4 DEF Counted, PoolsConserved, Holding, Of
  <2> QED
    BY <1>3, <2>2, <2>3 DEF TakePool, q
<1>4. ASSUME NEW c \in List, NEW r \in Resource, Record(c, r) PROVE Counted'
  <2>1. /\ list' = [list EXCEPT ![c].uses = @ \cup {r}] /\ UNCHANGED <<freePools, listZombies, poolsMade>>
    BY <1>4 DEF Record
  <2>2. \A b \in List : /\ list'[b].queue = list[b].queue /\ list'[b].pool = list[b].pool
                        /\ list'[b].state = list[b].state
    BY <1>0, <2>1, PoolTypes DEF CommandBuffer
  <2> QED
    BY <2>1, <2>2, CountedStable
<1>5. ASSUME NEW q \in Queue, NEW cs \in SUBSET List, SubmitTrack(q, cs) PROVE Counted'
  <2>1. /\ list' = [c \in List |-> IF c \in cs THEN [list[c] EXCEPT !.state = "submitted"] ELSE list[c]]
        /\ UNCHANGED <<freePools, listZombies, poolsMade>> /\ \A c \in cs : list[c].state = "open"
    BY <1>5 DEF SubmitTrack
  <2>2. \A b \in List : /\ list'[b].queue = list[b].queue /\ list'[b].pool = list[b].pool
                        /\ list'[b].state = list[b].state \/ (list[b].state = "open" /\ list'[b].state = "submitted")
    BY <1>0, <2>1, PoolTypes DEF CommandBuffer
  <2> QED
    BY <2>1, <2>2, CountedStable
<1>6. ASSUME NEW q \in Queue, NEW c \in List, SubmitRetire(q, c) PROVE Counted'
  <2>1. /\ list[c].state = "submitted" /\ list[c].queue = q /\ list[c].pool # NoPool
        /\ list' = [list EXCEPT ![c] = Closed] /\ UNCHANGED <<freePools, poolsMade>>
    BY <1>0, <1>6 DEF SubmitRetire, LockInv, PoolsApart
  <2>2. PICK e \in ListZombie : e.queue = q /\ listZombies' = Append(listZombies, e)
    <3>1. [queue |-> q, value |-> submit[q].value, pool |-> list[c].pool] \in ListZombie
      BY <1>0 DEF ListZombie, SubmitCall, CommandBuffer, TypeOK
    <3> QED
      BY <1>6, <3>1 DEF SubmitRetire
  <2>3. list'[c].state = "closed" /\ \A b \in List : b # c => list'[b] = list[b]
    BY <1>0, <2>1, PoolTypes, ClosedType
  <2>4. ASSUME NEW o \in Queue
        PROVE  /\ IsFiniteSet(OpenCommands(o))'
               /\ poolsMade[o] = Len(freePools[o]) + Cardinality(Holding(o))' + Cardinality(Of(listZombies', o))
    <3>1. OpenCommands(o)' \subseteq OpenCommands(o)
      BY <2>3 DEF OpenCommands
    <3>2. IsFiniteSet(OpenCommands(o))'
      BY <1>0, <3>1, FS_Subset
    <3>3. poolsMade[o] = Len(freePools[o]) + Cardinality(Holding(o)) + Cardinality(Of(listZombies, o))
      BY CountedByQueue
    <3>4. Cardinality(Of(listZombies', o)) = Cardinality(Of(listZombies, o)) + IF q = o THEN 1 ELSE 0
      BY <1>0, <2>2, OfAppend DEF TypeOK
    <3>5. CASE o = q
      <4>1. Holding(o)' = Holding(o) \ {c} /\ c \in Holding(o)
        BY <2>1, <2>3, <3>5 DEF OpenCommands, Holding
      <4>2. Cardinality(Holding(o) \ {c}) = Cardinality(Holding(o)) - 1
        BY <1>0, <4>1, FS_RemoveElement
      <4> QED
        BY <1>0, <3>2, <3>3, <3>4, <3>5, <4>1, <4>2
    <3>6. CASE o # q
      <4>1. Holding(o)' = Holding(o)
        BY <2>1, <2>3, <3>6 DEF OpenCommands, Holding
      <4> QED
        BY <1>0, <3>2, <3>3, <3>4, <3>6, <4>1
    <3> QED
      BY <3>5, <3>6
  <2> QED
    BY <2>1, <2>4 DEF Counted, PoolsConserved, Holding, Of
<1>7. ASSUME GcList PROVE Counted'
  <2>1. PICK k \in 1 .. Len(listZombies) : k = gcAt
    BY <1>0, <1>7, PoolTypes DEF GcList, TypeOK
  <2>2. PICK e \in ListZombie : e = listZombies[k] /\ e.queue \in Queue /\ e.pool \in Nat
    BY <1>0, <2>1, PoolTypes
  <2>3. UNCHANGED <<list, poolsMade>>
    BY <1>7 DEF GcList
  <2>4. CASE /\ freePools' = [freePools EXCEPT ![e.queue] = Append(@, e.pool)]
             /\ listZombies' = RemoveAt(listZombies, k)
    <3>1. /\ freePools'[e.queue] = Append(freePools[e.queue], e.pool)
          /\ \A o \in Queue : o # e.queue => freePools'[o] = freePools[o]
      BY <1>0, <2>2, <2>4, PoolTypes
    <3>2. Len(Append(freePools[e.queue], e.pool)) = Len(freePools[e.queue]) + 1
      BY <1>0, <2>2, PoolTypes, AppendProperties
    <3>3. ASSUME NEW o \in Queue
          PROVE  poolsMade[o] = Len(freePools'[o]) + Cardinality(Holding(o)) + Cardinality(Of(listZombies', o))
      <4>1. Cardinality(Of(RemoveAt(listZombies, k), o)) = Cardinality(Of(listZombies, o)) - IF listZombies[k].queue = o THEN 1 ELSE 0
        <5>1. listZombies \in Seq(ListZombie)
          BY <1>0 DEF TypeOK
        <5> QED
          BY <2>1, <5>1, OfRemoveAt
      <4>2. poolsMade[o] = Len(freePools[o]) + Cardinality(Holding(o)) + Cardinality(Of(listZombies, o))
        BY CountedByQueue
      <4> QED
        BY <1>0, <2>2, <2>4, <3>1, <3>2, <4>1, <4>2
    <3>4. \A o \in Queue : OpenCommands(o)' = OpenCommands(o) /\ Holding(o)' = Holding(o)
      BY <2>3 DEF OpenCommands, Holding
    <3> QED
      BY <1>0, <2>3, <3>3, <3>4 DEF Counted, PoolsConserved, Holding, Of
  <2>5. CASE UNCHANGED <<freePools, listZombies>>
    BY <1>1, <2>3, <2>5
  <2> QED
    BY <1>7, <2>1, <2>2, <2>4, <2>5 DEF GcList
<1>8. ASSUME NEW q \in Queue, SubmitHand(q) \/ GpuComplete(q) PROVE Counted'
  BY <1>1, <1>8 DEF SubmitHand, GpuComplete
<1>9. ASSUME NEW r \in Resource, TryEnqueueDestroyDeferred(r) \/ DestroyImmediately(r) PROVE Counted'
  BY <1>1, <1>9 DEF TryEnqueueDestroyDeferred, DestroyImmediately
<1>10. ASSUME GcBegin \/ GcListsDone \/ GcSubmit \/ GcSubmitsDone \/ GcZombie \/ GcZombiesDone \/ GcDrain \/ GcEnd
       PROVE  Counted'
  BY <1>1, <1>10 DEF GcBegin, GcListsDone, GcSubmit, GcSubmitsDone, GcZombie, GcZombiesDone, GcDrain, GcEnd
<1>11. ASSUME DtorWaitIdle \/ DtorEnd \/ UNCHANGED vars PROVE Counted'
  BY <1>1, <1>11 DEF DtorWaitIdle, DtorEnd, vars
<1> QED
  BY <1>2, <1>3, <1>4, <1>5, <1>6, <1>7, <1>8, <1>9, <1>10, <1>11 DEF Next, GcStep, Terminated

(* A new device has no pool, and no list open. *)
LEMMA InitPoolInv == Init => PoolInv
<1> SUFFICES ASSUME Init PROVE PoolInv
  OBVIOUS
<1>1. /\ \A c \in List : list[c].state = "closed" /\ list[c].pool = NoPool /\ list[c].queue \in Queue
      /\ \A q \in Queue : Len(freePools[q]) = 0 /\ poolsMade[q] = 0
      /\ Len(listZombies) = 0 /\ DOMAIN listZombies = {} /\ inFlight = {}
  BY ClosedType, EmptySeq, QueueAssumption DEF Init, Closed, CommandBuffer
<1>2. \A q \in Queue : OpenCommands(q) = {} /\ {c \in OpenCommands(q) : list[c].pool # NoPool} = {}
  BY <1>1 DEF OpenCommands
<1>3. \A q \in Queue : {i \in DOMAIN listZombies : listZombies[i].queue = q} = {}
  BY <1>1
<1>4. PoolsApart
  BY <1>1 DEF PoolsApart, NoPool
<1>5. PoolsConserved /\ \A q \in Queue : IsFiniteSet(OpenCommands(q))
  <2>1. IsFiniteSet({}) /\ Cardinality({}) = 0
    BY FS_EmptySet
  <2>2. \A q \in Queue : /\ IsFiniteSet(OpenCommands(q))
                         /\ Cardinality({c \in OpenCommands(q) : list[c].pool # NoPool}) = 0
                         /\ Cardinality({i \in DOMAIN listZombies : listZombies[i].queue = q}) = 0
    BY <1>2, <1>3, <2>1
  <2>3. ASSUME NEW q \in Queue
        PROVE  poolsMade[q] = Len(freePools[q])
                              + Cardinality({c \in OpenCommands(q) : list[c].pool # NoPool})
                              + Cardinality({i \in DOMAIN listZombies : listZombies[i].queue = q})
    <3>1. poolsMade[q] = 0 /\ Len(freePools[q]) = 0
      BY <1>1
    <3> QED
      BY <2>2, <3>1
  <2> QED
    BY <2>2, <2>3 DEF PoolsConserved
<1> QED
  BY <1>1, <1>4, <1>5 DEF PoolInv, PoolsInFlight

(* No step loses, doubles or misplaces a pool. *)
LEMMA PoolStep == IInv /\ PoolInv /\ [Next]_vars => PoolInv'
  BY ApartStep, InFlightStep, CountedStep DEF PoolInv, Counted

(* The pools of unfinished submissions are put to no other use. *)
LEMMA PoolsAreKept == IInv /\ PoolInv => NoPoolReuseInFlight
<1> SUFFICES ASSUME IInv, PoolInv, NEW w \in inFlight, NEW p \in w.pools
             PROVE  /\ p \notin ToSet(freePools[w.queue])
                    /\ \A c \in List : list[c].state = "open" /\ list[c].queue = w.queue => list[c].pool # p
  BY DEF NoPoolReuseInFlight
<1>0. /\ TypeOK /\ PoolsApart /\ PoolsInFlight /\ w.queue \in Queue
      /\ \A q \in Queue : \A c \in submit[q].lists : c \in List /\ list[c].state = "submitted" /\ list[c].queue = q
      /\ ToSet(freePools[w.queue]) = {freePools[w.queue][i] : i \in 1 .. Len(freePools[w.queue])}
  <2>1. TypeOK /\ PoolsApart /\ PoolsInFlight /\ w.queue \in Queue
    BY DEF IInv, PoolInv, TypeOK, Submission
  <2>2. DOMAIN freePools[w.queue] = 1 .. Len(freePools[w.queue])
    BY <2>1, PoolTypes, LenProperties
  <2> QED
    BY <2>1, <2>2 DEF IInv, TypeOK, LockInv, SubmitCall, ToSet
<1>1. CASE \E i \in 1 .. Len(listZombies) : listZombies[i] = [queue |-> w.queue, value |-> w.value, pool |-> p]
  BY <1>0, <1>1 DEF PoolsApart
<1>2. CASE \E c \in submit[w.queue].lists : list[c].pool = p
  <2>1. PICK c \in List : list[c].pool = p /\ list[c].state = "submitted" /\ list[c].queue = w.queue
    BY <1>0, <1>2
  <2>2. p # NoPool
    BY <1>0, <2>1 DEF PoolsApart
  <2> QED
    BY <1>0, <2>1, <2>2 DEF PoolsApart
<1> QED
  BY <1>0, <1>1, <1>2 DEF PoolsInFlight

(* All of the invariant is inductive. *)
THEOREM DeviceInvariant == Spec => []DeviceInv
<1>1. Init => DeviceInv
  BY InitOrderInv, InitPoolInv, InitCountShut DEF DeviceInv
<1>2. DeviceInv /\ [Next]_vars => DeviceInv'
  BY OrderStep, PoolStep, CountStep, ShutStep DEF DeviceInv, OrderInv
<1> QED
  BY <1>1, <1>2, PTL DEF Spec

(* Command pools go round, for any number of queues, lists and submissions:*)
(* one the GPU reads from is neither free nor being recorded into, and     *)
(* every pool made is free, with a list or with a list zombie.             *)
THEOREM PoolsRecycle == Spec => []PoolsGoRound
<1>1. DeviceInv => PoolsGoRound
  BY PoolsAreKept DEF DeviceInv, OrderInv, PoolInv, PoolsGoRound
<1> QED
  BY <1>1, DeviceInvariant, PTL

-----------------------------------------------------------------------------
(* The promise of IDevice.                                                 *)

Status == [r \in Resource |-> IF life[r] \in {"deferred", "zombie"} THEN "condemned" ELSE life[r]]
Busy == {r \in Resource : InUse(r)}

(* Who uses what is in the lists' and the submissions' uses alone. *)
LEMMA BusyStable ==
  ASSUME \A c \in List : list'[c].uses = list[c].uses, UNCHANGED inFlight
  PROVE  Busy' = Busy
  BY DEF Busy, InUse

(* A step of the abstract life of resources, in the terms of Status, Busy. *)
LifetimeStep ==
  \/ UNCHANGED <<Status, Busy>>
  \/ \E r \in Resource : Status[r] # "destroyed" /\ Busy' = Busy \cup {r} /\ UNCHANGED Status
  \/ Busy' \subseteq Busy /\ UNCHANGED Status
  \/ \E r \in Resource : /\ Status[r] = "live" /\ Status' = [Status EXCEPT ![r] = "condemned"]
                         /\ UNCHANGED Busy
  \/ \E r \in Resource : /\ Status[r] # "destroyed" /\ r \notin Busy
                         /\ \A m \in Members[r] : Status[m] = "destroyed"
                         /\ Status' = [Status EXCEPT ![r] = "destroyed"] /\ UNCHANGED Busy

(* It is a step of ResourceLifetime. *)
LEMMA LifetimeStepRefines == LifetimeStep => [Lifetime!Next]_(Lifetime!vars)
<1> SUFFICES ASSUME LifetimeStep PROVE [Lifetime!Next]_(Lifetime!vars)
  OBVIOUS
<1>1. CASE UNCHANGED <<Status, Busy>>
  BY <1>1 DEF Lifetime!vars, Status, Busy
<1>2. ASSUME NEW r \in Resource, Status[r] # "destroyed", Busy' = Busy \cup {r}, UNCHANGED Status
      PROVE  Lifetime!Use(r)
  BY <1>2 DEF Lifetime!Use, Status, Busy
<1>3. CASE Busy' \subseteq Busy /\ UNCHANGED Status
  BY <1>3 DEF Lifetime!Next, Lifetime!Finish, Status, Busy
<1>4. ASSUME NEW r \in Resource, Status[r] = "live", Status' = [Status EXCEPT ![r] = "condemned"], UNCHANGED Busy
      PROVE  Lifetime!Condemn({r})
  <2>1. Status' = [s \in Resource |-> IF s \in {r} THEN "condemned" ELSE Status[s]]
    BY <1>4 DEF Status
  <2> QED
    BY <1>4, <2>1 DEF Lifetime!Condemn, Status, Busy
<1>5. ASSUME NEW r \in Resource, Status[r] # "destroyed", r \notin Busy,
             \A m \in Members[r] : Status[m] = "destroyed",
             Status' = [Status EXCEPT ![r] = "destroyed"], UNCHANGED Busy
      PROVE  Lifetime!Destroy(r)
  BY <1>5 DEF Lifetime!Destroy, Status, Busy
<1>6. \A r \in Resource : {r} \in SUBSET Resource
  OBVIOUS
<1> QED
  BY <1>1, <1>2, <1>3, <1>4, <1>5, <1>6 DEF LifetimeStep, Lifetime!Next

(* Every step of the backend is one. *)
LEMMA BackendStep == OrderInv /\ [Next]_vars => LifetimeStep
<1> SUFFICES ASSUME OrderInv, [Next]_vars PROVE LifetimeStep
  OBVIOUS
<1> USE DEF submitVars, listVars, lifeVars, gcVars, dtorVars
<1>0. /\ TypeOK /\ LockInv /\ TimelineInv /\ CondemnedInv /\ ZombieInv /\ ScanInv
      /\ BlockInv /\ MembersBeforeBlock
      /\ life \in [Resource -> {"live", "deferred", "zombie", "destroyed"}]
      /\ list \in [List -> CommandBuffer] /\ \A c \in List : list[c] \in CommandBuffer
      /\ \A r \in Resource : Members[r] \subseteq Resource
  BY MembersAssumption DEF OrderInv, IInv, TypeOK
<1>1. CASE UNCHANGED <<list, inFlight, life>>
  BY <1>1, BusyStable DEF LifetimeStep, Status
<1>2. ASSUME NEW c \in List, NEW q \in Queue, CountOpen(c, q) PROVE LifetimeStep
  <2>1. /\ list' = [list EXCEPT ![c] = [Closed EXCEPT !.state = "counted", !.queue = q]]
        /\ list[c].uses = {} /\ UNCHANGED <<inFlight, life>>
    BY <1>0, <1>2 DEF CountOpen, LockInv
  <2>2. \A d \in List : list'[d].uses = list[d].uses
    BY <1>0, <2>1, ClosedType DEF CommandBuffer
  <2> QED
    BY <2>1, <2>2, BusyStable DEF LifetimeStep, Status
<1>3. ASSUME NEW c \in List, TakePool(c) PROVE LifetimeStep
  <2>1. PICK p : list' = [list EXCEPT ![c] = [@ EXCEPT !.state = "open", !.pool = p]]
    BY <1>3 DEF TakePool
  <2>2. UNCHANGED <<inFlight, life>> /\ \A d \in List : list'[d].uses = list[d].uses
    BY <1>0, <1>3, <2>1 DEF TakePool, CommandBuffer
  <2> QED
    BY <2>2, BusyStable DEF LifetimeStep, Status
<1>4. ASSUME NEW c \in List, NEW r \in Resource, Record(c, r) PROVE LifetimeStep
  <2>1. /\ life[r] \in {"live", "deferred"} /\ UNCHANGED <<inFlight, life>>
        /\ list' = [list EXCEPT ![c].uses = @ \cup {r}]
    BY <1>4 DEF Record, Usable
  <2>2. /\ list'[c].uses = list[c].uses \cup {r}
        /\ \A d \in List : d # c => list'[d].uses = list[d].uses
    BY <1>0, <2>1 DEF CommandBuffer
  <2>3. Busy' = Busy \cup {r}
    BY <2>1, <2>2 DEF Busy, InUse
  <2>4. Status[r] # "destroyed" /\ UNCHANGED Status
    BY <2>1 DEF Status
  <2> QED
    BY <2>3, <2>4 DEF LifetimeStep
<1>5. ASSUME NEW q \in Queue, NEW cs \in SUBSET List, SubmitTrack(q, cs) PROVE LifetimeStep
  <2>1. /\ list' = [c \in List |-> IF c \in cs THEN [list[c] EXCEPT !.state = "submitted"] ELSE list[c]]
        /\ UNCHANGED <<inFlight, life>>
    BY <1>5 DEF SubmitTrack
  <2>2. \A d \in List : list'[d].uses = list[d].uses
    BY <1>0, <2>1 DEF CommandBuffer
  <2> QED
    BY <2>1, <2>2, BusyStable DEF LifetimeStep, Status
<1>6. ASSUME NEW q \in Queue, SubmitHand(q) PROVE LifetimeStep
  <2>1. inFlight' = inFlight \cup {WorkOf(q)} /\ UNCHANGED <<list, life>>
    BY <1>6 DEF SubmitHand
  <2>2. submit[q].lists \subseteq List
    BY <1>0 DEF TypeOK, SubmitCall
  <2>3. \A r \in WorkOf(q).uses : \E c \in List : r \in list[c].uses
    BY <2>2 DEF WorkOf
  <2>4. Busy' = Busy
    BY <2>1, <2>3 DEF Busy, InUse
  <2> QED
    BY <2>1, <2>4 DEF LifetimeStep, Status
<1>7. ASSUME NEW q \in Queue, NEW c \in List, SubmitRetire(q, c) PROVE LifetimeStep
  <2>1. list' = [list EXCEPT ![c] = Closed] /\ UNCHANGED <<inFlight, life>>
    BY <1>7 DEF SubmitRetire
  <2>2. \A d \in List : list'[d].uses \subseteq list[d].uses
    BY <1>0, <2>1, ClosedType
  <2>3. Busy' \subseteq Busy
    BY <2>1, <2>2 DEF Busy, InUse
  <2> QED
    BY <2>1, <2>3 DEF LifetimeStep, Status
<1>8. ASSUME NEW q \in Queue, GpuComplete(q) PROVE LifetimeStep
  <2>1. inFlight' \subseteq inFlight /\ UNCHANGED <<list, life>>
    BY <1>8 DEF GpuComplete
  <2>2. Busy' \subseteq Busy
    BY <2>1 DEF Busy, InUse
  <2> QED
    BY <2>1, <2>2 DEF LifetimeStep, Status
<1>9. ASSUME NEW r \in Resource, TryEnqueueDestroyDeferred(r) PROVE LifetimeStep
  <2>1. life[r] = "live" /\ life' = [life EXCEPT ![r] = "deferred"] /\ UNCHANGED <<list, inFlight>>
    BY <1>9 DEF TryEnqueueDestroyDeferred, MayGiveUp
  <2>2. Status[r] = "live" /\ Status' = [Status EXCEPT ![r] = "condemned"]
    BY <1>0, <2>1 DEF Status
  <2> QED
    BY <2>1, <2>2, BusyStable DEF LifetimeStep
<1>10. ASSUME NEW r \in Resource, DestroyImmediately(r) PROVE LifetimeStep
  <2>1. /\ life[r] = "live" /\ life' = [life EXCEPT ![r] = "destroyed"] /\ UNCHANGED <<list, inFlight>>
        /\ ~InUse(r) /\ \A m \in Members[r] : life[m] = "destroyed"
    BY <1>10 DEF DestroyImmediately, MayGiveUp
  <2>2. /\ Status[r] # "destroyed" /\ Status' = [Status EXCEPT ![r] = "destroyed"]
        /\ r \notin Busy /\ \A m \in Members[r] : Status[m] = "destroyed"
    BY <1>0, <2>1 DEF Status, Busy
  <2> QED
    BY <2>1, <2>2, BusyStable DEF LifetimeStep
<1>11. ASSUME GcZombie PROVE LifetimeStep
  <2>1. PICK k \in 1 .. Len(resourceZombies) : k = gcAt
    BY <1>0, <1>11, LenProperties DEF GcZombie, TypeOK
  <2>2. PICK r \in Resource : r = resourceZombies[k] /\ life[r] = "zombie"
    BY <1>0, <2>1, ElementOfSeq DEF TypeOK, CondemnedInv
  <2>3. UNCHANGED <<list, inFlight>> /\ Scanned(Len(pendingSubmits))
    BY <1>0, <1>11 DEF GcZombie, ScanInv
  <2>4. CASE Ready(r) /\ life' = [life EXCEPT ![r] = "destroyed"]
    <3>1. ~InUse(r)
      BY <1>0, <2>2, <2>3, <2>4, ReadyIsIdle
    <3>2. r \notin Members[r]
      BY <1>0, <2>1, <2>2 DEF BlockInv, Ahead, CondemnedInv
    <3>3. MembersBeforeBlock'
      BY BlockStep
    <3>4. \A m \in Members[r] : life[m] = "destroyed"
      BY <1>0, <2>2, <2>4, <3>2, <3>3 DEF MembersBeforeBlock
    <3>5. /\ Status[r] # "destroyed" /\ Status' = [Status EXCEPT ![r] = "destroyed"]
          /\ r \notin Busy /\ \A m \in Members[r] : Status[m] = "destroyed"
      BY <1>0, <2>2, <2>4, <3>1, <3>4 DEF Status, Busy
    <3> QED
      BY <2>3, <3>5, BusyStable DEF LifetimeStep
  <2>5. CASE UNCHANGED life
    BY <1>1, <2>3, <2>5
  <2> QED
    BY <1>11, <2>1, <2>2, <2>4, <2>5 DEF GcZombie
<1>12. ASSUME GcDrain PROVE LifetimeStep
  <2>1. PICK r \in Resource : r = Head(destroyDeferred) /\ r = destroyDeferred[1] /\ 1 \in 1 .. Len(destroyDeferred)
    BY <1>0, <1>12, HeadTailProperties, EmptySeq DEF GcDrain, TypeOK
  <2>2. /\ life[r] = "deferred" /\ life' = [life EXCEPT ![r] = "zombie"]
        /\ UNCHANGED <<list, inFlight>>
    BY <1>0, <1>12, <2>1 DEF GcDrain, CondemnedInv
  <2>3. Status' = Status
    BY <1>0, <2>2 DEF Status
  <2> QED
    BY <2>2, <2>3, BusyStable DEF LifetimeStep
<1>13. ASSUME GcBegin \/ GcList \/ GcListsDone \/ GcSubmit \/ GcSubmitsDone \/ GcZombiesDone \/ GcEnd
       PROVE  LifetimeStep
  BY <1>1, <1>13 DEF GcBegin, GcList, GcListsDone, GcSubmit, GcSubmitsDone, GcZombiesDone, GcEnd
<1>14. ASSUME DtorWaitIdle \/ DtorEnd \/ UNCHANGED vars PROVE LifetimeStep
  BY <1>1, <1>14 DEF DtorWaitIdle, DtorEnd, vars
<1> QED
  BY <1>2, <1>3, <1>4, <1>5, <1>6, <1>7, <1>8, <1>9, <1>10, <1>11, <1>12, <1>13, <1>14
  DEF Next, GcStep, Terminated

(* The Vulkan backend keeps the promise IDevice makes about the life of a  *)
(* resource, for any queues, lists, resources and blocks: each of its steps*)
(* is a step of ResourceLifetime, or changes nothing there.                *)
THEOREM KeepsThePromise == Spec => LifetimeSpec
<1>1. Init => Lifetime!Init
  <2> SUFFICES ASSUME Init PROVE Lifetime!Init
    OBVIOUS
  <2>1. /\ \A c \in List : list[c].uses = {}
        /\ inFlight = {} /\ \A r \in Resource : life[r] = "live"
    BY ClosedType DEF Init
  <2> QED
    BY <2>1 DEF Lifetime!Init, InUse
<1>2. OrderInv /\ [Next]_vars => [Lifetime!Next]_(Lifetime!vars)
  BY BackendStep, LifetimeStepRefines
<1>3. Spec => []OrderInv
  BY InitOrderInv, OrderStep, PTL DEF Spec
<1> QED
  BY <1>1, <1>2, <1>3, PTL DEF Spec, LifetimeSpec, Lifetime!Spec

=============================================================================

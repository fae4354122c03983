---------------------- MODULE D3DDescriptorTablesProofs ----------------------
(***************************************************************************)
(* Theorems about D3DDescriptorTables: what holds whatever the threads do, *)
(* and what holds of tables in use as long as one thread records and the   *)
(* application does not let the GPU fall too far behind.                   *)
(***************************************************************************)
EXTENDS D3DDescriptorTables, SequenceLemmas

(* Lists are recorded one at a time: two that ask for the same UAVs at     *)
(* once both make a table, of which the cache keeps one.                   *)
OneThread == \A s, t \in Thread : s = t

(* The GPU is no more submissions behind than a table may go unasked for.  *)
LagIsShort == FramesInFlight <= MaxUnused + 1

Calling(t, op) == call[t] # Null /\ call[t].op = op

(* The default table shows every shader resource that has got this far.    *)
DefaultCurrent ==
  \A v \in View : (\E t \in Thread : Calling(t, "default") /\ call[t].view = v) \/ default[v] = srvHeap[v]

(* Tables, made or being made, show UAVs that are there, and as they are.  *)
UavsCurrent ==
  /\ \A k \in DOMAIN cache : \A u \in k : u \in liveUavs /\ cache[k].copies.uav[u] = uavHeap[u]
  /\ \A t \in Thread : Calling(t, "emplace") =>
       \A u \in call[t].key : u \in liveUavs /\ call[t].copies.uav[u] = uavHeap[u]

(* A list in which nothing is recorded uses nothing, and makes nothing.    *)
ListsFit ==
  \A t \in Thread : /\ list[t].state = "closed" => list[t].tables = {} /\ list[t].uavs = {}
                    /\ Calling(t, "emplace") => list[t].state = "open"

(* What holds of any number of threads. *)
IInv == TypeOK /\ DefaultCurrent /\ UavsCurrent /\ ListsFit

(* A table being made is for UAVs that have none yet. *)
Emplaced ==
  \A t \in Thread : Calling(t, "emplace") =>
    call[t].key \notin DOMAIN cache /\ call[t].copies.srv = srvHeap

SrvsCurrent ==
  \A k \in DOMAIN cache : \A v \in View : BeingCreated(v) \/ cache[k].copies.srv[v] = srvHeap[v]

(* A table in use is cached, for UAVs that are in use as well; and it is   *)
(* younger, in collections, than its use, in submissions.                  *)
ListsPin ==
  \A t \in Thread : \A h \in list[t].tables \ {Default} : \E k \in DOMAIN cache :
    cache[k].heap = h /\ k \subseteq list[t].uavs /\ cache[k].age = 0
Due == IF due THEN 1 ELSE 0
WorkPins ==
  \A i \in 1 .. Len(gpu) : \A h \in gpu[i].tables \ {Default} : \E k \in DOMAIN cache :
    cache[k].heap = h /\ k \subseteq gpu[i].uavs /\ cache[k].age + Due <= Len(gpu) - i + 1

Lag ==
  /\ Len(gpu) <= FramesInFlight
  /\ \A t \in Thread : list[t].state # "closed" => Len(gpu) < FramesInFlight

(* What holds of one thread. *)
OneInv == Emplaced /\ SrvsCurrent /\ ListsPin /\ WorkPins /\ Lag

-----------------------------------------------------------------------------
(* Types. *)

List == [state : {"closed", "open", "completed"}, bound : Table \cup {Null},
         tables : SUBSET Table, uavs : SUBSET Uav]
Submission == [tables : SUBSET Table, uavs : SUBSET Uav]
Entry == [heap : Heap, age : 0 .. MaxUnused + 1, copies : Copies]

(* What the thread's call is about. *)
LEMMA Calls ==
  ASSUME TypeOK, NEW t \in Thread, call[t] # Null
  PROVE  /\ call[t] \in Call
         /\ Calling(t, "emplace") \/ Calling(t, "default") \/ Calling(t, "copies")
         /\ call[t].op = "emplace" => call[t].key \in Key /\ call[t].heap \in Heap /\ call[t].copies \in Copies
         /\ call[t].op # "emplace" => call[t].view \in View
<1>1. call[t] \in Call
  BY DEF TypeOK
<1> QED
  BY <1>1 DEF Call, Calling

(* What a list has bound. *)
LEMMA Binds ==
  ASSUME TypeOK, NEW t \in Thread, NEW table \in Table, NEW key \in SUBSET Uav, Bind(t, table, key)
  PROVE  /\ list' \in [Thread -> List]
         /\ \A s \in Thread : s # t => list'[s] = list[s]
         /\ \A s \in Thread : list'[s].state = list[s].state
         /\ list'[t].bound = table
         /\ list'[t].tables = list[t].tables \cup {table}
         /\ list'[t].uavs = list[t].uavs \cup key
<1>1. list \in [Thread -> List]
  BY DEF TypeOK, List
<1>2. PICK s \in {"closed", "open", "completed"}, b \in Table \cup {Null}, h \in SUBSET Table, u \in SUBSET Uav :
        list[t] = [state |-> s, bound |-> b, tables |-> h, uavs |-> u]
  BY <1>1 DEF List
<1> DEFINE r1 == [list EXCEPT ![t].bound = table]
           r2 == [r1 EXCEPT ![t].tables = @ \cup {table}]
<1>3. r1 = [list EXCEPT ![t] = r1[t]] /\ r1[t] = [state |-> s, bound |-> table, tables |-> h, uavs |-> u]
  <2>1. r1 = [list EXCEPT ![t] = r1[t]] /\ r1[t] = [list[t] EXCEPT !.bound = table]
    BY <1>1
  <2>2. [list[t] EXCEPT !.bound = table] = [state |-> s, bound |-> table, tables |-> h, uavs |-> u]
    BY <1>2
  <2> QED
    BY <2>1, <2>2
<1> HIDE DEF r1
<1>4. r2 = [r1 EXCEPT ![t] = r2[t]] /\ r2[t] = [state |-> s, bound |-> table, tables |-> h \cup {table}, uavs |-> u]
  <2>1. r2 = [r1 EXCEPT ![t] = r2[t]] /\ r2[t] = [r1[t] EXCEPT !.tables = @ \cup {table}]
    BY <1>1, <1>3
  <2> QED
    BY <1>3, <2>1
<1>5. list' = [r2 EXCEPT ![t].uavs = @ \cup key]
  BY DEF Bind, r1
<1> HIDE DEF r2
<1>6. list' = [list EXCEPT ![t] = list'[t]]
      /\ list'[t] = [state |-> s, bound |-> table, tables |-> h \cup {table}, uavs |-> u \cup key]
  <2>1. list' = [r2 EXCEPT ![t] = list'[t]] /\ list'[t] = [r2[t] EXCEPT !.uavs = @ \cup key]
    BY <1>1, <1>3, <1>4, <1>5
  <2> QED
    BY <1>1, <1>3, <1>4, <2>1
<1>7. list'[t] \in List
  BY <1>2, <1>6 DEF List
<1>8. list' \in [Thread -> List] /\ \A r \in Thread : r # t => list'[r] = list[r]
  BY <1>1, <1>6, <1>7
<1> QED
  BY <1>1, <1>2, <1>6, <1>8

LEMMA InitTypes ==
  ASSUME Init
  PROVE  IInv
<1>1. 0 \in Version
  BY BoundAssumption DEF Version
<1>2. Closed \in List
  BY DEF Closed, List
<1>3. <<>> \in Seq(Submission)
  BY EmptySeq
<1>4. /\ srvHeap \in [View -> Version] /\ default \in [View -> Version]
      /\ uavHeap \in [Uav -> Version] /\ liveUavs \subseteq Uav
      /\ list \in [Thread -> List] /\ call \in [Thread -> Call \cup {Null}]
      /\ gpu \in Seq(Submission) /\ due \in BOOLEAN
  BY <1>1, <1>2, <1>3 DEF Init
<1>5. DOMAIN cache = {}
  BY DEF Init
<1>6. cache \in [DOMAIN cache -> Entry]
  BY <1>5 DEF Init
<1>7. TypeOK
  BY <1>4, <1>5, <1>6 DEF TypeOK, List, Entry, Submission
<1>8. DefaultCurrent /\ UavsCurrent /\ ListsFit
  BY <1>5 DEF Init, DefaultCurrent, UavsCurrent, ListsFit, Calling, Closed
<1> QED
  BY <1>7, <1>8 DEF IInv


-----------------------------------------------------------------------------
(* Any number of threads: each step keeps the default table, the UAVs of   *)
(* the cached ones and of those being made as they should be.              *)

LEMMA ListTypes ==
  ASSUME TypeOK
  PROVE  /\ list \in [Thread -> List] /\ call \in [Thread -> Call \cup {Null}]
         /\ DOMAIN cache \subseteq Key /\ cache \in [DOMAIN cache -> Entry]
         /\ gpu \in Seq(Submission)
BY DEF TypeOK, List, Entry, Submission

(* Steps that touch neither views nor what the cached tables show.         *)
LEMMA KeepsShown ==
  ASSUME IInv, UNCHANGED <<srvHeap, uavHeap, liveUavs, default, call>>,
         DOMAIN cache' = DOMAIN cache, cache' \in [DOMAIN cache -> Entry],
         \A k \in DOMAIN cache : cache'[k].copies = cache[k].copies,
         list' \in [Thread -> List],
         gpu' \in Seq(Submission), due' \in BOOLEAN,
         ListsFit'
  PROVE  IInv'
<1>1. TypeOK'
  BY DEF IInv, TypeOK, List, Entry, Submission
<1>2. DefaultCurrent' /\ UavsCurrent'
  BY DEF IInv, DefaultCurrent, UavsCurrent, Calling
<1> QED
  BY <1>1, <1>2 DEF IInv

LEMMA GetCommandBufferDoes ==
  ASSUME TypeOK, NEW t \in Thread, GetCommandBuffer(t)
  PROVE  /\ list' \in [Thread -> List]
         /\ \A s \in Thread : s # t => list'[s] = list[s]
         /\ list'[t].state = "open" /\ list'[t].tables = list[t].tables /\ list'[t].uavs = list[t].uavs
<1>1. PICK b \in Table \cup {Null}, h \in SUBSET Table, u \in SUBSET Uav :
        list[t] = [state |-> "closed", bound |-> b, tables |-> h, uavs |-> u]
  BY ListTypes DEF List, GetCommandBuffer
<1>2. list' = [list EXCEPT ![t] = [list[t] EXCEPT !.state = "open"]]
  BY DEF GetCommandBuffer
<1>3. [list[t] EXCEPT !.state = "open"] = [state |-> "open", bound |-> b, tables |-> h, uavs |-> u]
  BY <1>1
<1>4. [state |-> "open", bound |-> b, tables |-> h, uavs |-> u] \in List
  BY DEF List
<1> QED
  BY <1>1, <1>2, <1>3, <1>4, ListTypes

LEMMA CompleteDoes ==
  ASSUME TypeOK, NEW t \in Thread, Complete(t)
  PROVE  /\ list' \in [Thread -> List]
         /\ \A s \in Thread : s # t => list'[s] = list[s]
         /\ list'[t].state = "completed" /\ list'[t].tables = list[t].tables /\ list'[t].uavs = list[t].uavs
<1>1. PICK b \in Table \cup {Null}, h \in SUBSET Table, u \in SUBSET Uav :
        list[t] = [state |-> "open", bound |-> b, tables |-> h, uavs |-> u]
  BY ListTypes DEF List, Complete, Recording
<1> DEFINE r == [list EXCEPT ![t].state = "completed"]
<1>2. r \in [Thread -> List] /\ r = [list EXCEPT ![t] = r[t]]
      /\ r[t] = [state |-> "completed", bound |-> b, tables |-> h, uavs |-> u]
  <2>1. r = [list EXCEPT ![t] = r[t]] /\ r[t] = [list[t] EXCEPT !.state = "completed"]
    BY ListTypes
  <2>2. [list[t] EXCEPT !.state = "completed"] = [state |-> "completed", bound |-> b, tables |-> h, uavs |-> u]
    BY <1>1
  <2>3. [state |-> "completed", bound |-> b, tables |-> h, uavs |-> u] \in List
    BY DEF List
  <2> QED
    BY <2>1, <2>2, <2>3, ListTypes
<1>3. list' = [r EXCEPT ![t].bound = Null]
  BY DEF Complete
<1> HIDE DEF r
<1>4. list' = [r EXCEPT ![t] = list'[t]] /\ list'[t] = [r[t] EXCEPT !.bound = Null]
  BY <1>2, <1>3
<1>5. list'[t] = [state |-> "completed", bound |-> Null, tables |-> h, uavs |-> u]
  BY <1>2, <1>4
<1>6. list'[t] \in List
  BY <1>5 DEF List
<1> QED
  BY <1>1, <1>2, <1>4, <1>5, <1>6, ListTypes

LEMMA SubmitQueueDoes ==
  ASSUME TypeOK, NEW t \in Thread, SubmitQueue(t)
  PROVE  /\ list' \in [Thread -> List]
         /\ \A s \in Thread : s # t => list'[s] = list[s]
         /\ list'[t].state = "closed" /\ list'[t].tables = {} /\ list'[t].uavs = {}
         /\ [tables |-> list[t].tables, uavs |-> list[t].uavs] \in Submission
<1>1. Closed \in List
  BY DEF Closed, List
<1>2. list' = [list EXCEPT ![t] = Closed]
  BY DEF SubmitQueue
<1>3. list[t].tables \in SUBSET Table /\ list[t].uavs \in SUBSET Uav
  BY ListTypes DEF List
<1>4. [tables |-> list[t].tables, uavs |-> list[t].uavs] \in Submission
  BY <1>3 DEF Submission
<1>5. list'[t] = Closed /\ \A s \in Thread : s # t => list'[s] = list[s]
  BY <1>2, ListTypes
<1>6. list' \in [Thread -> List]
  BY <1>1, <1>2, ListTypes
<1> QED
  BY <1>4, <1>5, <1>6 DEF Closed

LEMMA ListSteps ==
  ASSUME IInv, NEW t \in Thread, GetCommandBuffer(t) \/ BindDefault(t) \/ Complete(t) \/ SubmitQueue(t)
  PROVE  IInv'
<1> USE DEF IInv
<1>1. CASE GetCommandBuffer(t)
  <2>1. ListsFit'
    BY <1>1, GetCommandBufferDoes DEF ListsFit, Calling, GetCommandBuffer
  <2> QED
    BY <1>1, <2>1, GetCommandBufferDoes, ListTypes, KeepsShown DEF GetCommandBuffer, TypeOK
<1>2. CASE BindDefault(t)
  <2>1. Default \in Table /\ {} \in SUBSET Uav /\ Bind(t, Default, {}) /\ list[t].state = "open"
    BY <1>2 DEF BindDefault, Table, Recording
  <2>2. ListsFit'
    BY <1>2, <2>1, Binds DEF ListsFit, Calling, BindDefault
  <2> QED
    BY <1>2, <2>1, <2>2, Binds, ListTypes, KeepsShown DEF BindDefault, TypeOK
<1>3. CASE Complete(t)
  <2>1. ListsFit'
    BY <1>3, CompleteDoes DEF ListsFit, Calling, Complete, Recording
  <2> QED
    BY <1>3, <2>1, CompleteDoes, ListTypes, KeepsShown DEF Complete, TypeOK
<1>4. CASE SubmitQueue(t)
  <2>1. ListsFit'
    <3>1. /\ list'[t].state = "closed" /\ list'[t].tables = {} /\ list'[t].uavs = {}
          /\ \A s \in Thread : s # t => list'[s] = list[s]
      BY <1>4, SubmitQueueDoes
    <3>2. list[t].state = "completed" /\ call' = call
      BY <1>4 DEF SubmitQueue
    <3> QED
      BY <3>1, <3>2 DEF ListsFit, Calling
  <2>2. gpu' \in Seq(Submission)
    <3>1. PICK e \in Submission : e = [tables |-> list[t].tables, uavs |-> list[t].uavs]
      BY <1>4, SubmitQueueDoes
    <3>2. gpu' = Append(gpu, e)
      BY <1>4, <3>1 DEF SubmitQueue
    <3> QED
      BY <3>2, ListTypes, AppendElements
  <2> QED
    BY <1>4, <2>1, <2>2, SubmitQueueDoes, ListTypes, KeepsShown DEF SubmitQueue
<1> QED
  BY <1>1, <1>2, <1>3, <1>4

LEMMA GpuStep ==
  ASSUME IInv, GpuComplete
  PROVE  IInv'
<1>1. gpu' \in Seq(Submission)
  BY ListTypes, TailElements DEF IInv, GpuComplete
<1>2. ListsFit'
  BY DEF IInv, ListsFit, Calling, GpuComplete
<1> QED
  BY <1>1, <1>2, ListTypes, KeepsShown DEF IInv, GpuComplete, TypeOK

(* What a table in the cache is. *)
LEMMA Entries ==
  ASSUME TypeOK, NEW k \in DOMAIN cache
  PROVE  /\ k \in Key /\ k \in SUBSET Uav
         /\ cache[k].heap \in Heap /\ cache[k].heap \in Table
         /\ cache[k].age \in 0 .. MaxUnused + 1 /\ cache[k].copies \in Copies
         /\ cache[k] = [heap |-> cache[k].heap, age |-> cache[k].age, copies |-> cache[k].copies]
<1>1. cache[k] \in Entry /\ k \in Key
  BY ListTypes
<1> QED
  BY <1>1 DEF Entry, Uav, Table

LEMMA BindCachedDoes ==
  ASSUME TypeOK, NEW t \in Thread, NEW k \in Key, BindCached(t, k)
  PROVE  /\ k \in DOMAIN cache /\ k \in SUBSET Uav /\ cache[k].heap \in Table
         /\ DOMAIN cache' = DOMAIN cache /\ cache' \in [DOMAIN cache -> Entry]
         /\ \A j \in DOMAIN cache : j # k => cache'[j] = cache[j]
         /\ cache'[k].age = 0 /\ cache'[k].heap = cache[k].heap /\ cache'[k].copies = cache[k].copies
<1>1. k \in DOMAIN cache /\ cache' = [cache EXCEPT ![k] = [cache[k] EXCEPT !.age = 0]]
  BY DEF BindCached
<1>2. PICK h \in Heap, a \in 0 .. MaxUnused + 1, c \in Copies : cache[k] = [heap |-> h, age |-> a, copies |-> c]
  BY <1>1, Entries
<1>3. [cache[k] EXCEPT !.age = 0] = [heap |-> h, age |-> 0, copies |-> c]
  BY <1>2
<1>4. [heap |-> h, age |-> 0, copies |-> c] \in Entry
  BY BoundAssumption DEF Entry
<1> QED
  BY <1>1, <1>2, <1>3, <1>4, Entries, ListTypes

LEMMA BindCachedStep ==
  ASSUME IInv, NEW t \in Thread, NEW k \in Key, BindCached(t, k)
  PROVE  IInv'
<1> USE DEF IInv
<1>1. Bind(t, cache[k].heap, k) /\ list[t].state = "open"
  BY DEF BindCached, Recording
<1>2. ListsFit'
  <2>1. \A s \in Thread : list'[s].state = list[s].state /\ (s # t => list'[s] = list[s])
    BY <1>1, BindCachedDoes, Binds
  <2>2. call' = call
    BY DEF BindCached
  <2> QED
    BY <1>1, <2>1, <2>2 DEF ListsFit, Calling
<1>3. list' \in [Thread -> List]
  BY <1>1, BindCachedDoes, Binds
<1>4. \A j \in DOMAIN cache : cache'[j].copies = cache[j].copies
  BY BindCachedDoes
<1> QED
  BY <1>2, <1>3, <1>4, BindCachedDoes, ListTypes, KeepsShown DEF BindCached, TypeOK


LEMMA MakeTableDoes ==
  ASSUME TypeOK, NEW t \in Thread, NEW k \in Key, MakeTable(t, k)
  PROVE  /\ call' \in [Thread -> Call \cup {Null}]
         /\ \A s \in Thread : s # t => call'[s] = call[s]
         /\ call'[t] # Null /\ call'[t].op = "emplace" /\ call'[t].key = k
         /\ call'[t].heap \in Heap /\ call'[t].heap \notin Referenced \cup TablesInUse
         /\ call'[t].copies.srv = srvHeap /\ \A u \in k : call'[t].copies.uav[u] = uavHeap[u]
<1> DEFINE free == Heap \ (Referenced \cup TablesInUse)
           copies == [srv |-> srvHeap, uav |-> [u \in Uav |-> IF u \in k THEN uavHeap[u] ELSE 0]]
<1>1. PICK h \in free : h = CHOOSE x \in free : TRUE
  BY DEF MakeTable
<1>2. 0 \in Version /\ srvHeap \in [View -> Version] /\ uavHeap \in [Uav -> Version] /\ k \subseteq Uav
  BY BoundAssumption DEF Version, TypeOK, Uav
<1>3. copies \in Copies /\ copies.srv = srvHeap /\ \A u \in k : copies.uav[u] = uavHeap[u]
  <2>1. [u \in Uav |-> IF u \in k THEN uavHeap[u] ELSE 0] \in [Uav -> Version]
    BY <1>2
  <2>2. \A u \in k : [w \in Uav |-> IF w \in k THEN uavHeap[w] ELSE 0][u] = uavHeap[u]
    BY <1>2
  <2> QED
    BY <1>2, <2>1, <2>2 DEF Copies
<1>4. call' = [call EXCEPT ![t] = [op |-> "emplace", key |-> k, heap |-> h, copies |-> copies]]
  BY <1>1 DEF MakeTable
<1>5. PICK c \in Copies : c = copies
  BY <1>3
<1>6. h \in Heap /\ h \notin Referenced \cup TablesInUse
  BY <1>1
<1> HIDE DEF free, copies
<1>7. PICK e \in Call : e = [op |-> "emplace", key |-> k, heap |-> h, copies |-> c]
  BY <1>6 DEF Call
<1>8. call' = [call EXCEPT ![t] = e] /\ e # Null
  BY <1>4, <1>5, <1>7, NullAssumption
<1>9. call' \in [Thread -> Call \cup {Null}] /\ call'[t] = e /\ \A s \in Thread : s # t => call'[s] = call[s]
  BY <1>8, ListTypes
<1>10. e.op = "emplace" /\ e.key = k /\ e.heap = h /\ e.copies = c
  BY <1>7
<1> QED
  BY <1>3, <1>5, <1>6, <1>8, <1>9, <1>10

LEMMA MakeTableStep ==
  ASSUME IInv, NEW t \in Thread, NEW k \in Key, MakeTable(t, k)
  PROVE  IInv'
<1>1. TypeOK /\ TypeOK'
  BY MakeTableDoes DEF IInv, TypeOK, MakeTable
<1>2. call[t] = Null /\ k \subseteq liveUavs /\ UNCHANGED <<srvHeap, uavHeap, liveUavs, default, cache, list>>
  BY DEF MakeTable, Recording
<1>3. \A s \in Thread : s # t => call'[s] = call[s]
  BY <1>1, MakeTableDoes
<1>4. DefaultCurrent'
  BY <1>2, <1>3 DEF IInv, DefaultCurrent, Calling
<1>5. UavsCurrent'
  BY <1>1, <1>2, <1>3, MakeTableDoes DEF IInv, UavsCurrent, Calling
<1>6. ListsFit'
  BY <1>2, <1>3 DEF IInv, ListsFit, Calling, MakeTable, Recording
<1> QED
  BY <1>1, <1>4, <1>5, <1>6 DEF IInv

LEMMA EmplaceTableDoes ==
  ASSUME TypeOK, NEW t \in Thread, EmplaceTable(t)
  PROVE  /\ call[t].key \in Key /\ call[t].key \in SUBSET Uav /\ call[t].heap \in Table /\ call[t] # Null
         /\ DOMAIN cache' = DOMAIN cache \cup {call[t].key} /\ DOMAIN cache' \subseteq Key
         /\ cache' \in [DOMAIN cache' -> Entry]
         /\ \A k \in DOMAIN cache : cache'[k] = cache[k]
         /\ call[t].key \notin DOMAIN cache =>
              /\ cache'[call[t].key].heap = call[t].heap /\ cache'[call[t].key].age = 0
              /\ cache'[call[t].key].copies = call[t].copies
         /\ call' \in [Thread -> Call \cup {Null}] /\ call'[t] = Null
         /\ \A s \in Thread : s # t => call'[s] = call[s]
<1>1. call[t] # Null /\ call[t].op = "emplace"
  BY DEF EmplaceTable
<1>2. call[t].key \in Key /\ call[t].heap \in Heap /\ call[t].copies \in Copies
  BY <1>1, Calls
<1>3. PICK e \in Entry : e = [heap |-> call[t].heap, age |-> 0, copies |-> call[t].copies]
  <2>1. 0 \in 0 .. MaxUnused + 1
    BY BoundAssumption
  <2> QED
    BY <1>2, <2>1 DEF Entry
<1>4. e.heap = call[t].heap /\ e.age = 0 /\ e.copies = call[t].copies
  BY <1>3
<1>5. cache' = [k \in DOMAIN cache \cup {call[t].key} |-> IF k \in DOMAIN cache THEN cache[k] ELSE e]
  BY <1>3 DEF EmplaceTable
<1>6. /\ DOMAIN cache' = DOMAIN cache \cup {call[t].key} /\ DOMAIN cache' \subseteq Key
      /\ cache' \in [DOMAIN cache' -> Entry]
      /\ \A k \in DOMAIN cache : cache'[k] = cache[k]
      /\ call[t].key \notin DOMAIN cache => cache'[call[t].key] = e
  BY <1>2, <1>5, ListTypes
<1>7. call' = [call EXCEPT ![t] = Null]
  BY DEF EmplaceTable
<1> QED
  BY <1>1, <1>2, <1>4, <1>6, <1>7, ListTypes DEF Table, Uav

LEMMA EmplaceTableStep ==
  ASSUME IInv, NEW t \in Thread, EmplaceTable(t)
  PROVE  IInv'
<1>1. TypeOK /\ Bind(t, call[t].heap, call[t].key)
  BY DEF IInv, EmplaceTable
<1>2. UNCHANGED <<srvHeap, uavHeap, liveUavs, default, gpu, due>> /\ call[t].op = "emplace"
  BY DEF EmplaceTable
<1>3. list' \in [Thread -> List]
  BY <1>1, EmplaceTableDoes, Binds
<1>4. TypeOK'
  BY <1>1, <1>2, <1>3, EmplaceTableDoes DEF TypeOK, List, Entry, Submission
<1>5. DefaultCurrent'
  <2>1. \A s \in Thread : Calling(s, "default") => s # t /\ call'[s] = call[s]
    BY <1>1, <1>2, EmplaceTableDoes DEF Calling
  <2>2. \A v \in View : (\E s \in Thread : Calling(s, "default") /\ call[s].view = v) \/ default[v] = srvHeap[v]
    BY DEF IInv, DefaultCurrent
  <2>3. \A s \in Thread : Calling(s, "default") => Calling(s, "default")' /\ call'[s].view = call[s].view
    BY <2>1 DEF Calling
  <2> QED
    BY <1>2, <2>2, <2>3 DEF DefaultCurrent
<1>6. UavsCurrent'
  <2>1. \A u \in call[t].key : u \in liveUavs /\ call[t].copies.uav[u] = uavHeap[u]
    BY <1>1, <1>2, EmplaceTableDoes DEF IInv, UavsCurrent, Calling
  <2>2. ASSUME NEW k \in DOMAIN cache', NEW u \in k
        PROVE  u \in liveUavs' /\ cache'[k].copies.uav[u] = uavHeap'[u]
    <3>1. CASE k \in DOMAIN cache
      <4>1. cache'[k] = cache[k]
        BY <1>1, <3>1, EmplaceTableDoes
      <4>2. u \in liveUavs /\ cache[k].copies.uav[u] = uavHeap[u]
        BY <2>2, <3>1 DEF IInv, UavsCurrent
      <4> QED
        BY <1>2, <4>1, <4>2
    <3>2. CASE k \notin DOMAIN cache
      <4>1. k = call[t].key /\ cache'[k].copies = call[t].copies
        BY <1>1, <2>2, <3>2, EmplaceTableDoes
      <4> QED
        BY <1>2, <2>1, <4>1
    <3> QED
      BY <3>1, <3>2
  <2> QED
    <3>1. call'[t] = Null /\ \A s \in Thread : s # t => call'[s] = call[s]
      BY <1>1, EmplaceTableDoes
    <3>2. \A s \in Thread : Calling(s, "emplace")' =>
            \A u \in call'[s].key : u \in liveUavs' /\ call'[s].copies.uav[u] = uavHeap'[u]
      BY <1>2, <3>1 DEF IInv, UavsCurrent, Calling
    <3> QED
      BY <2>2, <3>2 DEF UavsCurrent
<1>7. ListsFit'
  <2>1. \A s \in Thread : list'[s].state = list[s].state /\ (s # t => list'[s] = list[s])
    <3>1. call[t].key \in SUBSET Uav /\ call[t].heap \in Table
      BY <1>1, EmplaceTableDoes
    <3> QED
      BY <1>1, <3>1, Binds
  <2>2. call'[t] = Null /\ call[t] # Null /\ \A s \in Thread : s # t => call'[s] = call[s]
    BY <1>1, EmplaceTableDoes
  <2>3. list[t].state = "open"
    BY <1>2, <2>2 DEF IInv, ListsFit, Calling
  <2> QED
    BY <2>1, <2>2, <2>3 DEF IInv, ListsFit, Calling
<1> QED
  BY <1>4, <1>5, <1>6, <1>7 DEF IInv


LEMMA CreateShaderResourceDoes ==
  ASSUME TypeOK, NEW t \in Thread, NEW v \in View, CreateShaderResource(t, v)
  PROVE  /\ srvHeap' \in [View -> Version] /\ \A w \in View : w # v => srvHeap'[w] = srvHeap[w]
         /\ call' \in [Thread -> Call \cup {Null}]
         /\ \A s \in Thread : s # t => call'[s] = call[s]
         /\ call[t] = Null /\ call'[t] # Null /\ call'[t].op = "default" /\ call'[t].view = v
<1>1. srvHeap \in [View -> Version] /\ srvHeap[v] < MaxViews /\ srvHeap' = [srvHeap EXCEPT ![v] = srvHeap[v] + 1]
  BY DEF TypeOK, CreateShaderResource
<1>2. srvHeap[v] + 1 \in Version
  BY <1>1, BoundAssumption DEF Version
<1>3. PICK e \in Call : e = [op |-> "default", view |-> v]
  BY DEF Call
<1>4. call[t] = Null /\ call' = [call EXCEPT ![t] = e] /\ e # Null
  BY <1>3, NullAssumption DEF CreateShaderResource
<1>5. e.op = "default" /\ e.view = v
  BY <1>3
<1> QED
  BY <1>1, <1>2, <1>4, <1>5, ListTypes

LEMMA CreateShaderResourceStep ==
  ASSUME IInv, NEW t \in Thread, NEW v \in View, CreateShaderResource(t, v)
  PROVE  IInv'
<1>1. TypeOK /\ UNCHANGED <<uavHeap, liveUavs, default, cache, list, gpu, due>>
  BY DEF IInv, CreateShaderResource
<1>2. TypeOK'
  BY <1>1, CreateShaderResourceDoes DEF TypeOK
<1>3. /\ \A w \in View : w # v => srvHeap'[w] = srvHeap[w]
      /\ \A s \in Thread : s # t => call'[s] = call[s]
      /\ call[t] = Null /\ call'[t] # Null /\ call'[t].op = "default" /\ call'[t].view = v
  BY <1>1, CreateShaderResourceDoes
<1>4. DefaultCurrent'
  BY <1>1, <1>3 DEF IInv, DefaultCurrent, Calling
<1>5. UavsCurrent'
  BY <1>1, <1>3 DEF IInv, UavsCurrent, Calling
<1>6. ListsFit'
  BY <1>1, <1>3 DEF IInv, ListsFit, Calling
<1> QED
  BY <1>2, <1>4, <1>5, <1>6 DEF IInv

LEMMA WriteDefaultTableDoes ==
  ASSUME TypeOK, NEW t \in Thread, WriteDefaultTable(t)
  PROVE  /\ call[t] # Null /\ call[t].op = "default" /\ call[t].view \in View
         /\ default' \in [View -> Version] /\ default'[call[t].view] = srvHeap[call[t].view]
         /\ \A w \in View : w # call[t].view => default'[w] = default[w]
         /\ call' \in [Thread -> Call \cup {Null}]
         /\ \A s \in Thread : s # t => call'[s] = call[s]
         /\ call'[t] # Null /\ call'[t].op = "copies" /\ call'[t].view = call[t].view
<1>1. call[t] # Null /\ call[t].op = "default"
  BY DEF WriteDefaultTable
<1>2. PICK v \in View : v = call[t].view
  BY <1>1, Calls
<1>3. srvHeap \in [View -> Version] /\ default \in [View -> Version] /\ default' = [default EXCEPT ![v] = srvHeap[v]]
  BY <1>2 DEF TypeOK, WriteDefaultTable
<1>4. PICK e \in Call : e = [op |-> "copies", view |-> v]
  BY DEF Call
<1>5. call' = [call EXCEPT ![t] = e] /\ e # Null
  BY <1>2, <1>4, NullAssumption DEF WriteDefaultTable
<1>6. e.op = "copies" /\ e.view = v
  BY <1>4
<1> QED
  BY <1>1, <1>2, <1>3, <1>5, <1>6, ListTypes

LEMMA WriteDefaultTableStep ==
  ASSUME IInv, NEW t \in Thread, WriteDefaultTable(t)
  PROVE  IInv'
<1>1. TypeOK /\ UNCHANGED <<srvHeap, uavHeap, liveUavs, cache, list, gpu, due>>
  BY DEF IInv, WriteDefaultTable
<1>2. TypeOK'
  BY <1>1, WriteDefaultTableDoes DEF TypeOK
<1>3. /\ call[t] # Null /\ call[t].op = "default"
      /\ default'[call[t].view] = srvHeap[call[t].view]
      /\ \A w \in View : w # call[t].view => default'[w] = default[w]
      /\ \A s \in Thread : s # t => call'[s] = call[s]
      /\ call'[t] # Null /\ call'[t].op = "copies"
  BY <1>1, WriteDefaultTableDoes
<1>4. DefaultCurrent'
  BY <1>1, <1>3 DEF IInv, DefaultCurrent, Calling
<1>5. UavsCurrent'
  BY <1>1, <1>3 DEF IInv, UavsCurrent, Calling
<1>6. ListsFit'
  BY <1>1, <1>3 DEF IInv, ListsFit, Calling
<1> QED
  BY <1>2, <1>4, <1>5, <1>6 DEF IInv

LEMMA WriteCopiesDoes ==
  ASSUME TypeOK, NEW t \in Thread, WriteCopies(t)
  PROVE  /\ call[t] # Null /\ call[t].op = "copies" /\ call[t].view \in View
         /\ DOMAIN cache' = DOMAIN cache /\ cache' \in [DOMAIN cache -> Entry]
         /\ \A k \in DOMAIN cache :
              /\ cache'[k].heap = cache[k].heap /\ cache'[k].age = cache[k].age
              /\ cache'[k].copies.uav = cache[k].copies.uav
              /\ cache'[k].copies.srv[call[t].view] = srvHeap[call[t].view]
              /\ \A w \in View : w # call[t].view => cache'[k].copies.srv[w] = cache[k].copies.srv[w]
         /\ call' \in [Thread -> Call \cup {Null}] /\ call'[t] = Null
         /\ \A s \in Thread : s # t => call'[s] = call[s]
<1>1. call[t] # Null /\ call[t].op = "copies"
  BY DEF WriteCopies
<1>2. PICK v \in View : v = call[t].view
  BY <1>1, Calls
<1>3. PICK n \in Version : n = srvHeap[v]
  BY DEF TypeOK
<1>4. cache' = [k \in DOMAIN cache |-> [cache[k] EXCEPT !.copies.srv[v] = n]]
  BY <1>2, <1>3 DEF WriteCopies
<1>5. ASSUME NEW k \in DOMAIN cache
      PROVE  /\ cache'[k] \in Entry
             /\ cache'[k].heap = cache[k].heap /\ cache'[k].age = cache[k].age
             /\ cache'[k].copies.uav = cache[k].copies.uav
             /\ cache'[k].copies.srv[v] = n
             /\ \A w \in View : w # v => cache'[k].copies.srv[w] = cache[k].copies.srv[w]
  <2>1. PICK h \in Heap, a \in 0 .. MaxUnused + 1, s \in [View -> Version], u \in [Uav -> Version] :
          cache[k] = [heap |-> h, age |-> a, copies |-> [srv |-> s, uav |-> u]]
    BY Entries DEF Copies
  <2>2. PICK q \in [View -> Version] : q = [s EXCEPT ![v] = n]
    OBVIOUS
  <2>3. cache'[k] = [cache[k] EXCEPT !.copies.srv[v] = n]
    BY <1>4
  <2>4. cache'[k] = [heap |-> h, age |-> a, copies |-> [srv |-> q, uav |-> u]]
    BY <2>1, <2>2, <2>3
  <2>5. [srv |-> q, uav |-> u] \in Copies
    BY DEF Copies
  <2>6. cache'[k] \in Entry
    BY <2>4, <2>5 DEF Entry
  <2>7. q[v] = n /\ \A w \in View : w # v => q[w] = s[w]
    BY <2>2
  <2> QED
    BY <2>1, <2>4, <2>6, <2>7
<1>6. call' = [call EXCEPT ![t] = Null]
  BY DEF WriteCopies
<1>7. DOMAIN cache' = DOMAIN cache /\ cache' \in [DOMAIN cache -> Entry]
  BY <1>4, <1>5
<1> QED
  BY <1>1, <1>2, <1>3, <1>5, <1>6, <1>7, ListTypes

LEMMA WriteCopiesStep ==
  ASSUME IInv, NEW t \in Thread, WriteCopies(t)
  PROVE  IInv'
<1>1. TypeOK /\ UNCHANGED <<srvHeap, uavHeap, liveUavs, default, list, gpu, due>>
  BY DEF IInv, WriteCopies
<1>2. TypeOK'
  BY <1>1, WriteCopiesDoes, ListTypes DEF TypeOK, Entry
<1>3. /\ call[t] # Null /\ call[t].op = "copies" /\ call'[t] = Null
      /\ \A s \in Thread : s # t => call'[s] = call[s]
      /\ DOMAIN cache' = DOMAIN cache
      /\ \A k \in DOMAIN cache : cache'[k].copies.uav = cache[k].copies.uav
  BY <1>1, WriteCopiesDoes
<1>4. DefaultCurrent'
  BY <1>1, <1>3 DEF IInv, DefaultCurrent, Calling
<1>5. UavsCurrent'
  BY <1>1, <1>3 DEF IInv, UavsCurrent, Calling
<1>6. ListsFit'
  BY <1>1, <1>3 DEF IInv, ListsFit, Calling
<1> QED
  BY <1>2, <1>4, <1>5, <1>6 DEF IInv


LEMMA CreateUnorderedAccessStep ==
  ASSUME IInv, NEW u \in Uav, CreateUnorderedAccess(u)
  PROVE  IInv'
<1>1. TypeOK /\ u \notin liveUavs /\ liveUavs' = liveUavs \cup {u}
      /\ UNCHANGED <<srvHeap, default, cache, list, call, gpu, due>>
  BY DEF IInv, CreateUnorderedAccess
<1>2. uavHeap' \in [Uav -> Version] /\ \A w \in Uav : w # u => uavHeap'[w] = uavHeap[w]
  <2>1. uavHeap \in [Uav -> Version] /\ uavHeap[u] < MaxVersion /\ uavHeap' = [uavHeap EXCEPT ![u] = uavHeap[u] + 1]
    BY DEF IInv, TypeOK, CreateUnorderedAccess
  <2>2. uavHeap[u] + 1 \in Version
    BY <2>1, BoundAssumption DEF Version
  <2> QED
    BY <2>1, <2>2
<1>3. TypeOK'
  BY <1>1, <1>2 DEF TypeOK
<1>4. DefaultCurrent' /\ ListsFit'
  BY <1>1 DEF IInv, DefaultCurrent, ListsFit, Calling
<1>5. UavsCurrent'
  <2>1. ASSUME NEW k \in DOMAIN cache', NEW w \in k
        PROVE  w \in liveUavs' /\ cache'[k].copies.uav[w] = uavHeap'[w]
    <3>1. k \in DOMAIN cache /\ w \in Uav /\ w \in liveUavs /\ cache[k].copies.uav[w] = uavHeap[w]
      BY <1>1, Entries DEF IInv, UavsCurrent
    <3> QED
      BY <1>1, <1>2, <3>1
  <2>2. ASSUME NEW t \in Thread, Calling(t, "emplace")', NEW w \in call'[t].key
        PROVE  w \in liveUavs' /\ call'[t].copies.uav[w] = uavHeap'[w]
    <3>1. call[t] # Null /\ call[t].op = "emplace" /\ w \in call[t].key
      BY <1>1, <2>2 DEF Calling
    <3>2. w \in Uav
      BY <1>1, <3>1, Calls DEF Uav
    <3>3. w \in liveUavs /\ call[t].copies.uav[w] = uavHeap[w]
      BY <3>1 DEF IInv, UavsCurrent, Calling
    <3> QED
      BY <1>1, <1>2, <3>2, <3>3
  <2> QED
    BY <2>1, <2>2 DEF UavsCurrent
<1> QED
  BY <1>3, <1>4, <1>5 DEF IInv

LEMMA DestroyUnorderedAccessDoes ==
  ASSUME TypeOK, NEW u \in Uav, DestroyUnorderedAccess(u)
  PROVE  /\ \A k \in DOMAIN cache : k \in DOMAIN cache' \/ u \in k
         /\ \A k \in DOMAIN cache' : k \in DOMAIN cache /\ u \notin k /\ cache'[k] = cache[k]
         /\ DOMAIN cache' \subseteq Key /\ cache' \in [DOMAIN cache' -> Entry]
         /\ \A t \in Thread : Calling(t, "emplace") => u \notin call[t].key
         /\ \A t \in Thread : u \notin list[t].uavs
         /\ \A i \in 1 .. Len(gpu) : u \notin gpu[i].uavs
<1>1. cache' = [k \in (DOMAIN cache \ {k \in Key : u \in k}) |-> cache[k]]
  BY DEF DestroyUnorderedAccess, DestroyAllUAVDescriptorHeapCopies, Restrict
<1>2. u \notin UavsInUse
  BY DEF DestroyUnorderedAccess
<1>3. ASSUME NEW t \in Thread, Calling(t, "emplace") PROVE u \notin call[t].key
  <2>1. t \in {s \in Thread : call[s] # Null /\ call[s].op = "emplace"}
    BY <1>3 DEF Calling
  <2> DEFINE Makers == {s \in Thread : call[s] # Null /\ call[s].op = "emplace"}
             MadeFor == {call[s].key : s \in Makers}
  <2>2. u \notin UNION MadeFor
    BY <1>2 DEF UavsInUse
  <2>3. call[t].key \in MadeFor
    BY <2>1
  <2> HIDE DEF MadeFor
  <2> QED
    BY <2>2, <2>3
<1>4. ASSUME NEW w \in Work PROVE u \notin w.uavs
  BY <1>2 DEF UavsInUse
<1>5. ASSUME NEW t \in Thread PROVE u \notin list[t].uavs
  <2>1. [tables |-> list[t].tables, uavs |-> list[t].uavs] \in Work
    BY DEF Work
  <2> QED
    BY <1>4, <2>1
<1>6. ASSUME NEW i \in 1 .. Len(gpu) PROVE u \notin gpu[i].uavs
  <2>1. gpu[i] \in Work
    <3>1. DOMAIN gpu = 1 .. Len(gpu)
      BY ListTypes, LenProperties
    <3> QED
      BY <3>1 DEF Work, Range
  <2> QED
    BY <1>4, <2>1
<1> QED
  BY <1>1, <1>3, <1>5, <1>6, ListTypes

LEMMA DestroyUnorderedAccessStep ==
  ASSUME IInv, NEW u \in Uav, DestroyUnorderedAccess(u)
  PROVE  IInv'
<1>1. TypeOK /\ liveUavs' = liveUavs \ {u} /\ UNCHANGED <<srvHeap, uavHeap, default, list, call, gpu, due>>
  BY DEF IInv, DestroyUnorderedAccess
<1>2. /\ \A k \in DOMAIN cache' : k \in DOMAIN cache /\ u \notin k /\ cache'[k] = cache[k]
      /\ DOMAIN cache' \subseteq Key /\ cache' \in [DOMAIN cache' -> Entry]
      /\ \A t \in Thread : Calling(t, "emplace") => u \notin call[t].key
  BY <1>1, DestroyUnorderedAccessDoes
<1>3. TypeOK'
  BY <1>1, <1>2 DEF TypeOK, Entry
<1>4. DefaultCurrent' /\ ListsFit'
  BY <1>1 DEF IInv, DefaultCurrent, ListsFit, Calling
<1>5. UavsCurrent'
  BY <1>1, <1>2 DEF IInv, UavsCurrent, Calling
<1> QED
  BY <1>3, <1>4, <1>5 DEF IInv

LEMMA CollectGarbageDoes ==
  ASSUME TypeOK, CollectGarbage
  PROVE  /\ \A k \in DOMAIN cache : k \in DOMAIN cache' \/ cache[k].age > MaxUnused
         /\ \A k \in DOMAIN cache' : /\ k \in DOMAIN cache /\ cache'[k].age = cache[k].age + 1
                                     /\ cache'[k].heap = cache[k].heap /\ cache'[k].copies = cache[k].copies
         /\ DOMAIN cache' \subseteq Key /\ cache' \in [DOMAIN cache' -> Entry]
<1>1. cache' = [k \in {j \in DOMAIN cache : ~TooOld(j)} |-> [cache[k] EXCEPT !.age = @ + 1]]
  BY DEF CollectGarbage
<1>2. ASSUME NEW k \in DOMAIN cache, ~TooOld(k)
      PROVE  /\ k \in DOMAIN cache' /\ cache'[k] \in Entry
             /\ cache'[k].age = cache[k].age + 1
             /\ cache'[k].heap = cache[k].heap /\ cache'[k].copies = cache[k].copies
  <2>1. PICK h \in Heap, a \in 0 .. MaxUnused + 1, c \in Copies : cache[k] = [heap |-> h, age |-> a, copies |-> c]
    BY Entries
  <2>2. a + 1 \in 0 .. MaxUnused + 1
    BY <1>2, <2>1, BoundAssumption DEF TooOld
  <2>3. k \in DOMAIN cache' /\ cache'[k] = [cache[k] EXCEPT !.age = @ + 1]
    BY <1>1, <1>2
  <2>4. cache'[k] = [heap |-> h, age |-> a + 1, copies |-> c]
    BY <2>1, <2>3
  <2>5. cache'[k] \in Entry
    BY <2>2, <2>4 DEF Entry
  <2> QED
    BY <2>1, <2>3, <2>4, <2>5
<1>3. DOMAIN cache' = {j \in DOMAIN cache : ~TooOld(j)}
  BY <1>1
<1>4. \A k \in DOMAIN cache' : k \in DOMAIN cache /\ ~TooOld(k)
  BY <1>3
<1>5. cache' \in [DOMAIN cache' -> Entry]
  BY <1>1, <1>2, <1>3
<1> QED
  BY <1>2, <1>4, <1>5, ListTypes DEF TooOld

LEMMA CollectGarbageStep ==
  ASSUME IInv, CollectGarbage
  PROVE  IInv'
<1>1. TypeOK /\ due' = FALSE /\ UNCHANGED <<srvHeap, uavHeap, liveUavs, default, list, call, gpu>>
  BY DEF IInv, CollectGarbage
<1>2. TypeOK'
  BY <1>1, CollectGarbageDoes DEF TypeOK, Entry
<1>3. DefaultCurrent' /\ ListsFit'
  BY <1>1 DEF IInv, DefaultCurrent, ListsFit, Calling
<1>4. UavsCurrent'
  BY <1>1, CollectGarbageDoes DEF IInv, UavsCurrent, Calling
<1> QED
  BY <1>2, <1>3, <1>4 DEF IInv

(* Every step keeps what holds of any number of threads. *)
LEMMA StepKeepsIInv ==
  ASSUME IInv, [Next]_vars
  PROVE  IInv'
<1>1. CASE UNCHANGED vars
  <2>1. TypeOK'
    BY <1>1 DEF IInv, TypeOK, vars
  <2>2. DefaultCurrent' /\ UavsCurrent' /\ ListsFit'
    BY <1>1 DEF IInv, DefaultCurrent, UavsCurrent, ListsFit, Calling, vars
  <2> QED
    BY <2>1, <2>2 DEF IInv
<1>2. CASE Next
  BY <1>2, ListSteps, BindCachedStep, MakeTableStep, EmplaceTableStep, CreateShaderResourceStep, WriteDefaultTableStep,
     WriteCopiesStep, CreateUnorderedAccessStep, DestroyUnorderedAccessStep, GpuStep, CollectGarbageStep DEF Next
<1> QED
  BY <1>1, <1>2

(* Whatever the threads do: the types are right, the default table shows   *)
(* every shader resource that WriteAllSRVDescriptorHeapCopies has got to   *)
(* it, and no table, cached or about to be, shows a UAV that is gone or    *)
(* one that had the slot before (DestroyAllUAVDescriptorHeapCopies).       *)
THEOREM InductiveInvariant == Spec => []IInv
<1>1. Init => IInv
  BY InitTypes
<1>2. IInv /\ [Next]_vars => IInv'
  BY StepKeepsIInv
<1> QED
  BY <1>1, <1>2, PTL DEF Spec

(* The types of the tables' state. *)
THEOREM TypeCorrect == Spec => []TypeOK
<1>1. IInv => TypeOK
  BY DEF IInv
<1> QED
  BY <1>1, InductiveInvariant, PTL


-----------------------------------------------------------------------------
(* One thread: the tables in use stay in the cache.                        *)

(* The parts that a step which leaves cache and gpu alone must look after. *)
LEMMA KeepsWorkPins ==
  ASSUME WorkPins, UNCHANGED <<gpu, due>>,
         \A k \in DOMAIN cache : k \in DOMAIN cache' /\ cache'[k].heap = cache[k].heap /\ cache'[k].age = cache[k].age
  PROVE  WorkPins'
BY DEF WorkPins, Due

LEMMA OneGetCommandBuffer ==
  ASSUME IInv, OneThread, OneInv, NEW t \in Thread, GetCommandBuffer(t)
  PROVE  OneInv'
<1>1. TypeOK /\ UNCHANGED <<srvHeap, cache, call, gpu, due>>
  BY DEF IInv, GetCommandBuffer
<1>2. \A s \in Thread : list'[s].tables = list[s].tables /\ list'[s].uavs = list[s].uavs
  BY <1>1, GetCommandBufferDoes
<1>3. Emplaced' /\ SrvsCurrent'
  BY <1>1 DEF OneInv, Emplaced, SrvsCurrent, BeingCreated, Calling
<1>4. ListsPin'
  BY <1>1, <1>2 DEF OneInv, ListsPin
<1>5. WorkPins'
  BY <1>1, KeepsWorkPins DEF OneInv
<1>6. Lag'
  <2>1. Busy \subseteq {t}
    BY DEF OneThread, Busy
  <2>2. Cardinality(Busy) \in Nat
    BY <2>1, FS_Singleton, FS_Subset, FS_CardinalityType
  <2>3. Len(gpu) \in Nat /\ Len(gpu) + Cardinality(Busy) < FramesInFlight
    BY <1>1, ListTypes, LenProperties DEF GetCommandBuffer
  <2>4. Len(gpu) < FramesInFlight
    BY <2>2, <2>3, BoundAssumption
  <2> QED
    BY <1>1, <2>3, <2>4, BoundAssumption DEF Lag
<1> QED
  BY <1>3, <1>4, <1>5, <1>6 DEF OneInv

LEMMA OneBindDefault ==
  ASSUME IInv, OneThread, OneInv, NEW t \in Thread, BindDefault(t)
  PROVE  OneInv'
<1>1. TypeOK /\ UNCHANGED <<srvHeap, cache, call, gpu, due>> /\ Bind(t, Default, {})
  BY DEF IInv, BindDefault
<1>2. Default \in Table /\ {} \in SUBSET Uav
  BY DEF Table
<1>3. /\ \A s \in Thread : list'[s].state = list[s].state
      /\ \A s \in Thread : s # t => list'[s] = list[s]
      /\ list'[t].tables = list[t].tables \cup {Default} /\ list'[t].uavs = list[t].uavs \cup {}
  BY <1>1, <1>2, Binds
<1>4. Emplaced' /\ SrvsCurrent'
  BY <1>1 DEF OneInv, Emplaced, SrvsCurrent, BeingCreated, Calling
<1>5. ListsPin'
  BY <1>1, <1>3 DEF OneInv, ListsPin
<1>6. WorkPins'
  BY <1>1, KeepsWorkPins DEF OneInv
<1>7. Lag'
  BY <1>1, <1>3 DEF OneInv, Lag
<1> QED
  BY <1>4, <1>5, <1>6, <1>7 DEF OneInv

LEMMA OneBindCached ==
  ASSUME IInv, OneThread, OneInv, NEW t \in Thread, NEW k \in Key, BindCached(t, k)
  PROVE  OneInv'
<1>1. TypeOK /\ UNCHANGED <<srvHeap, call, gpu, due>> /\ Bind(t, cache[k].heap, k)
  BY DEF IInv, BindCached
<1>2. /\ k \in DOMAIN cache /\ k \in SUBSET Uav /\ cache[k].heap \in Table
      /\ DOMAIN cache' = DOMAIN cache
      /\ \A j \in DOMAIN cache : j # k => cache'[j] = cache[j]
      /\ cache'[k].age = 0 /\ cache'[k].heap = cache[k].heap /\ cache'[k].copies = cache[k].copies
  BY <1>1, BindCachedDoes
<1>3. /\ \A s \in Thread : list'[s].state = list[s].state
      /\ \A s \in Thread : s # t => list'[s] = list[s]
      /\ list'[t].tables = list[t].tables \cup {cache[k].heap} /\ list'[t].uavs = list[t].uavs \cup k
  BY <1>1, <1>2, Binds
<1>4. Emplaced'
  BY <1>1, <1>2 DEF OneInv, Emplaced, Calling
<1>5. SrvsCurrent'
  BY <1>1, <1>2 DEF OneInv, SrvsCurrent, BeingCreated
<1>6. ListsPin'
  <2>1. ASSUME NEW s \in Thread, NEW h \in list'[s].tables \ {Default}
        PROVE  \E j \in DOMAIN cache' : cache'[j].heap = h /\ j \subseteq list'[s].uavs /\ cache'[j].age = 0
    <3>1. CASE h \in list[s].tables
      <4>1. PICK j \in DOMAIN cache : cache[j].heap = h /\ j \subseteq list[s].uavs /\ cache[j].age = 0
        BY <2>1, <3>1 DEF OneInv, ListsPin
      <4>2. cache'[j].heap = h /\ cache'[j].age = 0
        BY <1>2, <4>1
      <4>3. j \subseteq list'[s].uavs
        BY <1>3, <4>1
      <4> QED
        BY <1>2, <4>1, <4>2, <4>3
    <3>2. CASE h \notin list[s].tables
      BY <1>2, <1>3, <2>1, <3>2
    <3> QED
      BY <3>1, <3>2
  <2> QED
    BY <2>1 DEF ListsPin
<1>7. WorkPins'
  <2>1. ASSUME NEW i \in 1 .. Len(gpu), NEW h \in gpu[i].tables \ {Default}
        PROVE  \E j \in DOMAIN cache' : cache'[j].heap = h /\ j \subseteq gpu[i].uavs /\ cache'[j].age + Due <= Len(gpu) - i + 1
    <3>1. PICK j \in DOMAIN cache : cache[j].heap = h /\ j \subseteq gpu[i].uavs /\ cache[j].age + Due <= Len(gpu) - i + 1
      BY DEF OneInv, WorkPins
    <3>2. cache'[j].heap = h /\ (cache'[j].age = 0 \/ cache'[j].age = cache[j].age)
      BY <1>2, <3>1
    <3>3. cache[j].age \in Nat /\ Len(gpu) \in Nat /\ Due \in {0, 1}
      BY <1>1, Entries, ListTypes, LenProperties, BoundAssumption DEF Due
    <3>4. cache'[j].age + Due <= Len(gpu) - i + 1
      BY <3>1, <3>2, <3>3
    <3> QED
      BY <1>2, <3>1, <3>2, <3>4
  <2>2. Due' = Due
    BY <1>1 DEF Due
  <2> QED
    BY <1>1, <2>1, <2>2 DEF WorkPins
<1>8. Lag'
  BY <1>1, <1>3 DEF OneInv, Lag
<1> QED
  BY <1>4, <1>5, <1>6, <1>7, <1>8 DEF OneInv

LEMMA OneMakeTable ==
  ASSUME IInv, OneThread, OneInv, NEW t \in Thread, NEW k \in Key, MakeTable(t, k)
  PROVE  OneInv'
<1>1. TypeOK /\ UNCHANGED <<srvHeap, cache, list, gpu, due>> /\ call[t] = Null /\ k \notin DOMAIN cache
  BY DEF IInv, MakeTable, Recording
<1>2. call'[t] # Null /\ call'[t].op = "emplace" /\ call'[t].key = k /\ call'[t].copies.srv = srvHeap
  BY <1>1, MakeTableDoes
<1>3. \A s \in Thread : s = t
  BY DEF OneThread
<1>4. Emplaced'
  BY <1>1, <1>2, <1>3 DEF Emplaced, Calling
<1>5. SrvsCurrent'
  BY <1>1, <1>3 DEF OneInv, SrvsCurrent, BeingCreated
<1>6. ListsPin' /\ Lag'
  BY <1>1 DEF OneInv, ListsPin, Lag
<1>7. WorkPins'
  BY <1>1, KeepsWorkPins DEF OneInv
<1> QED
  BY <1>4, <1>5, <1>6, <1>7 DEF OneInv

LEMMA OneEmplaceTable ==
  ASSUME IInv, OneThread, OneInv, NEW t \in Thread, EmplaceTable(t)
  PROVE  OneInv'
<1>1. TypeOK /\ UNCHANGED <<srvHeap, gpu, due>> /\ Bind(t, call[t].heap, call[t].key) /\ call[t].op = "emplace"
  BY DEF IInv, EmplaceTable
<1>2. /\ call[t].key \in SUBSET Uav /\ call[t].heap \in Table /\ call[t] # Null
      /\ DOMAIN cache' = DOMAIN cache \cup {call[t].key}
      /\ \A k \in DOMAIN cache : cache'[k] = cache[k]
      /\ call[t].key \notin DOMAIN cache =>
           /\ cache'[call[t].key].heap = call[t].heap /\ cache'[call[t].key].age = 0
           /\ cache'[call[t].key].copies = call[t].copies
      /\ call'[t] = Null
  BY <1>1, EmplaceTableDoes
<1>3. call[t].key \notin DOMAIN cache /\ call[t].copies.srv = srvHeap
  BY <1>1, <1>2 DEF OneInv, Emplaced, Calling
<1>4. \A s \in Thread : s = t
  BY DEF OneThread
<1>5. /\ list'[t].state = list[t].state
      /\ list'[t].tables = list[t].tables \cup {call[t].heap} /\ list'[t].uavs = list[t].uavs \cup call[t].key
  BY <1>1, <1>2, Binds
<1>6. Emplaced'
  BY <1>2, <1>4 DEF Emplaced, Calling
<1>7. SrvsCurrent'
  <2>1. ASSUME NEW k \in DOMAIN cache', NEW v \in View PROVE cache'[k].copies.srv[v] = srvHeap[v]
    <3>1. CASE k \in DOMAIN cache
      <4>1. ~BeingCreated(v)
        BY <1>1, <1>4 DEF BeingCreated
      <4> QED
        BY <1>2, <3>1, <4>1 DEF OneInv, SrvsCurrent
    <3>2. CASE k \notin DOMAIN cache
      BY <1>2, <1>3, <3>2
    <3> QED
      BY <3>1, <3>2
  <2> QED
    BY <1>1, <2>1 DEF SrvsCurrent
<1>8. ListsPin'
  <2>1. ASSUME NEW h \in list'[t].tables \ {Default}
        PROVE  \E j \in DOMAIN cache' : cache'[j].heap = h /\ j \subseteq list'[t].uavs /\ cache'[j].age = 0
    <3>1. CASE h \in list[t].tables
      <4>1. PICK j \in DOMAIN cache : cache[j].heap = h /\ j \subseteq list[t].uavs /\ cache[j].age = 0
        BY <2>1, <3>1 DEF OneInv, ListsPin
      <4> QED
        BY <1>2, <1>5, <4>1
    <3>2. CASE h \notin list[t].tables
      <4>1. h = call[t].heap
        BY <1>5, <2>1, <3>2
      <4> QED
        BY <1>2, <1>3, <1>5, <4>1
    <3> QED
      BY <3>1, <3>2
  <2> QED
    BY <1>4, <2>1 DEF ListsPin
<1>9. WorkPins'
  BY <1>1, <1>2, KeepsWorkPins DEF OneInv
<1>10. Lag'
  BY <1>1, <1>4, <1>5 DEF OneInv, Lag
<1> QED
  BY <1>6, <1>7, <1>8, <1>9, <1>10 DEF OneInv


LEMMA OneComplete ==
  ASSUME IInv, OneThread, OneInv, NEW t \in Thread, Complete(t)
  PROVE  OneInv'
<1>1. TypeOK /\ UNCHANGED <<srvHeap, cache, call, gpu, due>> /\ list[t].state = "open"
  BY DEF IInv, Complete, Recording
<1>2. \A s \in Thread : s = t
  BY DEF OneThread
<1>3. list'[t].tables = list[t].tables /\ list'[t].uavs = list[t].uavs
  BY <1>1, CompleteDoes
<1>4. Emplaced' /\ SrvsCurrent'
  BY <1>1 DEF OneInv, Emplaced, SrvsCurrent, BeingCreated, Calling
<1>5. ListsPin'
  BY <1>1, <1>2, <1>3 DEF OneInv, ListsPin
<1>6. WorkPins'
  BY <1>1, KeepsWorkPins DEF OneInv
<1>7. Lag'
  BY <1>1, <1>2 DEF OneInv, Lag
<1> QED
  BY <1>4, <1>5, <1>6, <1>7 DEF OneInv

LEMMA OneSubmitQueue ==
  ASSUME IInv, OneThread, OneInv, NEW t \in Thread, SubmitQueue(t)
  PROVE  OneInv'
<1>1. TypeOK /\ UNCHANGED <<srvHeap, cache, call>> /\ list[t].state = "completed" /\ due' = TRUE
  BY DEF IInv, SubmitQueue
<1>2. \A s \in Thread : s = t
  BY DEF OneThread
<1>3. list'[t].state = "closed" /\ list'[t].tables = {}
  BY <1>1, SubmitQueueDoes
<1>4. PICK e \in Submission : e = [tables |-> list[t].tables, uavs |-> list[t].uavs]
  BY <1>1, SubmitQueueDoes
<1>5. gpu' = Append(gpu, e)
  BY <1>4 DEF SubmitQueue
<1>6. /\ Len(gpu) \in Nat /\ Len(gpu') = Len(gpu) + 1
      /\ \A i \in 1 .. Len(gpu') : \/ i \in 1 .. Len(gpu) /\ gpu'[i] = gpu[i]
                                   \/ i = Len(gpu) + 1 /\ gpu'[i] = e
  BY <1>1, <1>5, ListTypes, AppendElements
<1>7. Emplaced' /\ SrvsCurrent'
  BY <1>1 DEF OneInv, Emplaced, SrvsCurrent, BeingCreated, Calling
<1>8. ListsPin'
  BY <1>2, <1>3 DEF ListsPin
<1>9. WorkPins'
  <2>1. Due' = 1 /\ Due \in {0, 1}
    BY <1>1 DEF Due
  <2>2. ASSUME NEW i \in 1 .. Len(gpu'), NEW h \in gpu'[i].tables \ {Default}
        PROVE  \E j \in DOMAIN cache' :
                 cache'[j].heap = h /\ j \subseteq gpu'[i].uavs /\ cache'[j].age + Due' <= Len(gpu') - i + 1
    <3>1. CASE i \in 1 .. Len(gpu) /\ gpu'[i] = gpu[i]
      <4>1. PICK j \in DOMAIN cache :
              cache[j].heap = h /\ j \subseteq gpu[i].uavs /\ cache[j].age + Due <= Len(gpu) - i + 1
        BY <2>2, <3>1 DEF OneInv, WorkPins
      <4>2. cache[j].age \in Nat
        BY <1>1, Entries, BoundAssumption
      <4>3. cache[j].age + 1 <= Len(gpu') - i + 1
        BY <1>6, <2>1, <4>1, <4>2
      <4> QED
        BY <1>1, <2>1, <3>1, <4>1, <4>3
    <3>2. CASE i = Len(gpu) + 1 /\ gpu'[i] = e
      <4>1. h \in list[t].tables \ {Default} /\ gpu'[i].uavs = list[t].uavs
        BY <1>4, <2>2, <3>2
      <4>2. PICK j \in DOMAIN cache : cache[j].heap = h /\ j \subseteq list[t].uavs /\ cache[j].age = 0
        BY <4>1 DEF OneInv, ListsPin
      <4>3. 0 + 1 <= Len(gpu') - i + 1
        BY <1>6, <3>2
      <4> QED
        BY <1>1, <2>1, <4>1, <4>2, <4>3
    <3> QED
      BY <1>6, <3>1, <3>2
  <2> QED
    BY <2>2 DEF WorkPins
<1>10. Lag'
  <2>1. Len(gpu) < FramesInFlight
    BY <1>1 DEF OneInv, Lag
  <2>2. Len(gpu') <= FramesInFlight
    BY <1>6, <2>1, BoundAssumption
  <2> QED
    BY <1>2, <1>3, <2>2 DEF Lag
<1> QED
  BY <1>7, <1>8, <1>9, <1>10 DEF OneInv

LEMMA OneGpuComplete ==
  ASSUME IInv, OneInv, GpuComplete
  PROVE  OneInv'
<1>1. TypeOK /\ UNCHANGED <<srvHeap, cache, list, call, due>>
  BY DEF IInv, GpuComplete
<1>2. /\ Len(gpu) \in Nat \ {0} /\ Len(gpu') = Len(gpu) - 1
      /\ \A i \in 1 .. Len(gpu') : i + 1 \in 1 .. Len(gpu) /\ gpu'[i] = gpu[i + 1]
  BY <1>1, ListTypes, TailElements DEF GpuComplete
<1>3. Emplaced' /\ SrvsCurrent' /\ ListsPin'
  BY <1>1 DEF OneInv, Emplaced, SrvsCurrent, ListsPin, BeingCreated, Calling
<1>4. WorkPins'
  <2>1. Due' = Due
    BY <1>1 DEF Due
  <2>2. ASSUME NEW i \in 1 .. Len(gpu'), NEW h \in gpu'[i].tables \ {Default}
        PROVE  \E j \in DOMAIN cache :
                 cache[j].heap = h /\ j \subseteq gpu'[i].uavs /\ cache[j].age + Due <= Len(gpu') - i + 1
    <3>1. PICK l \in 1 .. Len(gpu) : l = i + 1 /\ gpu'[i] = gpu[l]
      BY <1>2
    <3>2. Len(gpu) - l + 1 = Len(gpu') - i + 1
      BY <1>2, <3>1
    <3> QED
      BY <2>2, <3>1, <3>2 DEF OneInv, WorkPins
  <2> QED
    BY <1>1, <2>1, <2>2 DEF WorkPins
<1>5. Lag'
  BY <1>1, <1>2, BoundAssumption DEF OneInv, Lag
<1> QED
  BY <1>3, <1>4, <1>5 DEF OneInv

LEMMA OneCreateShaderResource ==
  ASSUME IInv, OneThread, OneInv, NEW t \in Thread, NEW v \in View, CreateShaderResource(t, v)
  PROVE  OneInv'
<1>1. TypeOK /\ UNCHANGED <<cache, list, gpu, due>>
  BY DEF IInv, CreateShaderResource
<1>2. /\ \A w \in View : w # v => srvHeap'[w] = srvHeap[w]
      /\ call[t] = Null /\ call'[t] # Null /\ call'[t].op = "default" /\ call'[t].view = v
  BY <1>1, CreateShaderResourceDoes
<1>3. \A s \in Thread : s = t
  BY DEF OneThread
<1>4. Emplaced'
  BY <1>2, <1>3 DEF Emplaced, Calling
<1>5. SrvsCurrent'
  <2>1. BeingCreated(v)'
    BY <1>2 DEF BeingCreated
  <2>2. \A w \in View : ~BeingCreated(w)
    BY <1>2, <1>3 DEF BeingCreated
  <2> QED
    BY <1>1, <1>2, <2>1, <2>2 DEF OneInv, SrvsCurrent
<1>6. ListsPin' /\ Lag'
  BY <1>1 DEF OneInv, ListsPin, Lag
<1>7. WorkPins'
  BY <1>1, KeepsWorkPins DEF OneInv
<1> QED
  BY <1>4, <1>5, <1>6, <1>7 DEF OneInv

LEMMA OneWriteDefaultTable ==
  ASSUME IInv, OneThread, OneInv, NEW t \in Thread, WriteDefaultTable(t)
  PROVE  OneInv'
<1>1. TypeOK /\ UNCHANGED <<srvHeap, cache, list, gpu, due>>
  BY DEF IInv, WriteDefaultTable
<1>2. /\ call[t] # Null /\ call[t].op = "default"
      /\ call'[t] # Null /\ call'[t].op = "copies" /\ call'[t].view = call[t].view
  BY <1>1, WriteDefaultTableDoes
<1>3. \A s \in Thread : s = t
  BY DEF OneThread
<1>4. Emplaced'
  BY <1>2, <1>3 DEF Emplaced, Calling
<1>5. SrvsCurrent'
  <2>1. ASSUME NEW v \in View, BeingCreated(v) PROVE BeingCreated(v)'
    BY <1>2, <1>3, <2>1 DEF BeingCreated
  <2> QED
    BY <1>1, <2>1 DEF OneInv, SrvsCurrent
<1>6. ListsPin' /\ Lag'
  BY <1>1 DEF OneInv, ListsPin, Lag
<1>7. WorkPins'
  BY <1>1, KeepsWorkPins DEF OneInv
<1> QED
  BY <1>4, <1>5, <1>6, <1>7 DEF OneInv

LEMMA OneWriteCopies ==
  ASSUME IInv, OneThread, OneInv, NEW t \in Thread, WriteCopies(t)
  PROVE  OneInv'
<1>1. TypeOK /\ UNCHANGED <<srvHeap, list, gpu, due>>
  BY DEF IInv, WriteCopies
<1>2. /\ call[t] # Null /\ call[t].op = "copies" /\ call'[t] = Null
      /\ DOMAIN cache' = DOMAIN cache
      /\ \A k \in DOMAIN cache :
           /\ cache'[k].heap = cache[k].heap /\ cache'[k].age = cache[k].age
           /\ cache'[k].copies.srv[call[t].view] = srvHeap[call[t].view]
           /\ \A w \in View : w # call[t].view => cache'[k].copies.srv[w] = cache[k].copies.srv[w]
  BY <1>1, WriteCopiesDoes
<1>3. \A s \in Thread : s = t
  BY DEF OneThread
<1>4. Emplaced'
  BY <1>2, <1>3 DEF Emplaced, Calling
<1>5. SrvsCurrent'
  <2>1. \A w \in View : w # call[t].view => ~BeingCreated(w)
    BY <1>3 DEF BeingCreated
  <2> QED
    BY <1>1, <1>2, <2>1 DEF OneInv, SrvsCurrent
<1>6. ListsPin' /\ Lag'
  BY <1>1, <1>2 DEF OneInv, ListsPin, Lag
<1>7. WorkPins'
  BY <1>1, <1>2, KeepsWorkPins DEF OneInv
<1> QED
  BY <1>4, <1>5, <1>6, <1>7 DEF OneInv

LEMMA OneCreateUnorderedAccess ==
  ASSUME OneInv, NEW u \in Uav, CreateUnorderedAccess(u)
  PROVE  OneInv'
<1>1. UNCHANGED <<srvHeap, cache, list, call, gpu, due>>
  BY DEF CreateUnorderedAccess
<1>2. Emplaced' /\ SrvsCurrent' /\ ListsPin' /\ Lag'
  BY <1>1 DEF OneInv, Emplaced, SrvsCurrent, ListsPin, Lag, BeingCreated, Calling
<1>3. WorkPins'
  BY <1>1, KeepsWorkPins DEF OneInv
<1> QED
  BY <1>2, <1>3 DEF OneInv

LEMMA OneDestroyUnorderedAccess ==
  ASSUME IInv, OneInv, NEW u \in Uav, DestroyUnorderedAccess(u)
  PROVE  OneInv'
<1>1. TypeOK /\ UNCHANGED <<srvHeap, list, call, gpu, due>>
  BY DEF IInv, DestroyUnorderedAccess
<1>2. /\ \A k \in DOMAIN cache : k \in DOMAIN cache' \/ u \in k
      /\ \A k \in DOMAIN cache' : k \in DOMAIN cache /\ cache'[k] = cache[k]
      /\ \A t \in Thread : u \notin list[t].uavs
      /\ \A i \in 1 .. Len(gpu) : u \notin gpu[i].uavs
  BY <1>1, DestroyUnorderedAccessDoes
<1>3. Emplaced' /\ SrvsCurrent' /\ Lag'
  BY <1>1, <1>2 DEF OneInv, Emplaced, SrvsCurrent, Lag, BeingCreated, Calling
<1>4. ListsPin'
  <2>1. ASSUME NEW t \in Thread, NEW h \in list[t].tables \ {Default}
        PROVE  \E j \in DOMAIN cache' : cache'[j].heap = h /\ j \subseteq list[t].uavs /\ cache'[j].age = 0
    <3>1. PICK j \in DOMAIN cache : cache[j].heap = h /\ j \subseteq list[t].uavs /\ cache[j].age = 0
      BY DEF OneInv, ListsPin
    <3>2. j \in DOMAIN cache'
      BY <1>2, <3>1
    <3> QED
      BY <1>2, <3>1, <3>2
  <2> QED
    BY <1>1, <2>1 DEF ListsPin
<1>5. WorkPins'
  <2>1. ASSUME NEW i \in 1 .. Len(gpu), NEW h \in gpu[i].tables \ {Default}
        PROVE  \E j \in DOMAIN cache' : cache'[j].heap = h /\ j \subseteq gpu[i].uavs /\ cache'[j].age + Due <= Len(gpu) - i + 1
    <3>1. PICK j \in DOMAIN cache : cache[j].heap = h /\ j \subseteq gpu[i].uavs /\ cache[j].age + Due <= Len(gpu) - i + 1
      BY DEF OneInv, WorkPins
    <3>2. j \in DOMAIN cache'
      BY <1>2, <3>1
    <3> QED
      BY <1>2, <3>1, <3>2
  <2>2. Due' = Due
    BY <1>1 DEF Due
  <2> QED
    BY <1>1, <2>1, <2>2 DEF WorkPins
<1> QED
  BY <1>3, <1>4, <1>5 DEF OneInv

(* A collection drops no table of unfinished work: each was asked for less *)
(* than MaxUnused collections before the submission, or after it.          *)
LEMMA OneCollectGarbage ==
  ASSUME IInv, LagIsShort, OneInv, CollectGarbage
  PROVE  OneInv'
<1>1. TypeOK /\ due' = FALSE /\ UNCHANGED <<srvHeap, list, call, gpu>> /\ (due \/ gpu = <<>>)
  BY DEF IInv, CollectGarbage
<1>2. \A t \in Thread : list[t].state = "closed"
  BY DEF CollectGarbage, Busy
<1>3. \A t \in Thread : list[t].tables = {} /\ ~Calling(t, "emplace")
  BY <1>2 DEF IInv, ListsFit
<1>4. /\ \A k \in DOMAIN cache : k \in DOMAIN cache' \/ cache[k].age > MaxUnused
      /\ \A k \in DOMAIN cache' : /\ k \in DOMAIN cache /\ cache'[k].age = cache[k].age + 1
                                  /\ cache'[k].heap = cache[k].heap /\ cache'[k].copies = cache[k].copies
  BY <1>1, CollectGarbageDoes
<1>5. Emplaced'
  BY <1>1, <1>3 DEF Emplaced, Calling
<1>6. SrvsCurrent' /\ Lag'
  BY <1>1, <1>4 DEF OneInv, SrvsCurrent, Lag, BeingCreated
<1>7. ListsPin'
  BY <1>1, <1>3 DEF ListsPin
<1>8. WorkPins'
  <2>1. ASSUME NEW i \in 1 .. Len(gpu), NEW h \in gpu[i].tables \ {Default}
        PROVE  \E j \in DOMAIN cache' : cache'[j].heap = h /\ j \subseteq gpu[i].uavs /\ cache'[j].age + 0 <= Len(gpu) - i + 1
    <3>1. PICK j \in DOMAIN cache : cache[j].heap = h /\ j \subseteq gpu[i].uavs /\ cache[j].age + Due <= Len(gpu) - i + 1
      BY DEF OneInv, WorkPins
    <3>2. Len(gpu) \in Nat /\ cache[j].age \in Nat
      BY <1>1, Entries, ListTypes, LenProperties, BoundAssumption
    <3>3. due
      <4>1. Len(gpu) # 0
        BY <3>2
      <4> QED
        BY <1>1, <4>1
    <3>4. cache[j].age + 1 <= Len(gpu) - i + 1
      BY <3>1, <3>3 DEF Due
    <3>5. Len(gpu) <= MaxUnused + 1
      BY <3>2, BoundAssumption DEF OneInv, Lag, LagIsShort
    <3>6. cache[j].age <= MaxUnused
      BY <3>2, <3>4, <3>5, BoundAssumption
    <3>7. j \in DOMAIN cache'
      BY <1>4, <3>2, <3>6, BoundAssumption
    <3>8. cache'[j].age + 0 <= Len(gpu) - i + 1
      BY <1>4, <3>2, <3>4, <3>7
    <3> QED
      BY <1>4, <3>1, <3>7, <3>8
  <2>2. Due' = 0
    BY <1>1 DEF Due
  <2> QED
    BY <1>1, <2>1, <2>2 DEF WorkPins
<1> QED
  BY <1>5, <1>6, <1>7, <1>8 DEF OneInv


LEMMA InitOne ==
  ASSUME Init
  PROVE  OneInv
<1>1. DOMAIN cache = {} /\ Len(gpu) = 0
  BY DEF Init
<1>2. \A t \in Thread : list[t].state = "closed" /\ list[t].tables = {} /\ ~Calling(t, "emplace")
  BY DEF Init, Closed, Calling
<1>3. Emplaced /\ SrvsCurrent /\ ListsPin
  BY <1>1, <1>2 DEF Emplaced, SrvsCurrent, ListsPin
<1>4. WorkPins /\ Lag
  BY <1>1, <1>2, BoundAssumption DEF WorkPins, Lag
<1> QED
  BY <1>3, <1>4 DEF OneInv

LEMMA StepKeepsOneInv ==
  ASSUME OneThread, LagIsShort, IInv, OneInv, [Next]_vars
  PROVE  OneInv'
<1>1. CASE UNCHANGED vars
  <2>1. UNCHANGED <<srvHeap, cache, list, call, gpu, due>>
    BY <1>1 DEF vars
  <2>2. Emplaced' /\ SrvsCurrent' /\ ListsPin' /\ Lag'
    BY <2>1 DEF OneInv, Emplaced, SrvsCurrent, ListsPin, Lag, BeingCreated, Calling
  <2>3. WorkPins'
    BY <2>1, KeepsWorkPins DEF OneInv
  <2> QED
    BY <2>2, <2>3 DEF OneInv
<1>2. CASE Next
  BY <1>2, OneGetCommandBuffer, OneBindDefault, OneBindCached, OneMakeTable, OneEmplaceTable, OneComplete, OneSubmitQueue,
     OneGpuComplete, OneCreateShaderResource, OneWriteDefaultTable, OneWriteCopies, OneCreateUnorderedAccess,
     OneDestroyUnorderedAccess, OneCollectGarbage DEF Next
<1> QED
  BY <1>1, <1>2

(* One thread that lets the GPU fall no more submissions behind than       *)
(* MAX_FRAMES_UAV_TABLE_CACHE_UNUSED_LIFETIME and one: no heap is released *)
(* while a list or the GPU uses it, though the cache counts its age in     *)
(* collections and though a completed list has forgotten it; and every     *)
(* table shows the views there are.                                        *)
THEOREM TablesStayCurrent == ASSUME OneThread, LagIsShort PROVE Spec => []TablesAreCurrent
<1>1. Init => IInv /\ OneInv
  BY InitTypes, InitOne
<1>2. IInv /\ OneInv /\ [Next]_vars => IInv' /\ OneInv'
  BY StepKeepsIInv, StepKeepsOneInv
<1>3. IInv /\ OneInv => TablesAreCurrent
  <2> SUFFICES ASSUME IInv, OneInv PROVE TablesAreCurrent
    OBVIOUS
  <2>1. ASSUME NEW h \in TablesInUse, h # Default PROVE h \in Referenced
    <3>1. PICK w \in Work : h \in w.tables
      BY DEF TablesInUse
    <3>2. \E k \in DOMAIN cache : cache[k].heap = h
      <4>1. CASE w \in Range(gpu)
        <5>1. PICK i \in DOMAIN gpu : w = gpu[i]
          BY <4>1 DEF Range
        <5>2. i \in 1 .. Len(gpu)
          BY ListTypes, LenProperties DEF IInv
        <5> QED
          BY <2>1, <3>1, <5>1, <5>2 DEF OneInv, WorkPins
      <4>2. CASE w \in {[tables |-> list[t].tables, uavs |-> list[t].uavs] : t \in Thread}
        <5>1. PICK t \in Thread : w.tables = list[t].tables
          BY <4>2
        <5> QED
          BY <2>1, <3>1, <5>1 DEF OneInv, ListsPin
      <4> QED
        BY <4>1, <4>2 DEF Work
    <3> QED
      BY <3>2 DEF Referenced, Cached
  <2>2. NoTableReleasedInFlight
    BY <2>1 DEF NoTableReleasedInFlight
  <2>3. ASSUME NEW v \in View, ~BeingCreated(v) PROVE default[v] = srvHeap[v]
    <3>1. ~\E t \in Thread : Calling(t, "default") /\ call[t].view = v
      BY <2>3 DEF BeingCreated, Calling
    <3> QED
      BY <3>1 DEF IInv, DefaultCurrent
  <2>4. CopiesCurrent
    BY <2>3 DEF CopiesCurrent, IInv, UavsCurrent, OneInv, SrvsCurrent
  <2> QED
    BY <2>2, <2>4 DEF TablesAreCurrent
<1> QED
  BY <1>1, <1>2, <1>3, PTL DEF Spec

=============================================================================

------------------------ MODULE D3DDescriptorTables ------------------------
(***************************************************************************)
(* The descriptor tables of the DX12 backend (Device.cpp).  Shaders find   *)
(* shader resources and UAVs in one descriptor heap, so every combination  *)
(* of bound UAVs has a heap of its own: a copy of all shader resources,    *)
(* and the UAVs behind them.  The heaps are kept in                        *)
(* mUAVDescriptorTableCache by combination, are brought up to date when a  *)
(* shader resource is created, dropped with any of their UAVs, and dropped *)
(* after a number of collections in which nobody asked for them.           *)
(*                                                                         *)
(* Nothing ties a heap to the GPU's work: it is there as long as the cache *)
(* or the command list it is bound to refers to it (a ComPtr).  A thread   *)
(* records one list at a time.  Descriptors are version numbers: which     *)
(* resource the slot of a view shows.                                      *)
(***************************************************************************)
EXTENDS Integers, Sequences, FiniteSets, Functions

CONSTANTS
  Thread,
  Key,             \* combinations of bound UAVs (UAVDescriptorTableCache), sets of UAVs
  View,            \* slots of mSRVHeap
  Heap,            \* descriptor heaps there can be at one time
  Default,         \* mDefaultUAVDescriptorTable
  Null,            \* no table, no call
  MaxUnused,       \* MAX_FRAMES_UAV_TABLE_CACHE_UNUSED_LIFETIME
  FramesInFlight,  \* how far the application lets the GPU fall behind, in submissions
  MaxViews,        \* bound: resources shown by the slot of one view
  MaxVersion       \* bound: UAVs that have the same slot, one after the other

ASSUME KeyAssumption == {} \notin Key
ASSUME HeapAssumption == Default \notin Heap /\ Null \notin Heap \cup {Default}
ASSUME BoundAssumption == MaxUnused \in Nat /\ FramesInFlight \in Nat /\ MaxVersion \in Nat
                           /\ MaxViews \in 0 .. MaxVersion

Uav == UNION Key

VARIABLES
  srvHeap,   \* mSRVHeap: what each view shows
  uavHeap,   \* mUAVHeap
  liveUavs,  \* the UAVs created and not destroyed
  default,   \* the shader resources in the default table
  cache,     \* mUAVDescriptorTableCache: heap, age and descriptors of each key
  list,      \* the command list of each thread
  call,      \* how far the thread's call is: making a table, or creating a view
  gpu,       \* submissions not done, oldest first
  due        \* a submission was made since the last collection

vars == <<srvHeap, uavHeap, liveUavs, default, cache, list, call, gpu, due>>

Closed == [state |-> "closed", bound |-> Null, tables |-> {}, uavs |-> {}]
Table == Heap \cup {Default}
Version == 0 .. MaxVersion
Copies == [srv : [View -> Version], uav : [Uav -> Version]]
Call == [op : {"emplace"}, key : Key, heap : Heap, copies : Copies]
        \cup [op : {"default", "copies"}, view : View]

ASSUME NullAssumption == Null \notin Call

TypeOK ==
  /\ srvHeap \in [View -> Version] /\ default \in [View -> Version]
  /\ uavHeap \in [Uav -> Version] /\ liveUavs \subseteq Uav
  /\ DOMAIN cache \subseteq Key
  /\ cache \in [DOMAIN cache -> [heap : Heap, age : 0 .. MaxUnused + 1, copies : Copies]]
  /\ list \in [Thread -> [state : {"closed", "open", "completed"}, bound : Table \cup {Null},
                          tables : SUBSET Table, uavs : SUBSET Uav]]
  /\ call \in [Thread -> Call \cup {Null}]
  /\ gpu \in Seq([tables : SUBSET Table, uavs : SUBSET Uav])
  /\ due \in BOOLEAN

Init ==
  /\ srvHeap = [v \in View |-> 0] /\ default = [v \in View |-> 0]
  /\ uavHeap = [u \in Uav |-> 0] /\ liveUavs = {}
  /\ cache = <<>>
  /\ list = [t \in Thread |-> Closed]
  /\ call = [t \in Thread |-> Null]
  /\ gpu = <<>>
  /\ due = FALSE

(* The heaps somebody refers to; any other has been released.  *)
Cached == {cache[k].heap : k \in DOMAIN cache}
Referenced ==
  Cached \cup {list[t].bound : t \in Thread}
    \cup {call[t].heap : t \in {s \in Thread : call[s] # Null /\ call[s].op = "emplace"}}
Work == Range(gpu) \cup {[tables |-> list[t].tables, uavs |-> list[t].uavs] : t \in Thread}
TablesInUse == UNION {w.tables : w \in Work}
UavsInUse ==
  (UNION {w.uavs : w \in Work})
    \cup (UNION {call[t].key : t \in {s \in Thread : call[s] # Null /\ call[s].op = "emplace"}})

Busy == {t \in Thread : list[t].state # "closed"}

-----------------------------------------------------------------------------
(* Command lists.  The application keeps FramesInFlight.                   *)

GetCommandBuffer(t) ==
  /\ list[t].state = "closed" /\ call[t] = Null
  /\ Len(gpu) + Cardinality(Busy) < FramesInFlight
  /\ list' = [list EXCEPT ![t].state = "open"]
  /\ UNCHANGED <<srvHeap, uavHeap, liveUavs, default, cache, call, gpu, due>>

(* The table becomes the last one bound, which the list refers to.         *)
Bind(t, table, key) ==
  list' = [list EXCEPT ![t].bound = table, ![t].tables = @ \cup {table}, ![t].uavs = @ \cup key]

Recording(t) == list[t].state = "open" /\ call[t] = Null

(* FlushPendingUnorderedAccessViewBinds of a draw or dispatch asks for the *)
(* table of the UAVs to be bound, GetUnorderedAccessViewDescriptorTable:   *)
(* the default one when there are none, ...                                *)
BindDefault(t) ==
  /\ Recording(t)
  /\ Bind(t, Default, {})
  /\ UNCHANGED <<srvHeap, uavHeap, liveUavs, default, cache, call, gpu, due>>

(* ... the cached one, young again, ...                                    *)
BindCachedAgeing(t, k) ==
  /\ Recording(t) /\ k \subseteq liveUavs
  /\ k \in DOMAIN cache
  /\ Bind(t, cache[k].heap, k)
  /\ UNCHANGED <<srvHeap, uavHeap, liveUavs, default, cache, call, gpu, due>>
BindCached(t, k) ==
  /\ Recording(t) /\ k \subseteq liveUavs
  /\ k \in DOMAIN cache
  /\ cache' = [cache EXCEPT ![k].age = 0]
  /\ Bind(t, cache[k].heap, k)
  /\ UNCHANGED <<srvHeap, uavHeap, liveUavs, default, call, gpu, due>>

(* ... or a new heap, filled with copies of the shader resources and of    *)
(* the UAVs, ...                                                           *)
MakeTable(t, k) ==
  LET free == Heap \ (Referenced \cup TablesInUse)
      copies == [srv |-> srvHeap, uav |-> [u \in Uav |-> IF u \in k THEN uavHeap[u] ELSE 0]]
  IN
  /\ Recording(t) /\ k \subseteq liveUavs
  /\ k \notin DOMAIN cache
  /\ free # {}
  /\ call' = [call EXCEPT ![t] =
       [op |-> "emplace", key |-> k, heap |-> CHOOSE h \in free : TRUE, copies |-> copies]]
  /\ UNCHANGED <<srvHeap, uavHeap, liveUavs, default, cache, list, gpu, due>>

(* ... which is put in the cache.  AtomicMap::Emplace leaves an entry      *)
(* that is there already alone; the list binds its own heap all the same.  *)
EmplaceTable(t) ==
  /\ call[t] # Null /\ call[t].op = "emplace"
  /\ cache' = [k \in DOMAIN cache \cup {call[t].key} |->
       IF k \in DOMAIN cache THEN cache[k] ELSE [heap |-> call[t].heap, age |-> 0, copies |-> call[t].copies]]
  /\ Bind(t, call[t].heap, call[t].key)
  /\ call' = [call EXCEPT ![t] = Null]
  /\ UNCHANGED <<srvHeap, uavHeap, liveUavs, default, gpu, due>>

(* Complete: the list refers to no table any more.                         *)
Complete(t) ==
  /\ Recording(t)
  /\ list' = [list EXCEPT ![t].state = "completed", ![t].bound = Null]
  /\ UNCHANGED <<srvHeap, uavHeap, liveUavs, default, cache, call, gpu, due>>

SubmitQueue(t) ==
  /\ list[t].state = "completed"
  /\ gpu' = Append(gpu, [tables |-> list[t].tables, uavs |-> list[t].uavs])
  /\ list' = [list EXCEPT ![t] = Closed]
  /\ due' = TRUE
  /\ UNCHANGED <<srvHeap, uavHeap, liveUavs, default, cache, call>>

GpuComplete ==
  /\ gpu # <<>>
  /\ gpu' = Tail(gpu)
  /\ UNCHANGED <<srvHeap, uavHeap, liveUavs, default, cache, list, call, due>>

-----------------------------------------------------------------------------
(* Views.  CreateShaderResource writes the descriptor to mSRVHeap, and     *)
(* WriteAllSRVDescriptorHeapCopies to the default table and then, with the *)
(* cache locked, to every cached one.                                      *)

CreateShaderResource(t, v) ==
  /\ call[t] = Null
  /\ srvHeap[v] < MaxViews
  /\ srvHeap' = [srvHeap EXCEPT ![v] = @ + 1]
  /\ call' = [call EXCEPT ![t] = [op |-> "default", view |-> v]]
  /\ UNCHANGED <<uavHeap, liveUavs, default, cache, list, gpu, due>>

WriteDefaultTable(t) ==
  /\ call[t] # Null /\ call[t].op = "default"
  /\ default' = [default EXCEPT ![call[t].view] = srvHeap[call[t].view]]
  /\ call' = [call EXCEPT ![t] = [op |-> "copies", view |-> call[t].view]]
  /\ UNCHANGED <<srvHeap, uavHeap, liveUavs, cache, list, gpu, due>>

WriteYoungCopies(t) ==
  /\ call[t] # Null /\ call[t].op = "copies"
  /\ cache' = [k \in DOMAIN cache |->
       IF cache[k].age = 0
       THEN [cache[k] EXCEPT !.copies.srv[call[t].view] = srvHeap[call[t].view]]
       ELSE cache[k]]
  /\ call' = [call EXCEPT ![t] = Null]
  /\ UNCHANGED <<srvHeap, uavHeap, liveUavs, default, list, gpu, due>>
WriteCopies(t) ==
  /\ call[t] # Null /\ call[t].op = "copies"
  /\ cache' = [k \in DOMAIN cache |->
       [cache[k] EXCEPT !.copies.srv[call[t].view] = srvHeap[call[t].view]]]
  /\ call' = [call EXCEPT ![t] = Null]
  /\ UNCHANGED <<srvHeap, uavHeap, liveUavs, default, list, gpu, due>>

CreateUnorderedAccess(u) ==
  /\ u \notin liveUavs
  /\ uavHeap[u] < MaxVersion
  /\ uavHeap' = [uavHeap EXCEPT ![u] = @ + 1]
  /\ liveUavs' = liveUavs \cup {u}
  /\ UNCHANGED <<srvHeap, default, cache, list, call, gpu, due>>

(* DestroyUnorderedAccess of a UAV nothing uses (D3DDevice is about that). *)
(* The slot may be given to another UAV with the same handle, so           *)
(* DestroyAllUAVDescriptorHeapCopies drops the tables it is in.            *)
DestroyAllUAVDescriptorHeapCopies(u) == {k \in Key : u \in k}
DestroyUnorderedAccess(u) ==
  /\ u \in liveUavs \ UavsInUse
  /\ liveUavs' = liveUavs \ {u}
  /\ cache' = Restrict(cache, DOMAIN cache \ DestroyAllUAVDescriptorHeapCopies(u))
  /\ UNCHANGED <<srvHeap, uavHeap, default, list, call, gpu, due>>

-----------------------------------------------------------------------------
(* CollectGarbage, as far as the tables go: each is one collection older,  *)
(* and those too old are dropped.  It runs when no list is open; the       *)
(* application calls it once for a submission ("frame"), or when the GPU   *)
(* has nothing to do.                                                      *)
KeptOneLonger(k) == cache[k].age > MaxUnused + 1
TooOld(k) == cache[k].age > MaxUnused

CollectWithoutAgeing ==
  /\ Busy = {}
  /\ due \/ gpu = <<>>
  /\ cache' = Restrict(cache, {k \in DOMAIN cache : ~TooOld(k)})
  /\ due' = FALSE
  /\ UNCHANGED <<srvHeap, uavHeap, liveUavs, default, list, call, gpu>>
CollectGarbage ==
  /\ Busy = {}
  /\ due \/ gpu = <<>>
  /\ cache' = [k \in {j \in DOMAIN cache : ~TooOld(j)} |-> [cache[k] EXCEPT !.age = @ + 1]]
  /\ due' = FALSE
  /\ UNCHANGED <<srvHeap, uavHeap, liveUavs, default, list, call, gpu>>

Next ==
  \/ \E t \in Thread :
       \/ GetCommandBuffer(t)
       \/ BindDefault(t) \/ EmplaceTable(t)
       \/ \E k \in Key : BindCached(t, k) \/ MakeTable(t, k)
       \/ Complete(t) \/ SubmitQueue(t)
       \/ \E v \in View : CreateShaderResource(t, v)
       \/ WriteDefaultTable(t) \/ WriteCopies(t)
  \/ \E u \in Uav : CreateUnorderedAccess(u) \/ DestroyUnorderedAccess(u)
  \/ GpuComplete \/ CollectGarbage

Spec == Init /\ [][Next]_vars

(* Calls end, lists are submitted, the GPU finishes, collections go on.    *)
Fairness ==
  /\ \A t \in Thread :
       /\ WF_vars(EmplaceTable(t)) /\ WF_vars(WriteDefaultTable(t)) /\ WF_vars(WriteCopies(t))
       /\ SF_vars(Complete(t)) /\ WF_vars(SubmitQueue(t))
  /\ WF_vars(GpuComplete)
  /\ SF_vars(CollectGarbage)
FairSpec == Spec /\ Fairness

-----------------------------------------------------------------------------
(* "tables that haven't been used in a long time" are cleaned up, and no   *)
(* others: a heap bound in a list or in work the GPU has not finished is   *)
(* not released, though age is counted in collections, and though a list   *)
(* forgets its heap when it is completed.                                  *)
NoTableReleasedInFlight == TablesInUse \subseteq Referenced \cup {Default}

(* Shaders see the same views in whichever table is bound: the default and *)
(* every cached table show what mSRVHeap shows, but for a view whose       *)
(* creation is under way, and a cached table shows the present UAVs, not   *)
(* earlier ones of the same slots.                                         *)
BeingCreated(v) == \E t \in Thread : call[t] # Null /\ call[t].op # "emplace" /\ call[t].view = v
CopiesCurrent ==
  /\ \A v \in View : BeingCreated(v) \/ default[v] = srvHeap[v]
  /\ \A k \in DOMAIN cache :
       /\ \A v \in View : BeingCreated(v) \/ cache[k].copies.srv[v] = srvHeap[v]
       /\ \A u \in k : u \in liveUavs /\ cache[k].copies.uav[u] = uavHeap[u]

(* What is asked of the tables. *)
TablesAreCurrent == NoTableReleasedInFlight /\ CopiesCurrent

(* A table nobody asks for any more is released in the end.                *)
UnusedTablesGo ==
  \A k \in Key : []<>(k \notin DOMAIN cache) \/ []<><<\E t \in Thread : BindCached(t, k)>>_vars
=============================================================================

----------------------------- MODULE D3DInputs -----------------------------
(***************************************************************************)
(* Vertex buffers and timestamp queries in a command list of the DX12      *)
(* backend (CommandBuffer.cpp).  The interface sets the buffer of a slot,  *)
(* and a pipeline has the strides; Direct3D wants both at once.  So a      *)
(* buffer is pending until a draw, and each pipeline makes the slots it    *)
(* reads pending again.  Queries are resolved at the end of the list, from *)
(* the least index written to the greatest.                                *)
(***************************************************************************)
EXTENDS FiniteSets, FiniteSetsExt, Integers, Sequences

CONSTANTS
  Buffer,
  Pipeline,     \* raster pipelines
  Strides,      \* mVertexBufferStrides of each: a sequence, 0 for a slot not read
  Slots,        \* the slots are 1 .. Slots
  Queries,      \* the queries of the pool are 0 .. Queries - 1
  Null

(* A pipeline has a stride for some of the slots there are.                *)
SlotsAssumption ==
  /\ Slots \in Nat /\ Queries \in Nat /\ Null \notin Pipeline
  /\ \A p \in Pipeline : Strides[p] \in Seq(Nat) /\ Len(Strides[p]) <= Slots

VARIABLES
  open,         \* the list is being recorded
  pipeline,     \* mCurrentRasterPipeline
  pending,      \* mPendingVertexBufferBinds: buffer of each slot, Null for none
  invalidated,  \* mInvalidatedVertexBufferBindings
  bound,        \* of Direct3D: buffer and stride of each slot
  minMax,       \* mPendingQueryPoolMinMaxResolves of the one pool, Null for none
  written,      \* the queries written in this list
  resolved      \* the queries resolved at its end

vars == <<open, pipeline, pending, invalidated, bound, minMax, written, resolved>>

Slot == 1..Slots
Query == 0..(Queries - 1)
Unbound == [buffer |-> Null, stride |-> 0]
Bound == [buffer : Buffer \cup {Null}, stride : Nat]
NoRange == [min |-> 0, max |-> 0, any |-> FALSE]

TypeOK ==
  /\ open \in BOOLEAN
  /\ pipeline \in Pipeline \cup {Null}
  /\ pending \in [Slot -> Buffer \cup {Null}]
  /\ invalidated \subseteq Slot
  /\ bound \in [Slot -> Bound]
  /\ minMax \in [min : Query, max : Query, any : BOOLEAN]
  /\ written \subseteq Query /\ resolved \subseteq Query

Init ==
  /\ open = FALSE
  /\ pipeline = Null
  /\ pending = [s \in Slot |-> Null] /\ invalidated = {}
  /\ bound = [s \in Slot |-> Unbound]
  /\ minMax = NoRange /\ written = {} /\ resolved = {}

(* Reset of the ID3D12GraphicsCommandList unbinds what it had.             *)
GetCommandBuffer ==
  /\ ~open
  /\ open' = TRUE
  /\ bound' = [s \in Slot |-> Unbound]
  /\ written' = {} /\ resolved' = {}
  /\ UNCHANGED <<pipeline, pending, invalidated, minMax>>

SetVertexBuffer(s, b) ==
  /\ open
  /\ pending' = [pending EXCEPT ![s] = b]
  /\ invalidated' = invalidated \cup {s}
  /\ UNCHANGED <<open, pipeline, bound, minMax, written, resolved>>

Reads(p) == {s \in DOMAIN Strides[p] : Strides[p][s] # 0}

SetOnlyThePipeline(p) ==
  /\ open
  /\ pipeline' = p
  /\ UNCHANGED <<open, pending, invalidated, bound, minMax, written, resolved>>
SetRasterPipeline(p) ==
  /\ open
  /\ pipeline' = p
  /\ invalidated' = Reads(p)
  /\ UNCHANGED <<open, pending, bound, minMax, written, resolved>>

(* FlushPendingVertexBufferBinds.  The stride of a slot past the end of    *)
(* the pipeline's is read all the same, and may be any number.             *)
StrideOf(s) == IF s \in DOMAIN Strides[pipeline] THEN {Strides[pipeline][s]} ELSE {0, 7}

FlushPendingVertexBufferBinds ==
  /\ \E strides \in [invalidated -> UNION {StrideOf(s) : s \in invalidated}] :
       /\ \A s \in invalidated : strides[s] \in StrideOf(s)
       /\ bound' = [s \in Slot |-> IF s \in invalidated /\ strides[s] # 0
                                   THEN [buffer |-> pending[s], stride |-> strides[s]]
                                   ELSE bound[s]]
  /\ invalidated' = {}

(* The application has set the buffers its pipeline reads (an assertion of *)
(* the flush, as far as it goes).                                          *)
Draw ==
  /\ open
  /\ pipeline # Null
  /\ \A s \in Reads(pipeline) : pending[s] # Null
  /\ FlushPendingVertexBufferBinds
  /\ UNCHANGED <<open, pipeline, pending, minMax, written, resolved>>

(* The pair of a pool that is not in the map yet is <<0, 0>>.              *)
WriteTimestamp(q) ==
  /\ open
  /\ minMax' = [min |-> Min({minMax.min, q}), max |-> Max({minMax.max, q}), any |-> TRUE]
  /\ written' = written \cup {q}
  /\ UNCHANGED <<open, pipeline, pending, invalidated, bound, resolved>>

Complete ==
  /\ open
  /\ open' = FALSE
  /\ resolved' = IF minMax.any THEN minMax.min..minMax.max ELSE {}
  /\ minMax' = NoRange
  /\ pipeline' = Null
  /\ invalidated' = {} /\ pending' = [s \in Slot |-> Null]
  /\ UNCHANGED <<bound, written>>

Next ==
  \/ GetCommandBuffer
  \/ \E s \in Slot, b \in Buffer : SetVertexBuffer(s, b)
  \/ \E p \in Pipeline : SetRasterPipeline(p)
  \/ Draw
  \/ \E q \in Query : WriteTimestamp(q)
  \/ Complete

Spec == Init /\ [][Next]_vars

-----------------------------------------------------------------------------
(* A draw reads from each slot of its pipeline the buffer set last, with   *)
(* the pipeline's stride, in whatever order buffers and pipelines are set, *)
(* and whatever an earlier pipeline had left bound.                        *)
DrawsReadWhatIsSet ==
  [][Draw => \A s \in Reads(pipeline) :
       bound'[s] = [buffer |-> pending[s], stride |-> Strides[pipeline][s]]]_vars

(* A list hands out every query it has written, and none of its pipelines  *)
(* and buffers to the next one.                                            *)
ListsEndClean ==
  ~open => /\ written \subseteq resolved
           /\ pipeline = Null /\ invalidated = {}
           /\ \A s \in Slot : pending[s] = Null
=============================================================================

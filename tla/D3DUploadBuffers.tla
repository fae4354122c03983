-------------------------- MODULE D3DUploadBuffers --------------------------
(***************************************************************************)
(* UpdateBuffer in the DX12 backend: the bytes go to a linear upload       *)
(* buffer, which the list takes from the device, carves up, and gives up   *)
(* for reuse with its submission (src/RHIDX12/Helper/LinearUploadBuffer,   *)
(* UpdateBuffer and Complete of CommandBuffer.cpp, and Device.cpp).        *)
(*                                                                         *)
(* Sizes are counted in units of the 256 bytes allocations are aligned to. *)
(* One thread records; that the collector takes a submission's leavings    *)
(* only when the GPU is done with it is what D3DDevice is about.           *)
(***************************************************************************)
EXTENDS Integers, Sequences, FiniteSets, SequencesExt

CONSTANTS
  List,        \* command lists the thread can hold at one time
  Size,        \* mSize of every buffer, and the most one update may carry; positive
  PerList,     \* bound: units one list is given to upload
  MaxSubmits,  \* bound: submissions
  MaxUnused    \* MAX_FRAMES_LINEAR_UPLOAD_BUFFER_UNSUED_LIFETIME

VARIABLES
  offset,     \* mOffset of each buffer made so far
  list,       \* per list: what it holds
  gpu,        \* the submissions not done, oldest first
  submits,    \* number of the latest submission
  deferred,   \* mDeferredDeletes: buffers to return, with their submission
  available,  \* mAvailableLinearUploadBuffers
  deleted,    \* the buffers deleted
  device      \* "alive", then "destroyed"

vars == <<offset, list, gpu, submits, deferred, available, deleted, device>>

Buffer == 1 .. Len(offset)
Copy == [buffer : Nat, first : Nat, size : 1 .. Size, no : Nat]
None == 0   \* mCurrentLinearUploadBuffer is null
Blank == [state |-> "closed", current |-> None, returning |-> <<>>, copies |-> {}, used |-> 0]

TypeOK ==
  /\ offset \in Seq(0 .. Size)
  /\ list \in [List -> [state : {"closed", "open", "completed"}, current : {None} \cup Buffer,
                        returning : Seq(Buffer), copies : SUBSET Copy, used : 0 .. PerList]]
  /\ gpu \in Seq([submit : 1 .. submits, copies : SUBSET Copy])
  /\ submits \in 0 .. MaxSubmits
  /\ deferred \in Seq([buffer : Buffer, submit : 1 .. submits])
  /\ available \in Seq([buffer : Buffer, unused : 0 .. MaxUnused + 1])
  /\ deleted \subseteq Buffer
  /\ device \in {"alive", "destroyed"}

Init ==
  /\ offset = <<>>
  /\ list = [c \in List |-> Blank]
  /\ gpu = <<>>
  /\ submits = 0
  /\ deferred = <<>>
  /\ available = <<>>
  /\ deleted = {}
  /\ device = "alive"

Busy == {c \in List : list[c].state # "closed"}

GetCommandBuffer(c) ==
  /\ device = "alive"
  /\ list[c].state = "closed"
  /\ submits + Cardinality(Busy) < MaxSubmits
  /\ list' = [list EXCEPT ![c].state = "open"]
  /\ UNCHANGED <<offset, gpu, submits, deferred, available, deleted, device>>

-----------------------------------------------------------------------------
(* LinearUploadBuffer::Allocate, of "size" units in a buffer whose mOffset *)
(* is "at": where the allocation starts.  It starts over when the end is   *)
(* reached, and never answers that there is no room.                       *)
Allocate(at, size) == IF at + size > Size THEN 0 ELSE at

(* GetLinearBufferAllocation: the buffer last made available, started over,*)
(* or a new one: [buffer, offsets, available] afterwards.                  *)
GetLinearBufferAllocation ==
  IF available = <<>>
  THEN [buffer |-> Len(offset) + 1, offset |-> Append(offset, 0), available |-> <<>>]
  ELSE LET b == Last(available).buffer IN
       [buffer |-> b, offset |-> [offset EXCEPT ![b] = 0], available |-> Front(available)]

(* UpdateBuffer.  Its branch for a null allocation is never taken.         *)
UpdateBuffer(c, size) ==
  LET taken == IF list[c].current = None
               THEN GetLinearBufferAllocation
               ELSE [buffer |-> list[c].current, offset |-> offset, available |-> available]
      b == taken.buffer
      first == Allocate(taken.offset[b], size)
      copy == [buffer |-> b, first |-> first, size |-> size, no |-> Cardinality(list[c].copies)]
  IN
  /\ list[c].state = "open"
  /\ list[c].used + size <= PerList
  /\ available' = taken.available
  /\ offset' = [taken.offset EXCEPT ![b] = first + size]
  /\ list' = [list EXCEPT ![c].current = b, ![c].copies = @ \cup {copy}, ![c].used = @ + size]
  /\ UNCHANGED <<gpu, submits, deferred, deleted, device>>

(* Complete: the list parts from its buffer. *)
CompleteKeepsBuffer(c) ==
  /\ list[c].state = "open"
  /\ list' = [list EXCEPT ![c].state = "completed", ![c].current = None]
  /\ UNCHANGED <<offset, gpu, submits, deferred, available, deleted, device>>
Complete(c) ==
  /\ list[c].state = "open"
  /\ list' = [list EXCEPT
       ![c].state = "completed",
       ![c].current = None,
       ![c].returning = IF list[c].current = None THEN @ ELSE Append(@, list[c].current)]
  /\ UNCHANGED <<offset, gpu, submits, deferred, available, deleted, device>>

(* SubmitQueue of one list: its buffers are to be returned after it. *)
SubmitQueue(c) ==
  LET return(i) == [buffer |-> list[c].returning[i], submit |-> submits + 1] IN
  /\ list[c].state = "completed"
  /\ submits' = submits + 1
  /\ gpu' = Append(gpu, [submit |-> submits + 1, copies |-> list[c].copies])
  /\ deferred' = deferred \o [i \in DOMAIN list[c].returning |-> return(i)]
  /\ list' = [list EXCEPT ![c] = Blank]
  /\ UNCHANGED <<offset, available, deleted, device>>

GpuComplete ==
  /\ gpu # <<>>
  /\ gpu' = Tail(gpu)
  /\ UNCHANGED <<offset, list, submits, deferred, available, deleted, device>>

-----------------------------------------------------------------------------
(* CollectGarbage: with no list open, the buffers of submissions that are  *)
(* done are made available, perhaps not those of the latest ones, and the  *)
(* buffers available for too long are deleted.                             *)

ReturnedAtOnce(d) == TRUE
Finished(d) == \A i \in DOMAIN gpu : gpu[i].submit # d.submit

KeptOneLonger(e) == e.unused <= MaxUnused + 1
Kept(e) == e.unused <= MaxUnused

(* The elements of s at the indices K, in their order.                     *)
Rank(K, k) == Cardinality({j \in K : j <= k})
Only(s, K) == [i \in 1 .. Cardinality(K) |-> s[CHOOSE k \in K : Rank(K, k) = i]]

CollectGarbage ==
  \E latest \in 0 .. submits :
    LET ready == {i \in DOMAIN deferred : deferred[i].submit <= latest /\ Finished(deferred[i])}
        back == Only(deferred, ready)
        all == available \o [i \in DOMAIN back |-> [buffer |-> back[i].buffer, unused |-> 0]]
        kept == {i \in DOMAIN all : Kept(all[i])}
    IN
    /\ device = "alive"
    /\ Busy = {}
    /\ deferred' = Only(deferred, DOMAIN deferred \ ready)
    /\ available' = Only([i \in DOMAIN all |-> [all[i] EXCEPT !.unused = @ + 1]], kept)
    /\ deleted' = deleted \cup {all[i].buffer : i \in DOMAIN all \ kept}
    /\ UNCHANGED <<offset, list, gpu, submits, device>>

(* ~D3DDevice: after WaitIdle and the last collection only the available   *)
(* buffers are deleted.                                                    *)
DestroyUploadBuffers ==
  /\ device = "alive"
  /\ Busy = {} /\ gpu = <<>> /\ deferred = <<>>
  /\ device' = "destroyed"
  /\ deleted' = deleted \cup {available[i].buffer : i \in DOMAIN available}
  /\ available' = <<>>
  /\ UNCHANGED <<offset, list, gpu, submits, deferred>>

Terminated == device = "destroyed" /\ UNCHANGED vars

Next ==
  \/ \E c \in List :
       \/ GetCommandBuffer(c)
       \/ \E size \in 1 .. Size : UpdateBuffer(c, size)
       \/ Complete(c) \/ SubmitQueue(c)
  \/ GpuComplete \/ CollectGarbage
  \/ DestroyUploadBuffers \/ Terminated

Spec == Init /\ [][Next]_vars

-----------------------------------------------------------------------------
(* The copies recorded and not done, each with its list or submission.     *)
Unread ==
  (UNION {{<<c, p>> : p \in list[c].copies} : c \in List})
    \cup (UNION {{<<gpu[i].submit, p>> : p \in gpu[i].copies} : i \in DOMAIN gpu})

Overlap(p, r) ==
  /\ p.buffer = r.buffer
  /\ p.first < r.first + r.size
  /\ r.first < p.first + p.size

(* What UpdateBuffer was given is still there when the GPU comes to copy   *)
(* it: no two copies to be made read from the same bytes, whether of one   *)
(* list, of two, or of a submission and a list that reuses its buffer.     *)
UploadsIntact == \A x, y \in Unread : x # y => ~Overlap(x[2], y[2])

(* A buffer is in exactly one place: with a list, on the way back from a   *)
(* submission, available, or deleted.  Nothing is lost, or given twice.    *)
Places(b) ==
  Cardinality({c \in List : list[c].current = b})
    + Cardinality({x \in List \X (1 .. Len(offset)) :
         x[2] \in DOMAIN list[x[1]].returning /\ list[x[1]].returning[x[2]] = b})
    + Cardinality({i \in DOMAIN deferred : deferred[i].buffer = b})
    + Cardinality({i \in DOMAIN available : available[i].buffer = b})
    + (IF b \in deleted THEN 1 ELSE 0)
BuffersConserved == \A b \in Buffer : Places(b) = 1

(* A deleted upload buffer is read by no work of the GPU, and after the    *)
(* destructor every one is deleted: the ASSERT in DestroyUploadBuffers.    *)
DeletedAreIdleAndAll ==
  /\ \A i \in DOMAIN gpu : \A p \in gpu[i].copies : p.buffer \notin deleted
  /\ device = "destroyed" => deleted = Buffer
=============================================================================

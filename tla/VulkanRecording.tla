--------------------------- MODULE VulkanRecording ---------------------------
(***************************************************************************)
(* Recording in the Vulkan backend (src/RHIVulkan/Api/CommandBuffer.cpp):  *)
(* barriers are kept in the list and put into the stream in one batch, in  *)
(* front of the next command that flushes them; and a list remembers the   *)
(* swap chains whose images it touched, for SubmitQueue.                   *)
(*                                                                         *)
(* One list is recorded at a time, for one of the queues, each of a family *)
(* of its own; lists run in the order they were recorded.  A batch has no  *)
(* order within itself.  The application names the layout it left an image *)
(* in, records barriers outside of render passes, and has a command        *)
(* between two barriers of an image, except that it may take an image over *)
(* and give it a layout in one batch, as the tests do.                     *)
(***************************************************************************)
EXTENDS Integers, Sequences, SequencesExt, FiniteSets

CONSTANTS
  Image,       \* images
  SwapImage,   \* those that belong to a swap chain
  Queue,       \* queues
  Layout,      \* layouts the application uses, "Undefined" among them
  MaxPending   \* bound: barriers it records in a row

LayoutAssumption == "Undefined" \in Layout /\ SwapImage \subseteq Image

VARIABLES
  queue,      \* the queue the open list is for
  pending,    \* mImageBarriers
  pass,       \* images attached to the current render pass
  completed,  \* mCompleted
  refs,       \* images whose swap chain is in mSwapchainRefs
  asked,      \* the layout the application left each image in
  layout,     \* the layout it has on the GPU
  owner,      \* the queue that owns it, or "nobody" on its way
  handed,     \* images that were ever handed over
  used        \* the last command's images: <<image, layout named, layout found>>

list == <<queue, pass, completed>>
vars == <<list, pending, refs, asked, layout, owner, handed, used>>

(* ToVkImageLayout: a blit is a transfer. *)
ToVkImageLayout(l) ==
  CASE l = "BlitSrc" -> "TransferSrc"
    [] l = "BlitDst" -> "TransferDst"
    [] l = "RenderTargetReadOnly" -> "RenderTarget"
    [] OTHER -> l
VkLayout == {ToVkImageLayout(l) : l \in Layout}
Barrier == [image : Image, old : VkLayout, new : VkLayout, from : Queue, to : Queue]

TypeOK ==
  /\ queue \in Queue /\ pending \in Seq(Barrier) /\ Len(pending) <= MaxPending
  /\ pass \subseteq Image /\ completed \in BOOLEAN /\ refs \subseteq SwapImage
  /\ asked \in [Image -> Layout] /\ layout \in [Image -> VkLayout]
  /\ owner \in [Image -> Queue \cup {"nobody"}] /\ handed \subseteq Image
  /\ used \subseteq Image \X VkLayout \X VkLayout

Init ==
  /\ queue \in Queue
  /\ pending = <<>> /\ pass = {} /\ completed = FALSE
  /\ refs = {} /\ handed = {} /\ used = {}
  /\ asked = [i \in Image |-> "Undefined"]
  /\ layout = [i \in Image |-> "Undefined"]
  /\ owner = [i \in Image |-> queue]

-----------------------------------------------------------------------------

CheckIfSwapchainReference(S) == refs' = refs \cup (S \cap SwapImage)

Crosses(b) == b.from # b.to
Barriers(i) == {b \in Range(pending) : b.image = i}

(* The place of each barrier of the batch, in any order; and which of some *)
(* barriers comes last, and stays.                                         *)
Orders == {place \in [DOMAIN pending -> DOMAIN pending] :
             \A j, k \in DOMAIN pending : place[j] = place[k] => j = k}
LastOf(S, place) == pending[CHOOSE k \in S : \A j \in S : place[j] <= place[k]]

Batch(i) == {k \in DOMAIN pending : pending[k].image = i}
Crossing(i) == {k \in Batch(i) : Crosses(pending[k])}

FlushBarriers ==
  /\ \E place \in Orders :
       /\ layout' = [i \in Image |-> IF Batch(i) = {} THEN layout[i] ELSE LastOf(Batch(i), place).new]
       /\ owner' = [i \in Image |-> IF Crossing(i) = {} THEN owner[i]
                                    ELSE IF LastOf(Crossing(i), place).to = queue THEN queue ELSE "nobody"]
  /\ pending' = <<>>

(* A command works on images that are in the queue's hands, and finds them *)
(* in some layout.                                                         *)
Ours(i) == /\ owner[i] = queue \/ \E b \in Barriers(i) : Crosses(b) /\ b.to = queue
           /\ \A b \in Barriers(i) : Crosses(b) => b.to = queue
Names(i, l) == <<i, ToVkImageLayout(l), layout'[i]>>
Ready(i, l) == Ours(i) /\ asked[i] = l

Recording == ~completed
Outside == Recording /\ pass = {}

-----------------------------------------------------------------------------

(* A mistake: ImageBarrier does not look at the swap chain. *)
BarrierUntouched(i, l) ==
  /\ Outside /\ Ours(i) /\ l # "Undefined"
  /\ \A b \in Barriers(i) : Crosses(b)
  /\ Len(pending) < MaxPending
  /\ pending' = Append(pending, [image |-> i, old |-> ToVkImageLayout(asked[i]),
                                 new |-> ToVkImageLayout(l), from |-> queue, to |-> queue])
  /\ asked' = [asked EXCEPT ![i] = l]
  /\ UNCHANGED <<list, refs, layout, owner, handed, used>>

ImageBarrier(i, l) ==
  /\ Outside /\ Ours(i) /\ l # "Undefined"
  /\ \A b \in Barriers(i) : Crosses(b)
  /\ Len(pending) < MaxPending
  /\ pending' = Append(pending, [image |-> i, old |-> ToVkImageLayout(asked[i]),
                                 new |-> ToVkImageLayout(l), from |-> queue, to |-> queue])
  /\ asked' = [asked EXCEPT ![i] = l]
  /\ CheckIfSwapchainReference({i})
  /\ UNCHANGED <<list, layout, owner, handed, used>>

(* The barrier of a handover leaves both layouts out, which is UNDEFINED.  *)
Handover(i, from, to) ==
  /\ Barriers(i) = {} /\ Len(pending) < MaxPending
  /\ pending' = Append(pending, [image |-> i, old |-> "Undefined", new |-> "Undefined",
                                 from |-> from, to |-> to])
  /\ handed' = handed \cup {i}
  /\ CheckIfSwapchainReference({i})
  /\ UNCHANGED <<list, asked, layout, owner, used>>

TransferImageOwnership(i, dstQueue) ==
  /\ Outside /\ dstQueue # queue /\ owner[i] = queue
  /\ Handover(i, queue, dstQueue)

AcquireImageOwnership(i, srcQueue) ==
  /\ Outside /\ srcQueue # queue /\ owner[i] = "nobody"
  /\ Handover(i, srcQueue, queue)

(* CopyBufferToImage, CopyImageToBuffer, ClearUnorderedAccessView. *)
OneImage(i, l) ==
  /\ Outside /\ Ready(i, l)
  /\ FlushBarriers
  /\ used' = {Names(i, l)}
  /\ CheckIfSwapchainReference({i})
  /\ UNCHANGED <<list, asked, handed>>
CopyBufferToImage(i) == OneImage(i, "TransferDst")
CopyImageToBuffer(i) == OneImage(i, "TransferSrc")
ClearUnorderedAccessView(i) == OneImage(i, "UnorderedAccess")

(* CopyImageToImage, BlitImageToImage. *)
TwoImages(src, dst, from, to) ==
  /\ Outside /\ src # dst /\ Ready(src, from) /\ Ready(dst, to)
  /\ FlushBarriers
  /\ used' = {Names(src, from), Names(dst, to)}
  /\ CheckIfSwapchainReference({src, dst})
  /\ UNCHANGED <<list, asked, handed>>
CopyImageToImage(src, dst) == TwoImages(src, dst, "TransferSrc", "TransferDst")
BlitImageToImage(src, dst) == TwoImages(src, dst, "BlitSrc", "BlitDst")

(* Dispatches and draws read and write the unordered access views that are *)
(* bound; a draw also the attachments.                                     *)
Dispatch(S) ==
  /\ Outside /\ \A i \in S : Ready(i, "UnorderedAccess")
  /\ FlushBarriers
  /\ used' = {Names(i, "UnorderedAccess") : i \in S}
  /\ UNCHANGED <<list, refs, asked, handed>>

Draw ==
  /\ Recording /\ pass # {}
  /\ FlushBarriers
  /\ used' = {Names(i, "RenderTarget") : i \in pass}
  /\ UNCHANGED <<list, refs, asked, handed>>

(* The colour targets and what they resolve to. *)
BeginRenderPass(S) ==
  /\ Outside /\ S # {} /\ \A i \in S : Ready(i, "RenderTarget")
  /\ FlushBarriers
  /\ pass' = S
  /\ used' = {Names(i, "RenderTarget") : i \in S}
  /\ CheckIfSwapchainReference(S)
  /\ UNCHANGED <<queue, completed, asked, handed>>

EndRenderPass ==
  /\ Recording /\ pass # {}
  /\ FlushBarriers
  /\ pass' = {} /\ used' = {}
  /\ UNCHANGED <<queue, completed, refs, asked, handed>>

(* The list ends without its last batch, a mistake. *)
CompleteWithoutFlush ==
  /\ Outside
  /\ completed' = TRUE /\ used' = {}
  /\ UNCHANGED <<queue, pass, pending, refs, asked, layout, owner, handed>>

Complete ==
  /\ Outside
  /\ FlushBarriers
  /\ completed' = TRUE /\ used' = {}
  /\ UNCHANGED <<queue, pass, refs, asked, handed>>

(* GetCommandBuffer: the next list, of any queue. *)
GetCommandBuffer(q) ==
  /\ completed
  /\ queue' = q /\ completed' = FALSE
  /\ pending' = <<>> /\ refs' = {}
  /\ UNCHANGED <<pass, asked, layout, owner, handed, used>>

Next ==
  \/ \E i \in Image, l \in Layout : ImageBarrier(i, l)
  \/ \E i \in Image, q \in Queue : TransferImageOwnership(i, q) \/ AcquireImageOwnership(i, q)
  \/ \E i \in Image : CopyBufferToImage(i) \/ CopyImageToBuffer(i) \/ ClearUnorderedAccessView(i)
  \/ \E src, dst \in Image : CopyImageToImage(src, dst) \/ BlitImageToImage(src, dst)
  \/ \E S \in SUBSET Image : Dispatch(S) \/ BeginRenderPass(S)
  \/ Draw \/ EndRenderPass \/ Complete
  \/ \E q \in Queue : GetCommandBuffer(q)

Spec == Init /\ [][Next]_vars

-----------------------------------------------------------------------------

(* A command finds every image that never changed queues in the layout the *)
(* code names for it: no barrier is lost at the end of a list, left behind *)
(* a command, or put into the stream a second time.                        *)
CommandsFindTheirLayouts ==
  \A u \in used : u[1] \notin handed => u[2] = u[3]

(* A list that moves a swap chain's image between layouts has the swap     *)
(* chain among its references, so its submit waits for the acquire and     *)
(* signals the present, however late the batch with the barrier is put in. *)
SwapMovesAreKnown ==
  [][\A i \in SwapImage : layout'[i] # layout[i] => i \in refs']_vars

(* The tests clear an image right after they took it over from another     *)
(* queue: a handover leaves the layout as it is.  The barriers name        *)
(* UNDEFINED.                                                              *)
HandoverKeepsLayout == \A u \in used : u[2] = u[3]
=============================================================================

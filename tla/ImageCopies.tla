----------------------------- MODULE ImageCopies -----------------------------
(***************************************************************************)
(* Textures on their way through a staging buffer: CopyAlignedTextureData  *)
(* writes their rows, CopyBufferToImage uploads them, CopyImageToBuffer    *)
(* reads them back, in src/RHIVulkan/Api/CommandBuffer.cpp and in          *)
(* src/RHIDX12/Api/CommandBuffer.cpp.  Several textures share one staging  *)
(* buffer and one buffer for what comes back, one after the other.         *)
(*                                                                         *)
(* What moves is a row of texels, or of blocks of a compressed format: it  *)
(* stands at a byte of a buffer, and it is found again only by who looks   *)
(* at that very byte.                                                      *)
(***************************************************************************)
EXTENDS Formats, FiniteSets

CONSTANTS
  Backend,     \* of {"vulkan", "d3d"}
  Texture,     \* 1 .. n, in the order in which they lie in the buffers
  Shape,       \* records [format, width, height, depth, layers] of images; heights are
               \* whole blocks, and an image has one layer or is one texel deep
  RowAlignment, OffsetAlignment   \* bufferImageRowAlignment, bufferImageCopyOffsetAlignment

VARIABLES
  backend,
  shape,       \* of each texture
  staging,     \* rows in the staging buffer: records [at, row]
  image,       \* of each texture: the row that is in the place of each of its rows
  returned     \* rows in the buffer that is read back

vars == <<backend, shape, staging, image, returned>>

Nothing == <<>>

Block(t) == GetFormatBlockInfo(shape[t].format)
Blocks(size, block) == (size + block - 1) \div block
RowWidth(t) == Blocks(shape[t].width, Block(t).blockWidth) * Block(t).bytesPerBlock
RowCount(t) == Blocks(shape[t].height, Block(t).blockHeight)

(* The rows of a texture: of which texture, layer, slice of its depth, row.*)
Rows(t) ==
  {t} \X (0 .. shape[t].layers - 1) \X (0 .. shape[t].depth - 1) \X (0 .. RowCount(t) - 1)

(* As callers compute it, from the bytes of a row. *)
ImageSubresourceRowPitch(t) == Align(RowWidth(t), RowAlignment)

StagingSize(t) ==
  GetRequiredStagingSize(shape[t].format, shape[t].width, shape[t].height,
                         shape[t].depth * shape[t].layers, RowAlignment)

(* bufferOffset: behind the textures that come before. *)
Offset[t \in Texture] ==
  IF t = 1 THEN 0 ELSE Align(Offset[t - 1] + StagingSize(t - 1), OffsetAlignment)

(* Rows in layers, slices and rows, each a stride behind the last one.     *)
Tight(t, row, layerStride, rowStride) ==
  row[2] * layerStride + (row[3] * RowCount(t) + row[4]) * rowStride

(* What CopyAlignedTextureData makes of a texture whose layers are slices. *)
StagedAt(t, row) ==
  LET pitch == ImageSubresourceRowPitch(t)
  IN  Offset[t] + Tight(t, row, shape[t].depth * RowCount(t) * pitch, pitch)

(* A Vulkan copy counts bufferRowLength in texels. *)
VulkanAt(t, row, rowLength) ==
  LET stride == (rowLength \div Block(t).blockWidth) * Block(t).bytesPerBlock
  IN  Offset[t] + Tight(t, row, shape[t].depth * RowCount(t) * stride, stride)

VulkanUploadInBlocks(t, row) ==
  VulkanAt(t, row, ImageSubresourceRowPitch(t) \div Block(t).bytesPerBlock)

VulkanUploadAt(t, row) ==
  VulkanAt(t, row,
    (ImageSubresourceRowPitch(t) \div Block(t).bytesPerBlock) * Block(t).blockWidth)

VulkanDownloadAt(t, row) ==
  VulkanAt(t, row, ImageSubresourceRowPitch(t) \div GetFormatSize(shape[t].format))

(* A Direct3D copy is of one layer, from the offset of its own footprint.  *)
D3DUploadTight(t, row) ==
  Tight(t, row, RowWidth(t) * RowCount(t) * shape[t].depth, RowWidth(t))

D3DUploadAt(t, row) ==
  LET bufferRowPitch == (ImageSubresourceRowPitch(t) \div Block(t).bytesPerBlock) * Block(t).blockWidth
  IN  Tight(t, row, bufferRowPitch * shape[t].height * shape[t].depth, ImageSubresourceRowPitch(t))

D3DDownloadAtStart(t, row) == Tight(t, row, 0, ImageSubresourceRowPitch(t))

D3DDownloadAt(t, row) == Offset[t] + Tight(t, row, 0, ImageSubresourceRowPitch(t))

UploadAt(t, row) == IF backend = "d3d" THEN D3DUploadAt(t, row) ELSE VulkanUploadAt(t, row)
DownloadAt(t, row) == IF backend = "d3d" THEN D3DDownloadAt(t, row) ELSE VulkanDownloadAt(t, row)

-----------------------------------------------------------------------------
Overlap(a, b) ==
  /\ a.at < b.at + RowWidth(b.row[1])
  /\ b.at < a.at + RowWidth(a.row[1])

(* Of rows written over one another the one of the last layer stays, as do *)
(* the rows that nothing is written over.                                  *)
Write(buffer, written) ==
  {old \in buffer : \A new \in written : ~Overlap(old, new)}
    \cup {new \in written : \A later \in written : later.row[2] > new.row[2] => ~Overlap(new, later)}

Find(buffer, at, length) ==
  IF \E found \in buffer : found.at = at /\ RowWidth(found.row[1]) = length
  THEN (CHOOSE found \in buffer : found.at = at /\ RowWidth(found.row[1]) = length).row
  ELSE Nothing

Own(t) == [row \in Rows(t) |-> row]

Init ==
  /\ backend \in Backend
  /\ shape \in [Texture -> Shape]
  /\ staging = {}
  /\ image = [t \in Texture |-> [row \in Rows(t) |-> Nothing]]
  /\ returned = {}

(* The caller fills in its part of the staging buffer, once. *)
CopyAlignedTextureData(t) ==
  /\ \A found \in staging : found.row[1] # t
  /\ staging' = Write(staging, {[at |-> StagedAt(t, row), row |-> row] : row \in Rows(t)})
  /\ UNCHANGED <<backend, shape, image, returned>>

Staged(t) == \A row \in Rows(t) : [at |-> StagedAt(t, row), row |-> row] \in staging

CopyBufferToImage(t) ==
  /\ Staged(t)
  /\ image' = [image EXCEPT ![t] = [row \in Rows(t) |-> Find(staging, UploadAt(t, row), RowWidth(t))]]
  /\ UNCHANGED <<backend, shape, staging, returned>>

(* External: passes fill an image as well. *)
Draw(t) ==
  /\ image' = [image EXCEPT ![t] = Own(t)]
  /\ UNCHANGED <<backend, shape, staging, returned>>

(* Only images that hold what they should: the rest is no news. *)
CopyImageToBuffer(t) ==
  /\ image[t] = Own(t)
  /\ returned' = Write(returned, {[at |-> DownloadAt(t, row), row |-> row] : row \in Rows(t)})
  /\ UNCHANGED <<backend, shape, staging, image>>

Next ==
  \E t \in Texture :
     \/ CopyAlignedTextureData(t) \/ CopyBufferToImage(t)
     \/ Draw(t) \/ CopyImageToBuffer(t)

Spec == Init /\ [][Next]_vars

-----------------------------------------------------------------------------
TypeOK ==
  /\ backend \in Backend /\ shape \in [Texture -> Shape]
  /\ staging \cup returned \subseteq [at : Nat, row : UNION {Rows(t) : t \in Texture}]
  /\ \A t \in Texture : image[t] \in [Rows(t) -> UNION {Rows(u) : u \in Texture} \cup {Nothing}]

(* The size that GetRequiredStagingSize names is enough: what one texture  *)
(* stages leaves what the others staged alone.                             *)
StagedApart ==
  \A t \in Texture :
     \/ Staged(t)
     \/ \A found \in staging : found.row[1] # t

WholeBlocks(t) == ImageSubresourceRowPitch(t) % Block(t).bytesPerBlock = 0

Uploaded(t) == image[t] # [row \in Rows(t) |-> Nothing]

(* On Vulkan an image gets the rows that were staged for it if the row     *)
(* pitch is a number of whole texels or blocks (three-byte texels and a    *)
(* pitch of powers of two are not), or if there is one row.                *)
VulkanUploadsLand ==
  \A t \in Texture :
     backend = "vulkan" /\ Staged(t) /\ WholeBlocks(t) /\ Uploaded(t) => image[t] = Own(t)

(* On Direct3D it gets them if they are at the start of the buffer, and if *)
(* there is one layer.  Other layers are found only where a block has as   *)
(* many bytes as it has texels: layers are counted off in texels.          *)
D3DUploadsLand ==
  \A t \in Texture :
     (/\ backend = "d3d" /\ Uploaded(t) /\ Offset[t] = 0
      /\ \/ shape[t].layers = 1
         \/ Block(t).bytesPerBlock = Block(t).blockWidth * Block(t).blockHeight /\ WholeBlocks(t))
       => image[t] = Own(t)

(* What was read back is in the buffer where the caller looks for it:      *)
(* on Vulkan for formats without blocks, on Direct3D one layer at a time.  *)
DownloadsReturn ==
  \A t \in Texture :
     (/\ \E found \in returned : found.row[1] = t
      /\ IF backend = "d3d" THEN shape[t].layers = 1 ELSE shape[t].format \notin Compressed /\ WholeBlocks(t)
      /\ \A u \in Texture \ {t} :
            IF backend = "d3d" THEN shape[u].layers = 1 ELSE shape[u].format \notin Compressed /\ WholeBlocks(u))
       => \A row \in Rows(t) : Find(returned, StagedAt(t, row), RowWidth(t)) = row

(* "Source buffer copy offset in bytes" (ICommandBuffer.hpp): an upload of *)
(* one layer finds it at its offset.  It does not on Direct3D, which asks  *)
(* for the footprint at the offset and then overwrites footprint.Offset.   *)
OffsetIsHeeded ==
  \A t \in Texture :
     shape[t].layers = 1 /\ WholeBlocks(t) /\ Staged(t) /\ Uploaded(t) => image[t] = Own(t)
=============================================================================

------------------------------- MODULE Formats -------------------------------
(***************************************************************************)
(* The formats of images and what is known about each of them: size and    *)
(* block of src/PyroRHI/Api/Util.hpp, and the DXGI formats the Direct3D    *)
(* backend uses in their place (src/RHIDX12/Core.hpp).  A format is its    *)
(* channels and how they are read; Inherit and Undefined are left out.     *)
(***************************************************************************)
EXTENDS Integers, TLC

(* What a format of these channels may be read as. *)
Bytes == {"Unorm", "Snorm", "Uint", "Sint", "Srgb"}
Words == {"Unorm", "Snorm", "Uint", "Sint", "Sfloat"}
Dwords == {"Uint", "Sint", "Sfloat"}

Block8 == ({"BC1RGB", "BC1RGBA"} \X {"Unorm", "Srgb"}) \cup ({"BC4"} \X {"Unorm", "Snorm"})
Block16 ==
  ({"BC2", "BC3", "BC7"} \X {"Unorm", "Srgb"}) \cup ({"BC5"} \X {"Unorm", "Snorm"})
    \cup ({"BC6H"} \X {"Ufloat", "Sfloat"})
Compressed == Block8 \cup Block16

Depths == {"D16", "X8D24", "D32"} \X {"Unorm", "Sfloat"} \ {<<"D32", "Unorm">>, <<"D16", "Sfloat">>, <<"X8D24", "Sfloat">>}
Stencils == {<<"S8", "Uint">>}
DepthStencils == {"D16S8", "D24S8", "D32S8"} \X {"Mixed"}

Format ==
  ({"R8", "RG8", "RGB8", "BGR8", "RGBA8", "BGRA8"} \X Bytes)
    \cup ({"A2RGB10"} \X (Bytes \ {"Srgb"}))
    \cup ({"R16", "RG16", "RGB16", "RGBA16"} \X Words)
    \cup ({"R32", "RG32", "RGB32", "RGBA32"} \X Dwords)
    \cup ({"BGRA4", "BGR565", "BGR5A1"} \X {"Unorm"})
    \cup ({"B10GR11", "E5BGR9"} \X {"Ufloat"})
    \cup Depths \cup Stencils \cup DepthStencils \cup Compressed

FormatHasDepth(f) == f \in Depths \cup DepthStencils
FormatHasStencil(f) == f \in Stencils \cup DepthStencils
FormatIsDepthStencil(f) == f \in Depths \cup Stencils \cup DepthStencils

(* How a value of the format is read: BC7 as Unorm is in no list.          *)
GetFormatNumericType(f) ==
  CASE f = <<"BC7", "Unorm">> -> "Other"
    [] f[2] \in {"Sfloat", "Ufloat", "Unorm", "Snorm", "Srgb"} -> "Float"
    [] f[2] = "Sint" -> "SignedInt"
    [] f[2] = "Uint" -> "UnsignedInt"
    [] OTHER -> "Mixed"

(* A plane counts for one, whichever there are; BC4 is in no list.         *)
GetFormatComponentCount(f) ==
  CASE f[1] \in {"R8", "R16", "R32"} \/ FormatIsDepthStencil(f) -> 1
    [] f[1] \in {"RG8", "RG16", "RG32", "BC5"} -> 2
    [] f[1] \in {"BGR565", "RGB8", "BGR8", "RGB16", "RGB32", "B10GR11", "E5BGR9", "BC1RGB", "BC6H"} -> 3
    [] f[1] = "BC4" -> 0
    [] OTHER -> 4

(* In bytes, of a block where there are blocks; 0 if there is no answer.   *)
GetFormatSize(f) ==
  CASE f[1] \in {"R8", "S8"} -> 1
    [] f[1] \in {"RG8", "BGRA4", "BGR565", "BGR5A1", "R16", "D16"} -> 2
    [] f[1] \in {"RGB8", "BGR8", "D16S8"} -> 3
    [] f[1] \in {"RGBA8", "BGRA8", "A2RGB10", "RG16", "R32", "B10GR11", "E5BGR9",
                 "X8D24", "D32", "D24S8"} -> 4
    [] f[1] = "RGB16" -> 6
    [] f[1] \in {"RGBA16", "RG32"} -> 8
    [] f[1] = "RGB32" -> 12
    [] f[1] = "RGBA32" -> 16
    [] f \in Block8 -> 8
    [] f \in Block16 -> 16
    [] OTHER -> 0

GetFormatBlockInfo(f) ==
  IF f \in Compressed
  THEN [blockWidth |-> 4, blockHeight |-> 4, bytesPerBlock |-> IF f \in Block8 THEN 8 ELSE 16]
  ELSE [blockWidth |-> 1, blockHeight |-> 1, bytesPerBlock |-> GetFormatSize(f)]

Align(n, to) == ((n + to - 1) \div to) * to

StagingSizeUnaligned(f, width, height, depth, rowAlignment) ==
  width * height * depth * GetFormatSize(f)

(* Rows of blocks for a compressed image, rows of texels for another one.  *)
GetRequiredStagingSize(f, width, height, depth, rowAlignment) ==
  IF f \in Compressed
  THEN Align(((width + 3) \div 4) * (IF f \in Block8 THEN 8 ELSE 16), rowAlignment)
         * ((height + 3) \div 4) * depth
  ELSE Align(width * GetFormatSize(f), rowAlignment) * height * depth

-----------------------------------------------------------------------------
(* DXGI: a family of formats that can be views of one another, and how its *)
(* channels are read.                                                      *)

Unknown == <<"UNKNOWN", "none">>

Row(family, readings) == [family |-> family, readings |-> readings]
DxgiTable ==
     "R8" :> Row("R8", Bytes \ {"Srgb"}) @@ "RG8" :> Row("R8G8", Bytes \ {"Srgb"})
  @@ "RGBA8" :> Row("R8G8B8A8", Bytes) @@ "BGRA8" :> Row("B8G8R8A8", {"Unorm", "Srgb"})
  @@ "A2RGB10" :> Row("R10G10B10A2", {"Unorm", "Uint"})
  @@ "R16" :> Row("R16", Words) @@ "RG16" :> Row("R16G16", Words)
  @@ "RGBA16" :> Row("R16G16B16A16", Words)
  @@ "R32" :> Row("R32", Dwords) @@ "RG32" :> Row("R32G32", Dwords)
  @@ "RGB32" :> Row("R32G32B32", Dwords) @@ "RGBA32" :> Row("R32G32B32A32", Dwords)
  @@ "BGRA4" :> Row("B4G4R4A4", {"Unorm"}) @@ "BGR565" :> Row("B5G6R5", {"Unorm"})
  @@ "BGR5A1" :> Row("B5G5R5A1", {"Unorm"})
  @@ "B10GR11" :> Row("R11G11B10", {"Ufloat"}) @@ "E5BGR9" :> Row("R9G9B9E5", {"Ufloat"})
  @@ "D16" :> Row("R16", {"Unorm"}) @@ "D32" :> Row("R32", {"Sfloat"})
  @@ "S8" :> Row("R24G8", {"Uint"})
  @@ "D24S8" :> Row("R24G8", {"Mixed"}) @@ "D32S8" :> Row("R32G8X24", {"Mixed"})
  @@ "BC1RGB" :> Row("BC1", {"Unorm", "Srgb"}) @@ "BC1RGBA" :> Row("BC1", {"Unorm", "Srgb"})
  @@ "BC2" :> Row("BC2", {"Unorm", "Srgb"}) @@ "BC3" :> Row("BC3", {"Unorm", "Srgb"})
  @@ "BC4" :> Row("BC4", {"Unorm", "Snorm"}) @@ "BC5" :> Row("BC5", {"Unorm", "Snorm"})
  @@ "BC6H" :> Row("BC6H", {"Ufloat", "Sfloat"}) @@ "BC7" :> Row("BC7", {"Unorm", "Srgb"})

ToDXGIFormat(f) ==
  IF f[1] \in DOMAIN DxgiTable /\ f[2] \in DxgiTable[f[1]].readings
  THEN <<DxgiTable[f[1]].family, IF FormatHasDepth(f) THEN "depth" ELSE f[2]>>
  ELSE Unknown

(* Six formats get a typed format here, and E5BGR9Ufloat one of palettes.  *)
ToDXGIFormatTypeless(f) ==
  CASE ToDXGIFormat(f) = Unknown -> Unknown
    [] f[1] = "E5BGR9" -> <<"P8", "Unorm">>
    [] f[1] \in {"BGRA4", "BGR565", "BGR5A1", "B10GR11", "S8"} \/ f = <<"RG16", "Unorm">> -> ToDXGIFormat(f)
    [] OTHER -> <<ToDXGIFormat(f)[1], "typeless">>

(* External: bytes of a texel, or a block, of a family. *)
DxgiSize(family) ==
  CASE family = "R8" -> 1
    [] family \in {"R8G8", "R16", "B4G4R4A4", "B5G6R5", "B5G5R5A1"} -> 2
    [] family \in {"R8G8B8A8", "B8G8R8A8", "R10G10B10A2", "R16G16", "R32", "R11G11B10", "R9G9B9E5", "R24G8"} -> 4
    [] family \in {"R16G16B16A16", "R32G32", "R32G8X24", "BC1", "BC4"} -> 8
    [] family = "R32G32B32" -> 12
    [] OTHER -> 16

(* External: a view of a typed resource has its format, one of a typeless  *)
(* resource any format of its family.                                      *)
Castable(resource, view) ==
  IF resource[2] = "typeless" THEN resource[1] = view[1] ELSE resource = view
=============================================================================

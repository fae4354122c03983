------------------------------ MODULE Subranges ------------------------------
(***************************************************************************)
(* The parts of images and buffers that callers name, and what the RHI     *)
(* computes with them: ImageMipArraySlice, ImageArraySlice, ImageSlice and *)
(* BufferRegion of src/PyroRHI/Api/Types.hpp.  A range is a first index and*)
(* a count, in unsigned integers that wrap; a slice is a range of levels   *)
(* and a range of layers.  A caller subtracts what it has dealt with from  *)
(* what is left, as streaming and barrier code does.                       *)
(***************************************************************************)
EXTENDS Integers, FiniteSets

CONSTANT Modulus    \* 2^32 of the levels and layers, 2^64 of the bytes

VARIABLES
  what,      \* "image" or "buffer"
  left,      \* the pieces that are left: slices, or ranges of bytes
  taken      \* the subresources, or bytes, that were dealt with

vars == <<what, left, taken>>

Max == Modulus - 1          \* PYRO_REMAINING_*, PYRO_MAX_DEVICE_SIZE
End(r) == (r[1] + r[2]) % Modulus
Lesser(a, b) == IF a < b THEN a ELSE b
Greater(a, b) == IF a > b THEN a ELSE b

Contains(r, q) == r[1] <= q[1] /\ End(r) >= End(q)
Intersects(r, q) == ~(q[1] >= End(r) \/ End(q) <= r[1])
Intersect(r, q) ==
  IF ~Intersects(r, q) THEN <<0, 0>>
  ELSE LET first == Greater(r[1], q[1])
       IN  <<first, Lesser(End(r), End(q)) - first>>

(* What comes before a range, and what comes after it. *)
Before(r, q) == IF q[1] > r[1] THEN {<<r[1], q[1] - r[1]>>} ELSE {}
After(r, q) == IF End(q) < End(r) THEN {<<End(q), End(r) - End(q)>>} ELSE {}

RegionSubtractInclusive(r, q) ==
  IF ~Intersects(r, q) THEN {r} ELSE {<<b[1], b[2] + 1>> : b \in Before(r, q)} \cup After(r, q)

RegionSubtract(r, q) ==
  IF ~Intersects(r, q) THEN {r} ELSE Before(r, q) \cup After(r, q)

SliceContains(s, t) == Contains(s[1], t[1]) /\ Contains(s[2], t[2])
SliceIntersects(s, t) == Intersects(s[1], t[1]) /\ Intersects(s[2], t[2])
SliceIntersect(s, t) ==
  IF ~SliceIntersects(s, t) THEN <<<<0, 0>>, <<0, 0>>>>
  ELSE <<Intersect(s[1], t[1]), Intersect(s[2], t[2])>>

SubtractOfAllLevels(s, t) ==
  IF ~SliceIntersects(s, t) THEN {s}
  ELSE LET inter == SliceIntersect(s, t)
       IN  ((Before(s[1], inter[1]) \cup After(s[1], inter[1])) \X {s[2]})
             \cup ({s[1]} \X (Before(s[2], inter[2]) \cup After(s[2], inter[2])))

(* All layers of the levels above and below; of the levels of the          *)
(* intersection the layers before and behind it.                           *)
SliceSubtract(s, t) ==
  IF ~SliceIntersects(s, t) THEN {s}
  ELSE LET inter == SliceIntersect(s, t)
       IN  ((Before(s[1], inter[1]) \cup After(s[1], inter[1])) \X {s[2]})
             \cup ({inter[1]} \X (Before(s[2], inter[2]) \cup After(s[2], inter[2])))

(* ContainedIn of one level's layers, and of one subresource.  Slice takes *)
(* indices that count from the slice.                                      *)
ArraySliceContainedIn(level, layers, s) ==
  s[1][1] <= level /\ level < End(s[1]) /\ s[2][1] <= layers[1] /\ End(layers) <= End(s[2])
ImageSliceContainedIn(level, layer, s) ==
  s[1][1] <= level /\ level < End(s[1]) /\ s[2][1] <= layer /\ layer < End(s[2])
SliceOf(s, level, layer) == <<s[1][1] + level, s[2][1] + layer>>

-----------------------------------------------------------------------------
(* Ranges that end where numbers do: those that do not wrap are what their *)
(* count says.                                                             *)
Range == {r \in (0 .. Max) \X (1 .. Max) : r[1] + r[2] <= Max}
Cells(r) == r[1] .. r[1] + r[2] - 1
Covers(s) == Cells(s[1]) \X Cells(s[2])
Whole == <<0, Max>>         \* as a slice or region is by default

Init ==
  /\ what \in {"image", "buffer"}
  /\ left = IF what = "image" THEN {<<Whole, Whole>>} ELSE {Whole}
  /\ taken = {}

TakeSlice(s) ==
  /\ what = "image"
  /\ left' = UNION {SliceSubtract(piece, s) : piece \in left}
  /\ taken' = taken \cup Covers(s)
  /\ UNCHANGED what

TakeRegion(r) ==
  /\ what = "buffer"
  /\ left' = UNION {RegionSubtract(piece, r) : piece \in left}
  /\ taken' = taken \cup Cells(r)
  /\ UNCHANGED what

Next == (\E s \in Range \X Range : TakeSlice(s)) \/ (\E r \in Range : TakeRegion(r))

Spec == Init /\ [][Next]_vars

-----------------------------------------------------------------------------
CellsOf(piece) == IF what = "image" THEN Covers(piece) ELSE Cells(piece)
All == IF what = "image" THEN Cells(Whole) \X Cells(Whole) ELSE Cells(Whole)

TypeOK ==
  /\ what \in {"image", "buffer"}
  /\ left \subseteq (IF what = "image" THEN Range \X Range ELSE Range)
  /\ taken \subseteq All

(* After any sequence of subtractions the pieces are what was not taken,   *)
(* and none of it twice.                                                   *)
LeftIsTheRest == UNION {CellsOf(piece) : piece \in left} = All \ taken

PiecesApart ==
  \A p, q \in left : p # q => CellsOf(p) \cap CellsOf(q) = {}

(* The predicates and the intersection agree with the sets of subresources *)
(* that slices stand for, for each piece that comes up and each slice.     *)
PredicatesAgree ==
  \A piece \in left :
     IF what = "image"
     THEN \A s \in Range \X Range :
            /\ SliceContains(piece, s) <=> Covers(s) \subseteq Covers(piece)
            /\ SliceIntersects(piece, s) <=> Covers(s) \cap Covers(piece) # {}
            /\ Covers(SliceIntersect(piece, s)) = Covers(s) \cap Covers(piece)
            /\ ArraySliceContainedIn(s[1][1], s[2], piece) <=> {s[1][1]} \X Cells(s[2]) \subseteq Covers(piece)
            /\ ImageSliceContainedIn(s[1][1], s[2][1], piece) <=> <<s[1][1], s[2][1]>> \in Covers(piece)
            /\ <<s[1][1], s[2][1]>> \in Covers(piece) <=>
                 \E i \in 0 .. piece[1][2] - 1, j \in 0 .. piece[2][2] - 1 :
                    SliceOf(piece, i, j) = <<s[1][1], s[2][1]>>
     ELSE \A r \in Range :
            /\ Contains(piece, r) <=> Cells(r) \subseteq Cells(piece)
            /\ Intersects(piece, r) <=> Cells(r) \cap Cells(piece) # {}
            /\ Cells(Intersect(piece, r)) = Cells(r) \cap Cells(piece)
=============================================================================

------------------------------- MODULE Tiling -------------------------------
(***************************************************************************)
(* How a photo is cut into overlapping tiles (image_processing.py).  The    *)
(* two axes are cut the same way and independently, so the operators speak  *)
(* of one axis: a tile is the pixels start .. start + size.                 *)
(***************************************************************************)
EXTENDS Integers, FiniteSets

CONSTANTS TileGrowth,   \* what an enlarged tile gains besides a quarter (64 pixels)
          MaxTiles      \* MAX_TILES_PER_IMAGE

ASSUME TilingAssumption == TileGrowth \in Nat \ {0} /\ MaxTiles \in Nat \ {0}

Smaller(a, b) == IF a <= b THEN a ELSE b
Larger(a, b) == IF a <= b THEN b ELSE a

\* stride = max(1, int(tile_size * (1 - overlap))), the overlap in per cent.
Stride(size, overlap) == Larger(1, (size * (100 - overlap)) \div 100)

\* _axis_starts: every stride, and a last tile flush with the end.
AxisStarts(length, size, stride) ==
  IF length <= size THEN {0}
  ELSE {s \in 0 .. length - size : \E k \in 0 .. length : s = k * stride} \cup {length - size}

\* estimate_tile_count, on one axis
TileCount(length, size, overlap) == Cardinality(AxisStarts(length, size, Stride(size, overlap)))

\* create_tiles: while there are too many tiles, the tile grows, which it does
\* by a pixel at least, so that `length` times are enough.
Enlarged(length, s, overlap) ==
  IF TileCount(length, s, overlap) > MaxTiles /\ s < length
  THEN Smaller(length, (5 * s) \div 4 + TileGrowth)
  ELSE s
Grown(length, size, overlap) ==
  LET grown[n \in 0 .. length] ==
        IF n = 0 THEN size ELSE Enlarged(length, grown[n - 1], overlap)
  IN grown
GrownSize(length, size, overlap) == Grown(length, size, overlap)[length]
=============================================================================

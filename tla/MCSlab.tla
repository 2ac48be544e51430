------------------------------- MODULE MCSlab -------------------------------
(* Slab on small blocks, and the geometry of the real ones.                *)
EXTENDS Slab, TLC

CONSTANTS Small, Large

MCCaches == {Small, Large}

\* One cache with one unit of bits and one with two.
MCUnits == (Small :> 2) @@ (Large :> 4)

\* Two caches of the same num_entries, which pass blocks on unchanged.
MCTwins == (Small :> 2) @@ (Large :> 2)

\* One cache of large blocks.
MCOneCache == {Large}

(***************************************************************************)
(* num_entries and color as new_cache computes them for entries of size    *)
(* words, with blocks of 2^12 bytes, words of 8, and a header of 24.       *)
(***************************************************************************)
EntriesFor(size) == (8 * (4096 - 24)) \div (8 * 8 * size + 1) - 1
ColorFor(size) == (24 + 8 * ((EntriesFor(size) + 63) \div 64) + 8 - 1) \div 8

\* GeometryAssumption holds of the real caches, and their entries lie within
\* the block, up to the size at which a block has a single entry.
ASSUME RealGeometry ==
    \A size \in 1 .. 169 :
        /\ EntriesFor(size) >= 2 /\ EntriesFor(size) % 64 # 0
        /\ ColorFor(size) + EntriesFor(size) * size <= 4096 \div 8

=============================================================================

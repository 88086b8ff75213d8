------------------------- MODULE MCRoaringBitmap32 -------------------------
(***************************************************************************)
(* Small instances of RoaringBitmap32.                                     *)
(***************************************************************************)
EXTENDS RoaringBitmap32, TLC

NoUses == {}
LayoutOnSoftFrozen == {"layoutOnSoftFrozen"}
AsyncOnView == {"asyncOnView"}
ReplaceUnderView == {"replaceUnderView"}

\* Objects are interchangeable, and so are native bitmaps.
Symmetry == Permutations(Handle) \cup Permutations(Native)
=============================================================================

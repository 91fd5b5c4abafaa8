------------------------------- MODULE MC_Movie -------------------------------
EXTENDS Movie

\* Slots are only ever compared for equality.
SlotSymmetry == Permutations(Slots)
=============================================================================

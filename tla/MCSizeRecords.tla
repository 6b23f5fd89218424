--------------------------- MODULE MCSizeRecords ---------------------------
\* Symmetry for the runs of SizeRecords.
EXTENDS SizeRecords
RecSymmetry == Permutations(Face) \union Permutations(Cell) \union Permutations(Addr)
                 \union Permutations(Rec) \union Permutations(Thread)
=============================================================================

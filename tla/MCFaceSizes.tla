---------------------------- MODULE MCFaceSizes ----------------------------
\* Model values and symmetry for the runs of FaceSizes.
EXTENDS FaceSizes
Symmetry == Permutations(Face) \union Permutations(Cell)
              \union Permutations(Addr) \union Permutations(Thread)
=============================================================================

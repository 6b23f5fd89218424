---------------------------- MODULE MCLifecycle -----------------------------
\* Symmetry for the run of Lifecycle.
EXTENDS Lifecycle
LifeSymmetry == Permutations(Lib) \union Permutations(Face)
                  \union Permutations(Stream) \union Permutations(Glyph)
=============================================================================

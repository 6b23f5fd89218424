---------------------------- MODULE MCFtcManager ----------------------------
\* Symmetry for the runs of FtcManager.
EXTENDS FtcManager
FtcSymmetry == Permutations(Id) \union Permutations(Face) \union Permutations(Key)
                 \union Permutations(Node) \union Permutations(Cache)
=============================================================================

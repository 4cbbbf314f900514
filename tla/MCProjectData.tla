---------------------------- MODULE MCProjectData ----------------------------
EXTENDS ProjectData, TLC

CONSTANTS r1, r2, d1, d2

\* The second artifact goes on from the first; the first diverges from the second.
SomeArtifacts == {<<1>>, <<1, 2>>}
Symmetry == Permutations(Runs) \cup Permutations(Deleters)
=============================================================================

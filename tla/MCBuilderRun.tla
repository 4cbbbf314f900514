----------------------------- MODULE MCBuilderRun -----------------------------
EXTENDS BuilderRun, TLC

CONSTANTS r1, r2, c1, c2, p1, w

\* One run, or two of one conversation; one Project.
OneRun == r1 :> c1
OneConversation == (r1 :> c1) @@ (r2 :> c1)
OneProject == (c1 :> p1) @@ (c2 :> p1)
RunSymmetry == Permutations(Runs)
=============================================================================

--------------------------- MODULE MCForgePublish ---------------------------
(* Drafts, edits and what was there before range over all contents: what   *)
(* the engine writes and what the operator writes may be the same.  The    *)
(* merge treats each file alone, so one file shows what can become of it.  *)
EXTENDS ForgePublish, TLC

CONSTANTS c1, c2, c3, f1
OneFile == {f1}
ThreeContents == {c1, c2, c3}
Symmetry == Permutations(ThreeContents)
=============================================================================

---------------------------- MODULE MCGraduation ----------------------------
(* Two commands at a time, two categories of which one can be broken while *)
(* the other is counted, and one anchor more than a record keeps.          *)
EXTENDS Graduation, TLC

CONSTANTS p1, p2, c1, c2, a1, a2, a3
TwoProcesses == {p1, p2}
TwoCategories == {c1, c2}
ThreeAnchors == {a1, a2, a3}
Symmetry == Permutations(TwoProcesses) \cup Permutations(TwoCategories)
                \cup Permutations(ThreeAnchors)
=============================================================================

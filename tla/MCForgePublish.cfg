SPECIFICATION Spec
CONSTANTS
  Absent = Absent
  f1 = f1
  c1 = c1
  c2 = c2
  c3 = c3
  Overlap = FALSE
  Path <- OneFile
  Content <- ThreeContents
SYMMETRY Symmetry
INVARIANTS EditsKept ManifestTruthful Idempotent
PROPERTY MergeDelivers

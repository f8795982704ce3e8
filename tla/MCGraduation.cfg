SPECIFICATION TrackerSpec
CONSTANTS
  p1 = p1
  p2 = p2
  c1 = c1
  c2 = c2
  a1 = a1
  a2 = a2
  a3 = a3
  NoAnchor = NoAnchor
  Broken = Broken
  Corrupt = Corrupt
  Process <- TwoProcesses
  Category <- TwoCategories
  Anchor <- ThreeAnchors
  Threshold = 2
  MaxAnchors = 2
  MaxEvents = 4
SYMMETRY Symmetry
INVARIANTS TalliesExact NeverInvented CandidatesEarned

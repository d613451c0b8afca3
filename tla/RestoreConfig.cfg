SPECIFICATION Spec
CONSTANTS
  w1 = w1
  w2 = w2
  p1 = p1
  p2 = p2
  p3 = p3
  k1 = k1
  k2 = k2
  Workers <- MCWorkers
  Projects = {}
  Restored = {}
  Volatile = {}
  MaxProjects = 2
  Keys = {k1, k2}
  Kinds = {"config", "update"}
  Named = {}
  MaxUpdate = 3
SYMMETRY Symmetry
INVARIANTS LastPatchApplied

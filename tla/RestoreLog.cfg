SPECIFICATION Spec
CONSTANTS
  w1 = w1
  w2 = w2
  p1 = p1
  p2 = p2
  p3 = p3
  k1 = k1
  k2 = k2
  Workers <- MCWorkers
  Projects = {p1, p2, p3}
  Restored = {p1}
  Volatile = {p1}
  MaxProjects = 2
  Keys = {k1}
  Kinds = {"pull", "remove", "clear"}
  Named = {p1, p2}
  MaxUpdate = 3
SYMMETRY Symmetry
INVARIANTS TypeOK LogYieldsPulls QueuedIsCurrent PullsRestored

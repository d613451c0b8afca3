SPECIFICATION Spec
CONSTANTS
  w1 = w1
  w2 = w2
  w3 = w3
  Workers <- MCWorkers
  Nominals = {1, 3}
  MaxGeneration = 1
SYMMETRY Symmetry
PROPERTIES MaintainedAtNominal

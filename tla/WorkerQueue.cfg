SPECIFICATION Spec
CONSTANTS
  w1 = w1
  w2 = w2
  r1 = r1
  r2 = r2
  r3 = r3
  r4 = r4
  None = None
  Workers <- MCWorkers
  Requests <- MCRequests4
  Limits = {1, 2}
INVARIANTS TypeOK NoLostWakeup WaitersCounted
PROPERTIES AdmissionBound ClosedForGood CloseReleases ImplementsHandoff

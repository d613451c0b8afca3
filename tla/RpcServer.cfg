SPECIFICATION Spec
CONSTANTS
  Workers = {w1, w2}
  Tasks = {t1, t2}
  Main = Main
  Conf = Conf
  None = None
  Admins = {Conf}
  MayFail = TRUE
  MayHang = TRUE
  MaxDeaths = 2
  PressureNum = 1
  PressureDen = 2
INVARIANT TypeOK
INVARIANT BarrierIsSleep
INVARIANT DeathsAreNoticed
 
CHECK_DEADLOCK FALSE
PROPERTY ShutdownCompletes

SPECIFICATION Spec
CONSTANTS
  Workers = {w1, w2}
  Tasks = {t1}
  Main = Main
  Conf = Conf
  None = None
  Admins = {}
  MayFail = TRUE
  MayHang = FALSE
  MaxDeaths = 1
  PressureNum = 1
  PressureDen = 1
PROPERTY ScalingFailureStops
CHECK_DEADLOCK FALSE

SPECIFICATION Spec
CONSTANTS
  m1 = m1
  m2 = m2
  m3 = m3
  Msg = {m1, m2, m3}
  MaxTime = 3
  OnHost = TRUE
  None = None

PROPERTIES TimersEnd

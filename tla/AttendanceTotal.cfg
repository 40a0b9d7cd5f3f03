CONSTANTS
  t1 = t1
  t2 = t2
  t3 = t3
  p1 = p1
  p2 = p2
  Threads = {t1, t2, t3}
  People = {p1, p2}
  NoThread = NoThread
  MaxClock = 2
  MaxInFlight = 1
SPECIFICATION Spec
SYMMETRY Symmetry
INVARIANTS TotalIsTimeDifference

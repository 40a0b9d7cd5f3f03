CONSTANTS
  t1 = t1
  t2 = t2
  p1 = p1
  p2 = p2
  Threads = {t1, t2}
  People = {p1, p2}
  NoThread = NoThread
  MaxClock = 0
  MaxInFlight = 2
SPECIFICATION Spec
INVARIANTS OneRecordPerPerson

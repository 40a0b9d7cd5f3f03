CONSTANTS
  t1 = t1
  t2 = t2
  p1 = p1
  p2 = p2
  p3 = p3
  p4 = p4
  Threads = {t1, t2}
  People = {p1, p2, p3, p4}
  NoThread = NoThread
  MaxClock = 1
  MaxInFlight = 2
SPECIFICATION EarlierSpec
INVARIANTS TypeOK DuplicatesNeedRace FoundRecordIsOwn SizeCoversRecords
PROPERTIES OnlyOwnerUpdates DiesForAReason ImplementsBook AllServed

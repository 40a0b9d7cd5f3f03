CONSTANTS
  r1 = r1
  r2 = r2
  Server = Server
  Requests = {r1, r2}
  Posts = {r1}
  Impatient = {}
  PipeCap = 1
  MaxBody = 2
  MaxOutput = 2
SPECIFICATION Spec
PROPERTIES NoZombieLeft

CONSTANTS
  c1 = c1
  c2 = c2
  Listener = Listener
  Clients = {c1, c2}
  Scripts <- MCScripts
  Threads <- MCThreads
  MaxFd = 8
SPECIFICATION Spec
INVARIANTS TypeOK NumbersStay StrangerIsLater
PROPERTIES AllAccepted WholeAnswered

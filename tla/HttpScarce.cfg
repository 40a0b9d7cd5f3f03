CONSTANTS
  c1 = c1
  c2 = c2
  c3 = c3
  Nobody = Nobody
  Clients = {c1, c2, c3}
  MaxFd = 11
SPECIFICATION Spec
SYMMETRY Symmetry
INVARIANTS TypeOK OwnDescriptors OnlyPagesLeak RoomSuffices

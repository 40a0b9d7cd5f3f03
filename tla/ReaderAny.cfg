CONSTANTS
  BufSize = 4
  Requests <- AnyClient
SPECIFICATION Spec
INVARIANTS TypeOK LinesArePieces HeadEndsAtBlank BodyIntact ShortLinesFit
PROPERTIES Served

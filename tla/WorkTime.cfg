CONSTANTS
  Differences <- MCDifferences
  MaxCalls = 3
SPECIFICATION Spec
INVARIANTS TypeOK Conserved MatchesDivision
PROPERTIES CarriedIsKept Returns

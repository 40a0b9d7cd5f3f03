CONSTANTS
  Words <- MCWords
  Asks <- MCAsks
  Decimal <- MCDecimal
  Files <- MCFiles
  Locked <- MCLocked
  Folders <- MCFolders
  Show <- MCShow
  DataBaseShow <- MCDataBaseShow
  Nothing = Nothing
  Tables <- MCTables
  MaxRows = 3
  Inserted <- MCInserted
  Null = Null
  Empty = Empty
  ROW = 4
  SIZE = 2
SPECIFICATION Spec
INVARIANTS PostBooks

SPECIFICATION Spec
CONSTANTS
  filter = filter
  nat = nat
  empty = empty
  rules = rules
  Tables <- MCTables
  Filter = filter
  Contents <- MCContents
  Empty = empty
  NoTable = noTable
  NoFile = noFile
  AllTables = all
INVARIANTS
  BackupCoversChanges
  FailureIsClean
  ChangedIsTruthful
  CheckSeesDifferences
PROPERTIES
  OnlyRestoredTablesChange
  CheckModeIsReadOnly

SPECIFICATION FairSpec
CONSTANTS
  l1 = l1
  l2 = l2
  name1 = name1
  name2 = name2
  password = password
  subkey1 = subkey1
  subkey2 = subkey2
  Lookups <- MCLookups
  Names <- OneName
  Password = password
  Subkeys <- NoSubkey
  Nothing = nothing
  NoFile = noFile
  Mode = "write"
  Options <- Reading
  Inline = FALSE
  MaxTerms = 2
  MaxLookups = 3
  MaxNew = 6
  Faults = {"pass", "die"}
  Nobody = nobody
  Timeout = 2
  NoTimeout = noTimeout
CHECK_DEADLOCK FALSE
INVARIANTS
  ReturnedIsStored
PROPERTIES
  WaitsForLocksEnd

SPECIFICATION Spec
CONSTANTS
  l1 = l1
  l2 = l2
  name1 = name1
  name2 = name2
  password = password
  subkey1 = subkey1
  subkey2 = subkey2
  Lookups <- MCLookups
  Names <- OneName
  Password = password
  Subkeys <- OneSubkey
  Nothing = nothing
  NoFile = noFile
  Mode = "write"
  Options <- Creating
  Inline = FALSE
  MaxTerms = 1
  MaxLookups = 3
  MaxNew = 3
  Faults = {}
  Nobody = nobody
  Timeout = 2
  NoTimeout = noTimeout
CHECK_DEADLOCK FALSE
INVARIANTS
  ReturnedIsStored

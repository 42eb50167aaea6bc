SPECIFICATION Spec
CONSTANTS
  l1 = l1
  l2 = l2
  name1 = name1
  name2 = name2
  password = password
  subkey1 = subkey1
  subkey2 = subkey2
  Lookups <- MCLookups
  Names <- OneName
  Password = password
  Subkeys <- TwoSubkeys
  Nothing = nothing
  NoFile = noFile
  Mode = "readwrite"
  Options <- Keeping
  Inline = TRUE
  MaxTerms = 2
  MaxLookups = 2
  MaxNew = 4
  Faults = {"pass", "die"}
  Nobody = nobody
  Timeout = 2
  NoTimeout = noTimeout
CHECK_DEADLOCK FALSE
INVARIANTS
  NothingIsLost
PROPERTIES
  ImplementsSecretStore

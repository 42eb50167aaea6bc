SPECIFICATION KnownHostsSpec
CONSTANTS
  u1 = u1
  u2 = u2
  u3 = u3
  h1 = h1
  h2 = h2
  h3 = h3
  h4 = h4
  Users <- MCUsers
  Hosts <- MCHosts
  Target <- OneHost
  Global <- MCGlobal
  Recording <- MCRecording
  Nobody = nobody
  Timeout = 2
  NoTimeout = noTimeout
CHECK_DEADLOCK FALSE
PROPERTIES
  KeysAreKept

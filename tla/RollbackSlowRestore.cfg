SPECIFICATION Spec
CONSTANTS
  open = open
  web = web
  drop = drop
  stateful = stateful
  Rules <- MCRules
  Bad <- MCBad
  Stateful <- MCStateful
  NoFile = noFile
  MaxTimeout = 4
  Async = 4
  MaxStart = 0
  MaxApply = 1
  MaxNet = 1
  MaxJobs = 1
  Faults = {}
CHECK_DEADLOCK FALSE
INVARIANTS
  NeverLockedOut

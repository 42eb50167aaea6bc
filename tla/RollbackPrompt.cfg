SPECIFICATION FairSpec
CONSTANTS
  open = open
  web = web
  drop = drop
  stateful = stateful
  Rules <- MCRules
  Bad <- MCBad
  Stateful <- MCStateful
  NoFile = noFile
  MaxTimeout = 4
  Async = 4
  MaxStart = 0
  MaxApply = 0
  MaxNet = 1
  MaxJobs = 3
  Faults = {}
CHECK_DEADLOCK FALSE
INVARIANTS
  NeverLockedOut
  OutcomeIsTruthful
  GoodRulesAreKept
PROPERTIES
  ImplementsGuardedChange
  AccessIsRegained

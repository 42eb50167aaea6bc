SPECIFICATION FairSpec
CONSTANTS
  open = open
  web = web
  drop = drop
  stateful = stateful
  Rules <- MCRules
  Bad <- MCBad
  Stateful <- MCStateful
  NoFile = noFile
  MaxTimeout = 2
  Async = 2
  MaxStart = 1
  MaxApply = 1
  MaxNet = 1
  MaxJobs = 2
  Faults = {"early", "lock", "save", "controller", "overlap"}
CHECK_DEADLOCK FALSE
PROPERTIES
  ConfirmationNeedsAccess
  EveryRunEnds
  ReleasedJobsEnd

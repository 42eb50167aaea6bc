SPECIFICATION Spec
CONSTANTS
  ka = ka
  kb = kb
  spaced = spaced
  invalid = invalid
  argument = argument
  left = left
  right = right
  both = both
  v1 = v1
  v2 = v2
  web = web
  api = api
  Keys <- MCKeys
  Kept <- MCKept
  InBrackets <- MCInBrackets
  Invalid <- MCInvalid
  ArgNames <- MCArgNames
  ArgValues <- MCValues
  Bracketed <- MCBracketed
  Together <- MCTogether
  Given <- MCGiven
  Written <- MCWritten
  NoKey = noKey
  Longest = 3
  Section = section
  OtherSection = otherSection
  Option = option
  OtherOption = otherOption
  IniValues <- MCValues
  NoValue = noValue
  Asked <- MCAsked
  MaxLines = 3
  Backends <- MCBackends
  All = all
  WaitRetries = 3
  MaxSessions = 2
  ChangeTries = 3
  TimeoutPolls = 2
  Settings <- MCValues
  Unreliable = {"create", "startup", "sync", "snapshot", "mount", "tar", "copy", "destroy"}
  StartTries = 2
  DestroyTries = 2
  LxcRuns = 2
CHECK_DEADLOCK FALSE
INVARIANTS
  EditsAreRight
  Idempotent
  ChangeIsReported
  SuccessMeansSet
  SuccessIsState
  UnchangedIsUntouched
  AgainChangesNothing
  DirectoryArchiveRestores
PROPERTIES
  NoSessionIsCut
  IniAsAsked
  
  SuccessIsUnderWay
  RunsEnd

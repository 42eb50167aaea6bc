SPECIFICATION Spec
CONSTANTS
  p1 = p1
  p2 = p2
  Runs <- OneRun
  MaxReleases = 3
  Keeps = {0, 1, 2}
  CheckModes = {FALSE, TRUE}
  History = TRUE
  None = none
  Allowed = {"crash", "unmarked", "unknown", "unnamed"}
PROPERTIES
  ServedUntilRemoved
  CleanKeepsWhatIsAsked
  ChangedIsTruthful

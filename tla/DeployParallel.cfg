SPECIFICATION Spec
CONSTANTS
  p1 = p1
  p2 = p2
  Runs <- TwoRuns
  MaxReleases = 2
  Keeps = {1}
  CheckModes = {FALSE}
  History = FALSE
  None = none
  Allowed = {"parallel", "crash", "unmarked"}
SYMMETRY RunSymmetry
PROPERTIES
  CurrentNeverVanishes

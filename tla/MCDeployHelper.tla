---------------------------- MODULE MCDeployHelper ----------------------------
(* Runs of deploy_helper are interchangeable.                              *)
EXTENDS DeployHelper, TLC

CONSTANTS p1, p2

OneRun == {p1}
TwoRuns == {p1, p2}
RunSymmetry == Permutations(TwoRuns)

(* "the releases are ordered by creation date" (line 104): none is removed *)
(* while an older one is kept.  It does not hold, see "Where the code      *)
(* falls short" in the README.                                             *)
KeptAreNewest ==
  [][\A p \in Runs : Cleaned(p) =>
       \A kept \in dirs' \ {task[p].release} :
         \A gone \in seen[p].complete \ dirs' : gone < kept]_vars
=============================================================================

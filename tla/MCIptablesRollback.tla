-------------------------- MODULE MCIptablesRollback --------------------------
(* Two rulesets that accept connections, one that drops them all and one   *)
(* that only refuses the new ones.                                         *)
EXTENDS IptablesRollback

CONSTANTS open, web, drop, stateful

MCRules == {open, web, drop, stateful}
MCBad == {drop, stateful}
MCStateful == {stateful}

(* The action plugin is to "wait async task is finished and retrieve its   *)
(* final status" (module, line 606): no run ends with another status.  It  *)
(* does not hold, see "Where the code falls short" in the README.          *)
WaitsForFinalStatus == verdict # "unfinished"
=============================================================================

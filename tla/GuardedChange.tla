----------------------------- MODULE GuardedChange -----------------------------
(***************************************************************************)
(* What the rollback of iptables_state promises: a change of the rules is  *)
(* tried, and then either kept, which takes a proof that the host can      *)
(* still be reached, or undone.  A host is never left with rules it cannot *)
(* be reached under and nothing to go back to.                             *)
(***************************************************************************)
CONSTANTS Rules, Bad, Nothing

VARIABLES
  rules,    \* the rules in force
  fallback  \* the rules to go back to while a change is tried, or Nothing

gvars == <<rules, fallback>>

Init == rules \in Rules \ Bad /\ fallback = Nothing

Try(r) ==
  /\ fallback = Nothing
  /\ fallback' = rules
  /\ rules' = r

Keep ==
  /\ fallback # Nothing
  /\ rules \notin Bad
  /\ fallback' = Nothing
  /\ UNCHANGED rules

Undo ==
  /\ fallback # Nothing
  /\ rules' = fallback
  /\ fallback' = Nothing

Next == (\E r \in Rules : Try(r)) \/ Keep \/ Undo

Spec == Init /\ [][Next]_gvars
=============================================================================

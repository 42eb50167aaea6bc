--------------------------- MODULE MCIptablesState ---------------------------
(* Two tables and two contents: a table can be absent, empty or hold rules, *)
(* independently in the kernel, in the source and in the backup.            *)
EXTENDS IptablesState

CONSTANTS filter, nat, empty, rules

MCTables == {filter, nat}
MCContents == {empty, rules}

(* Check mode predicts 'changed' (doc_fragments/attributes.py line 18): it *)
(* reports a change only if the run would make one.  It does not hold, see *)
(* "Where the code falls short" in the README; no configuration checks it. *)
CheckPredictsChanged ==
  Ended("ok") /\ task.state = "restored" /\ task.check /\ ~task.noflush
  /\ result.changed
    => \E t \in Tables : Restored(t) /\ src[t] # before[t]

(* With noflush the run adds the rules of the source to those in force, so *)
(* that any rules in it are a change.  It does not hold either: a source   *)
(* equal to the rules in force is predicted to change nothing (line 548).  *)
CheckPredictsAdditions ==
  Ended("ok") /\ task.state = "restored" /\ task.check /\ task.noflush
  /\ (\E t \in Tables : Restored(t) /\ src[t] # Empty)
    => result.changed

(* A run that says it has not applied the source, because of a busy lock,  *)
(* has left the rules alone.  It does not hold: tables may be committed.   *)
LockedIsClean == Ended("locked") => SameRules(fw, pre)
=============================================================================

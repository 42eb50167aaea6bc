---------------------------- MODULE MCPasswordstore ----------------------------
(* Two processes of one user, and the options they may be called with.     *)
EXTENDS Passwordstore, TLC

CONSTANTS l1, l2, name1, name2, password, subkey1, subkey2

MCLookups == {l1, l2}
MCSymmetry == Permutations(MCLookups)
OneName == {name1}
TwoNames == {name1, name2}
OneSubkey == {subkey1}
TwoSubkeys == {subkey1, subkey2}
NoSubkey == {}

Plain == {o \in AllOptions : o.preserve /\ o.timestamp /\ o.missing_subkey = "empty"}

(* Lookups that read and create, and never overwrite.                      *)
Creating == {o \in Plain : ~o.overwrite /\ ~o.backup /\ o.missing = "create"}
Reading ==
  {o \in AllOptions : ~o.overwrite /\ ~o.backup /\ o.preserve /\ o.timestamp}

(* Lookups that begin as reads of the password, with backup, and become    *)
(* others by what their terms set.                                         *)
Keeping ==
  {o \in AllOptions : /\ o.preserve /\ o.backup /\ o.timestamp
                      /\ ~o.overwrite /\ o.key = password /\ o.missing = "error"}

(* "Create the password or the subkey if it does not already exist" (line  *)
(* 36): a lookup that is to create never returns without a value.  It does *)
(* not hold, see "Where the code falls short" in the README.               *)
CreateGivesAValue == \A a \in answers : a.asked => a.value # Nothing
=============================================================================

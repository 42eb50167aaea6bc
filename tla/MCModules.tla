------------------------------- MODULE MCModules -------------------------------
(* Five modules that change one thing of a host each: the PAM rules, an ini*)
(* file, a server of haproxy, a service of monit, a container.  They share *)
(* nothing, so a behaviour is one of one of them, and the others stay as   *)
(* they are.                                                               *)
EXTENDS Pamd, IniFile, Haproxy, Monit, LxcContainer

CONSTANTS ka, kb, spaced, invalid, argument, left, right, both, v1, v2, web, api

(* Rules of two keys, of which tasks may spell the first in another way,   *)
(* and of arguments two in brackets, and both of them in one.              *)
MCKeys == {ka, kb, spaced, invalid}
MCKept == [k \in MCKeys |-> IF k = spaced THEN ka ELSE k]
MCInBrackets == {ka, spaced}
MCInvalid == {invalid}
MCArgNames == {argument, left, right, both}
MCBracketed == {left, right, both}
MCTogether == <<both, v1>>
MCGiven == {{}, {<<argument, v2>>}, {<<left, v1>>, <<right, v1>>}}
MCWritten == {{}, {<<argument, v1>>}, {<<both, v1>>}}
MCValues == {v1, v2}
MCBackends == {web, api}

(* Of the tasks of ini_file that differ by the names of the values one is  *)
(* run; conditions, allow_no_value and the edits above the first section   *)
(* are not combined with the options for commented lines and spaces.       *)
MCAsked ==
  {t \in IniTasks :
     /\ t.values \in {<<>>, <<v1>>, <<v1, v2>>}
     /\ \A c \in t.conditions : c.values \in {<<>>, <<v1>>} /\ ~t.no_value
     /\ t.no_value \/ t.section = NoValue \/ t.conditions # {}
        => t.modify_inactive /\ ~t.ignore_spaces}

VARIABLE part

Parts == {"pamd", "ini_file", "haproxy", "monit", "lxc_container"}

vars == <<pamvars, inivars, havars, mvars, lvars, part>>

(* A part that has no turn.                                                *)
PamdOff == pamfile = <<>> /\ edits = MaxEdits
IniOff == inifile = <<>> /\ initask = NoTask /\ iniseen = FALSE /\ iniruns = MaxIniRuns
HaproxyOff == server = [b \in Backends |-> CHOOSE s \in Servers : TRUE] /\ hrun = Idle
MonitOff ==
  /\ svc = [value |-> "ok", pend |-> "none", queue |-> "none",
            configured |-> TRUE, known |-> TRUE, fresh |-> FALSE]
  /\ mrun = MonitIdle
LxcOff == box = (CHOOSE b \in LxcContainers : TRUE) /\ lrun = LxcIdle

Init ==
  /\ part \in Parts
  /\ IF part = "pamd" THEN PamdInit ELSE PamdOff
  /\ IF part = "ini_file" THEN IniInit ELSE IniOff
  /\ IF part = "haproxy" THEN HaInit ELSE HaproxyOff
  /\ IF part = "monit" THEN MonitInit ELSE MonitOff
  /\ IF part = "lxc_container" THEN LxcInit ELSE LxcOff

Next ==
  /\ UNCHANGED part
  /\ \/ part = "pamd" /\ PamdNext /\ UNCHANGED <<inivars, havars, mvars, lvars>>
     \/ part = "ini_file" /\ IniNext /\ UNCHANGED <<pamvars, havars, mvars, lvars>>
     \/ part = "haproxy" /\ HaNext /\ UNCHANGED <<pamvars, inivars, mvars, lvars>>
     \/ part = "monit" /\ MonitNext /\ UNCHANGED <<pamvars, inivars, havars, lvars>>
     \/ part = "lxc_container" /\ LxcNext /\ UNCHANGED <<pamvars, inivars, havars, mvars>>

(* A run goes on until it ends (see the specifications of the parts).      *)
Fairness == WF_havars(HaStep) /\ WF_mvars(MonitStep) /\ WF_lvars(LxcStep)

Spec == Init /\ [][Next]_vars /\ Fairness

(* Every run of haproxy, monit and lxc_container ends: none of their loops *)
(* waits for ever for a server, a service or a container, whatever it does.*)
RunsEnd == HaRunEnds /\ MonitRunsEnd /\ LxcRunEnds
=============================================================================

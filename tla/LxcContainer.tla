----------------------------- MODULE LxcContainer ------------------------------
(***************************************************************************)
(* The module lxc_container (plugins/modules/lxc_container.py): a run      *)
(* brings one container to a state, on the way may execute a command in    *)
(* it, configure it, archive it and clone it, and starts, stops or freezes *)
(* it for that.  Whatever a run calls may fail.  The choice state=clone, of*)
(* which there is no method (line 531), fails before it does anything and  *)
(* is left out.                                                            *)
(***************************************************************************)
EXTENDS Naturals, Sequences, SequencesExt

CONSTANTS
  Settings,   \* the values of the one key of the configuration that is set
  Unreliable, \* the calls that may fail
  StartTries, DestroyTries, \* timeout of _container_startup, _destroyed (60 in the code)
  LxcRuns     \* bound: the runs, one after the other

ASSUME LxcAssumption ==
  /\ StartTries \in Nat /\ DestroyTries \in Nat /\ LxcRuns \in Nat
  /\ Unreliable \subseteq {"create", "startup", "start", "stop", "freeze", "unfreeze",
                           "sync", "snapshot", "mount", "tar", "copy", "destroy"}

VARIABLES
  box,  \* the container, its backing store, and what is left in temporary places
  lrun  \* the run: its options, the steps that it has yet to do, what it has noted

lvars == <<box, lrun>>

LxcOptions ==
  [state : {"started", "stopped", "restarted", "frozen", "absent"}, command : BOOLEAN,
   config : Settings \cup {"none"}, archive : BOOLEAN, clone : BOOLEAN]

LxcIdle ==
  [op |-> [state |-> "none"], phase |-> "idle", todo |-> <<>>, tries |-> 0, changed |-> FALSE,
   error |-> FALSE, saved |-> "none", runs |-> 0, again |-> FALSE]

LxcContainers ==
  [state : {"absent", "stopped", "running", "frozen"}, lines : {<<>>} \cup {<<v>> : v \in Settings},
   lvm : BOOLEAN, snapshot : {FALSE}, mounted : {FALSE}, temp : {FALSE}, cloned : {FALSE}, touched : {FALSE}]

LxcInit == box \in LxcContainers /\ lrun = LxcIdle

Exists == box.state # "absent"

(* What a call leaves: its effect, or nothing when it fails.               *)
Calls(name, effect, before) == {effect} \cup (IF name \in Unreliable THEN {before} ELSE {})

Does(name) == lrun.phase = "run" /\ lrun.todo # <<>> /\ Head(lrun.todo) = name

(* For the properties, the container remembers that a run touched it.      *)
Becomes(s) == [box EXCEPT !.state = s, !.touched = @ \/ s # box.state]

(* The step is done; others come before the rest.  state_change is never   *)
(* taken back.  Mutant: each step sets it.                                 *)
ThenSets(steps, changed) ==
  lrun' = [lrun EXCEPT !.todo = steps \o Tail(@), !.changed = changed]
Then(steps, changed) ==
  lrun' = [lrun EXCEPT !.todo = steps \o Tail(@), !.changed = @ \/ changed]
After(changed) == Then(<<>>, changed)
Failed == lrun' = [lrun EXCEPT !.phase = "failed"]

LxcBegin(op) ==
  /\ lrun.phase \in {"idle", "done", "failed"} /\ lrun.runs < LxcRuns
  /\ lrun' = [LxcIdle EXCEPT
       !.op = op, !.phase = "run", !.todo = <<"method">>, !.runs = lrun.runs + 1,
       !.again = lrun.phase = "done" /\ lrun.op = op]
  /\ box' = [box EXCEPT !.touched = FALSE]

-----------------------------------------------------------------------------
(* The methods of the states.  Mutant: stops before what may start it.     *)

MethodStopsFirst ==
  [started    |-> <<"ensure", "command", "config", "archive", "clone">>,
   stopped    |-> <<"stop", "command", "config", "archive", "clone">>,
   restarted  |-> <<"command", "config", "stop", "startup", "archive", "clone">>,
   frozen     |-> <<"command", "config", "frozen", "archive", "clone">>,
   absent     |-> <<"destroyed">>]

Method ==
  [started    |-> <<"ensure", "command", "config", "archive", "clone">>,
   stopped    |-> <<"command", "config", "stop", "archive", "clone">>,
   restarted  |-> <<"command", "config", "stop", "startup", "archive", "clone">>,
   frozen     |-> <<"command", "config", "frozen", "archive", "clone">>,
   absent     |-> <<"destroyed">>]

(* check_count: a container that is not there after its creation is        *)
(* created once more, and then no more.                                    *)
RunMethod ==
  /\ Does("method")
  /\ IF Exists \/ lrun.op.state = "absent"
     THEN /\ lrun' = [lrun EXCEPT !.todo = Method[lrun.op.state], !.tries = 0]
          /\ UNCHANGED box
     ELSE \/ lrun.tries > 1 /\ Failed /\ UNCHANGED box
          \/ "create" \in Unreliable /\ Failed /\ UNCHANGED box
          \/ /\ lrun.tries <= 1
             /\ lrun' = [lrun EXCEPT !.tries = @ + 1, !.changed = TRUE]
             /\ \E s \in Calls("create", "stopped", "absent") :
                  box' = [Becomes(s) EXCEPT !.lines = <<>>]

EnsureStarted ==
  /\ Does("ensure")
  /\ \/ box.state = "running" /\ After(FALSE) /\ UNCHANGED box
     \/ box.state = "stopped" /\ Then(<<"startup">>, FALSE) /\ UNCHANGED box
     \/ /\ box.state = "frozen"
        /\ \E s \in Calls("unfreeze", "running", "frozen") :
             box' = Becomes(s) /\ After(s = "running")

Frozen ==
  /\ Does("frozen")
  /\ \/ box.state = "frozen" /\ After(FALSE)
     \/ box.state = "running" /\ Then(<<"freeze">>, TRUE)
     \/ box.state = "stopped" /\ Then(<<"startup", "freeze">>, TRUE)
  /\ UNCHANGED box

Freeze ==
  /\ Does("freeze")
  /\ \E s \in Calls("freeze", "frozen", box.state) : box' = Becomes(s)
  /\ After(FALSE)

Stop ==
  /\ Does("stop")
  /\ IF box.state = "stopped" THEN UNCHANGED box
     ELSE \E s \in Calls("stop", "stopped", box.state) : box' = Becomes(s)
  /\ After(box.state # "stopped")

(* _container_startup: the state is looked at before each try, and after   *)
(* the last one no more.                                                   *)
MoreTries == lrun.tries < StartTries

Startup ==
  /\ Does("startup")
  /\ \/ ~MoreTries /\ Failed /\ UNCHANGED box
     \/ /\ MoreTries /\ box.state = "running"
        /\ lrun' = [lrun EXCEPT !.todo = Tail(@), !.tries = 0]
        /\ UNCHANGED box
     \/ /\ MoreTries /\ box.state # "running"
        /\ lrun' = [lrun EXCEPT !.tries = @ + 1, !.changed = TRUE]
        /\ \E s \in Calls("startup", "running", box.state) : box' = Becomes(s)

(* _destroyed: a turn of its loop begins.                                  *)
Destroyed ==
  /\ Does("destroyed")
  /\ \/ lrun.tries >= DestroyTries /\ Failed
     \/ lrun.tries < DestroyTries /\ ~Exists /\ After(FALSE)
     \/ /\ lrun.tries < DestroyTries /\ Exists
        /\ lrun' = [lrun EXCEPT !.todo = <<"archive", "clone", "stop", "destroy">> \o @, !.tries = @ + 1]
  /\ UNCHANGED box

Destroy ==
  /\ Does("destroy")
  /\ \E s \in Calls("destroy", "absent", box.state) :
       box' = Becomes(s) /\ After(s = "absent")

-----------------------------------------------------------------------------
(* The command and the configuration.                                      *)

(* _execute_command                                                        *)
Command ==
  /\ Does("command")
  /\ \/ ~lrun.op.command /\ After(FALSE) /\ UNCHANGED box
     \/ lrun.op.command /\ box.state = "running" /\ After(TRUE) /\ UNCHANGED box
     \/ lrun.op.command /\ box.state = "stopped" /\ Then(<<"startup">>, TRUE) /\ UNCHANGED box
     \/ /\ lrun.op.command /\ box.state = "frozen" /\ After(TRUE)
        /\ \E s \in Calls("unfreeze", "running", "frozen") : box' = Becomes(s)

(* The lines of the key (all formatted as the module formats its own): the *)
(* new one comes after the first one, unless the file has it.  Mutant: it  *)
(* does not look.                                                          *)
WithSettingAlways(lines, v) ==
  CASE lines = <<>> -> <<v>>
    [] lines # <<>> /\ Head(lines) = v -> lines
    [] lines # <<>> /\ Head(lines) # v -> InsertAt(lines, 2, v)

WithSetting(lines, v) ==
  CASE lines = <<>> -> <<v>>
    [] lines # <<>> /\ Contains(lines, v) -> lines
    [] lines # <<>> /\ ~Contains(lines, v) -> InsertAt(lines, 2, v)

(* _config: a container that is not stopped is stopped for it and brought  *)
(* back.                                                                   *)
Back == [running |-> <<"startup">>, frozen |-> <<"startup", "freeze">>, stopped |-> <<>>]

Config ==
  LET v == lrun.op.config
      change == v # "none" /\ WithSetting(box.lines, v) # box.lines
  IN  /\ Does("config")
      /\ \/ ~change /\ After(FALSE) /\ UNCHANGED box
         \/ /\ change /\ Then(Back[box.state], TRUE)
            /\ \E s \in Calls("stop", "stopped", box.state) :
                 box' = [Becomes(s) EXCEPT !.lines = WithSetting(@, v), !.touched = TRUE]

-----------------------------------------------------------------------------
(* _check_archive and _container_create_tar.                               *)

(* Its finally clause, as steps.                                           *)
Finally == IF box.lvm THEN <<"unmount", "unsnapshot", "thaw">> ELSE <<"thaw">>

Archive ==
  /\ Does("archive")
  /\ \/ ~lrun.op.archive /\ After(FALSE) /\ UNCHANGED box
     \/ /\ lrun.op.archive
        /\ lrun' = [lrun EXCEPT
             !.todo = (IF box.lvm THEN <<"sync", "snapshot", "mount", "tar">> ELSE <<"sync", "tar">>)
                      \o Finally \o Tail(@),
             !.saved = box.state]
        /\ \E s \in (IF box.state = "running" THEN Calls("freeze", "frozen", "running") ELSE {box.state}) :
             box' = [Becomes(s) EXCEPT !.temp = TRUE]

(* What a failure in the try clause leads to: the finally clause, and then *)
(* the end of the run.                                                     *)
Raise == lrun' = [lrun EXCEPT !.todo = Finally, !.error = TRUE]

Sync ==
  /\ Does("sync")
  /\ After(~box.lvm) \/ ("sync" \in Unreliable /\ Raise)
  /\ UNCHANGED box

Snapshot ==
  /\ Does("snapshot")
  /\ \/ ~box.snapshot /\ box' = [box EXCEPT !.snapshot = TRUE] /\ After(FALSE)
     \/ (box.snapshot \/ "snapshot" \in Unreliable) /\ Raise /\ UNCHANGED box

Mount ==
  /\ Does("mount")
  /\ \/ box' = [box EXCEPT !.mounted = TRUE] /\ After(TRUE)
     \/ "mount" \in Unreliable /\ Raise /\ UNCHANGED box

Tar ==
  /\ Does("tar")
  /\ After(FALSE) \/ ("tar" \in Unreliable /\ Raise)
  /\ UNCHANGED box

(* What is not mounted cannot be unmounted: the failure ends the run.      *)
Unmount ==
  /\ Does("unmount")
  /\ IF box.mounted THEN box' = [box EXCEPT !.mounted = FALSE] /\ After(FALSE)
     ELSE Failed /\ UNCHANGED box

Unsnapshot ==
  /\ Does("unsnapshot")
  /\ box' = [box EXCEPT !.snapshot = FALSE]
  /\ After(FALSE)

(* Mutant: only when the archive was made.                                 *)
RestoresNotOnError == lrun.saved = "running" /\ ~lrun.error
Restores == lrun.saved = "running"

Thaw ==
  /\ Does("thaw")
  /\ \E s \in (IF ~Restores THEN {box.state}
               ELSE IF box.state = "frozen" THEN Calls("unfreeze", "running", "frozen")
               ELSE Calls("start", "running", box.state)) :
       box' = [Becomes(s) EXCEPT !.temp = FALSE]
  /\ \/ lrun.error /\ Failed
     \/ ~lrun.error /\ After(FALSE)

-----------------------------------------------------------------------------
(* _check_clone and _container_create_clone.                               *)

Clone ==
  /\ Does("clone")
  /\ \/ ~(lrun.op.clone /\ ~box.cloned) /\ After(FALSE) /\ UNCHANGED box
     \/ /\ lrun.op.clone /\ ~box.cloned
        /\ lrun' = [lrun EXCEPT !.todo = <<"copy">> \o Tail(@), !.saved = box.state,
                                !.changed = @ \/ box.state # "stopped"]
        /\ \E s \in Calls("stop", "stopped", box.state) : box' = Becomes(s)

(* The container that was stopped for it is started, and frozen.           *)
Copy ==
  /\ Does("copy")
  /\ \/ /\ box.state = "stopped" /\ After(TRUE)
        /\ \E s \in Calls("start", lrun.saved, "stopped") \cup
                    (IF lrun.saved = "frozen" THEN Calls("freeze", "frozen", "running") ELSE {}) :
             box' = [Becomes(s) EXCEPT !.cloned = TRUE, !.touched = TRUE]
     \/ (box.state # "stopped" \/ "copy" \in Unreliable) /\ Failed /\ UNCHANGED box

LxcFinish ==
  /\ lrun.phase = "run" /\ lrun.todo = <<>>
  /\ lrun' = [lrun EXCEPT !.phase = "done"]
  /\ UNCHANGED box

LxcStep ==
  \/ RunMethod \/ EnsureStarted \/ Frozen \/ Freeze \/ Stop \/ Startup \/ Destroyed \/ Destroy
  \/ Command \/ Config \/ Archive \/ Sync \/ Snapshot \/ Mount \/ Tar \/ Unmount \/ Unsnapshot
  \/ Thaw \/ Clone \/ Copy \/ LxcFinish

LxcNext == (\E op \in LxcOptions : LxcBegin(op)) \/ LxcStep

LxcSpec == LxcInit /\ [][LxcNext]_lvars /\ WF_lvars(LxcStep)

-----------------------------------------------------------------------------
(* Properties.                                                             *)

Wanted == [started |-> "running", restarted |-> "running", stopped |-> "stopped",
           frozen |-> "frozen", absent |-> "absent"]

(* After a success the container is in the state asked for, although the   *)
(* command, the configuration, the archive and the clone have each started,*)
(* stopped or frozen it on the way.                                        *)
SuccessIsState == lrun.phase = "done" => box.state = Wanted[lrun.op.state]

(* A run that reports no change has not touched the container: neither its *)
(* configuration, nor has it been stopped or frozen for a while.           *)
UnchangedIsUntouched == lrun.phase = "done" /\ ~lrun.changed => ~box.touched

(* The same run again, after a success, changes nothing (a restart, a      *)
(* command and an archive are made each time).                             *)
AgainChangesNothing ==
  /\ lrun.phase = "done" /\ lrun.again
  /\ lrun.op.state # "restarted" /\ ~lrun.op.command /\ ~lrun.op.archive
  => ~lrun.changed

(* An archive that fails leaves the container as it was and nothing in the *)
(* temporary places ("Restore the state of the container", line 1489).     *)
ArchiveRestores ==
  lrun.phase = "failed" /\ lrun.error =>
    box.state = lrun.saved /\ ~box.temp /\ ~box.mounted /\ ~box.snapshot

(* It holds for a container that is a directory.  For one on a logical     *)
(* volume it does not: the failure to unmount what was not mounted cuts the*)
(* cleaning up short.                                                      *)
DirectoryArchiveRestores == ~box.lvm => ArchiveRestores

(* A run ends: its loops are bounded.                                      *)
LxcRunEnds == lrun.phase = "run" ~> lrun.phase \in {"done", "failed"}

(* The configured value is the one that counts, the last one.  It does not *)
(* hold when the value goes back to an earlier one.  See the README.       *)
ConfigIsApplied ==
  lrun.phase = "done" /\ lrun.op.state # "absent" /\ lrun.op.config # "none" =>
    Last(box.lines) = lrun.op.config
=============================================================================

---------------------------- MODULE IptablesState ----------------------------
(***************************************************************************)
(* The iptables_state module (plugins/modules/iptables_state.py): one run  *)
(* saves the active tables of the kernel to a file, or restores tables     *)
(* from a file, with an optional backup to roll back to.  Runs follow each *)
(* other on one host.  The clock, the cookies and the controller of the    *)
(* asynchronous mode are the subject of IptablesRollback; here the         *)
(* confirmation simply arrives or does not.                                *)
(*                                                                         *)
(* A dump is what iptables-save prints and iptables-restore reads: the     *)
(* content of each table it declares, NoTable for the others.  A table     *)
(* the kernel has not loaded accepts everything, exactly like an Empty one.*)
(***************************************************************************)
EXTENDS Naturals

CONSTANTS
  Tables,     \* the tables of the kernel (TABLES in the source)
  Filter,     \* the table initialised when nothing at all is loaded
  Contents,   \* possible contents of a table: its policies and rules
  Empty,      \* the content of a table that was just initialised
  NoTable,    \* the table is not active, or not declared in a file
  NoFile,     \* the file does not exist
  AllTables   \* the 'table' option is not given

ASSUME TablesAssumption ==
  /\ Filter \in Tables
  /\ Empty \in Contents
  /\ NoTable \notin Contents
  /\ AllTables \notin Tables
  /\ NoFile \notin [Tables -> Contents \cup {NoTable}]

VARIABLES
  fw,       \* the rules in the kernel, table by table
  path,     \* the file given by the 'path' option
  back,     \* the backup file given by the '_back' option
  pc,       \* where the run is; "idle" between runs
  task,     \* the options of the current (or last) run
  pre,      \* history: fw when the run started
  src,      \* state_to_restore
  initial,  \* initial_state
  before,   \* tables_before, and initref_state: what SAVECOMMAND printed
  result    \* how the last run ended

files == <<path, back>>
locals == <<task, pre, src, initial, before>>
vars == <<fw, files, pc, locals, result>>

Dump == [Tables -> Contents \cup {NoTable}]
File == Dump \cup {NoFile}

(* async stands for "the action plugin gave _back and _timeout"; it only   *)
(* does for state=restored, and ansible-core refuses async in check mode.  *)
Task ==
  {t \in [state : {"saved", "restored"}, table : Tables \cup {AllTables},
          noflush : BOOLEAN, check : BOOLEAN, async : BOOLEAN] :
     /\ t.async => t.state = "restored" /\ ~t.check
     /\ t.noflush => t.state = "restored"}

(* "ok" is exit_json; "failed" is the module's own fail_json up to         *)
(* MAINCOMMAND, and "locked" the one after it (line 565); "aborted" is a   *)
(* command run with check_rc=True that failed, or a file not written.      *)
Result == [status : {"none", "ok", "failed", "locked", "aborted", "rolledback"},
           changed : BOOLEAN, applied : BOOLEAN]

NoDump == [t \in Tables |-> NoTable]

TypeOK ==
  /\ fw \in Dump
  /\ path \in File /\ back \in File
  /\ pc \in {"idle", "source", "init", "save", "test", "main", "confirm"}
  /\ task \in Task
  /\ pre \in Dump /\ src \in Dump /\ initial \in Dump /\ before \in Dump
  /\ result \in Result

Init ==
  /\ fw \in Dump
  /\ path \in File
  /\ back = NoFile
  /\ pc = "idle"
  /\ task = [state |-> "saved", table |-> AllTables, noflush |-> FALSE,
             check |-> FALSE, async |-> FALSE]
  /\ pre = fw
  /\ src = NoDump /\ initial = NoDump /\ before = NoDump
  /\ result = [status |-> "none", changed |-> FALSE, applied |-> FALSE]

-----------------------------------------------------------------------------
(* What the rules mean, and what the commands do to them.                  *)

Norm(c) == IF c = NoTable THEN Empty ELSE c
SameRules(d, e) == \A t \in Tables : Norm(d[t]) = Norm(e[t])

(* Mutant: the commands are not given the table.                           *)
SelectedAll(t) == TRUE
Selected(t) == task.table \in {AllTables, t}
Restored(t) == Selected(t) /\ src[t] # NoTable

(* iptables-save, with --table when the option is given (SAVECOMMAND).     *)
Saved(d) == [t \in Tables |-> IF Selected(t) THEN d[t] ELSE NoTable]

(* initialize_from_null_state: listing a table loads it.                   *)
Initialized(S) == [t \in Tables |-> IF t \in S THEN Empty ELSE fw[t]]

(* The tables that need it, as the run finds the kernel.  Mutant: only an  *)
(* empty output is taken care of.                                          *)
ToInitializeFromNull == IF fw = NoDump THEN {Filter} ELSE {}

ToInitialize ==
  IF task.table # AllTables
    THEN {t \in Tables : t = task.table /\ fw[t] = NoTable}
  ELSE IF task.state = "restored"
    THEN {t \in Tables : src[t] # NoTable /\ fw[t] = NoTable}
  ELSE IF fw = NoDump THEN {Filter} ELSE {}

(* iptables-restore commits table by table; S are the ones it committed.   *)
(* With --noflush the rules are added to those already there, which can    *)
(* give any content.                                                       *)
Committed(new, S) ==
  /\ new \in Dump
  /\ \A t \in Tables :
       IF t \in S THEN (IF task.noflush THEN new[t] # NoTable
                                        ELSE new[t] = src[t])
                  ELSE new[t] = fw[t]

(* Tables that iptables-restore reads from the backup (BACKCOMMAND, which  *)
(* was copied from MAINCOMMAND before --noflush was appended to it).       *)
(* Mutant: it was copied after.                                            *)
RolledBackNoFlush(S) ==
  [t \in Tables |-> IF t \in S /\ back[t] # Empty THEN back[t] ELSE fw[t]]
RolledBack(S) == [t \in Tables |-> IF t \in S THEN back[t] ELSE fw[t]]
InBackup == {t \in Tables : Selected(t) /\ back[t] # NoTable}

(* restored_state is neither the state before nor the whole initial state, *)
(* and one of its tables is new or has another content than before.        *)
(* Mutant: it is compared with the whole initial state.                    *)
DiffersFromInitial(after) == after # initial
Differs(after) ==
  /\ after \notin {before, initial}
  /\ \E t \in Tables : after[t] # NoTable /\ after[t] # before[t]

(* The restored_state of check mode.  Mutant: the test is reversed.        *)
PredictedReversed == IF path = initial THEN src ELSE initial
Predicted == IF path = initial THEN initial ELSE src

(* write_state.  Mutant: in check mode too.                                *)
WrittenAlways(file) == Saved(fw)
Written(file) == IF task.check THEN file ELSE Saved(fw)

Finish(status, changed, applied) ==
  /\ pc' = "idle"
  /\ result' = [status |-> status, changed |-> changed, applied |-> applied]
  /\ UNCHANGED locals

Goto(label) == pc' = label /\ UNCHANGED result

-----------------------------------------------------------------------------
(* A run of the module, step by step.                                      *)

Start(t) ==
  /\ pc = "idle"
  /\ pc' = "source"
  /\ task' = t
  /\ pre' = fw
  /\ src' = NoDump /\ initial' = NoDump /\ before' = NoDump
  /\ result' = [status |-> "none", changed |-> FALSE, applied |-> FALSE]
  /\ UNCHANGED <<fw, files>>

(* Options are validated and the source is read.                           *)
ReadSource ==
  /\ pc = "source"
  /\ \/ /\ task.state = "restored" /\ path # NoFile
        /\ src' = path
        /\ Goto("init")
        /\ UNCHANGED <<task, pre, initial, before>>
     \/ /\ task.state = "saved"
        /\ Goto("init")
        /\ UNCHANGED locals
     \/ (* missing source, bad modprobe *)
        Finish("failed", FALSE, FALSE)
  /\ UNCHANGED <<fw, files>>

InitTables ==
  /\ pc = "init"
  /\ IF task.state = "restored" /\ task.table # AllTables
        /\ src[task.table] = NoTable
       THEN /\ \E status \in {"failed", "aborted"} : Finish(status, FALSE, FALSE)
            /\ UNCHANGED fw
       ELSE \/ /\ fw' = Initialized(ToInitialize)
               /\ initial' = Initialized(ToInitialize)
               /\ Goto("save")
               /\ UNCHANGED <<task, pre, src, before>>
            \/ (* a command failed after some of the tables *)
               \E S \in SUBSET ToInitialize :
                 /\ fw' = Initialized(S)
                 /\ Finish("aborted", FALSE, FALSE)
  /\ UNCHANGED files

(* SAVECOMMAND, which takes the reference state, has check_rc.             *)
SaveFails ==
  /\ pc = "save"
  /\ Finish("aborted", FALSE, FALSE)
  /\ UNCHANGED <<fw, files>>

(* write_state, for state=saved: the file is replaced when it differs.  A  *)
(* copy that fails may leave it truncated.                                 *)
SaveState ==
  /\ pc = "save" /\ task.state = "saved"
  /\ before' = Saved(fw)
  /\ LET changed == path # Saved(fw) IN
       \/ /\ path' = Written(path)
          /\ result' = [status |-> "ok", changed |-> changed, applied |-> FALSE]
       \/ /\ changed /\ ~task.check
          /\ path' \in {path, NoDump}
          /\ result' = [status |-> "aborted", changed |-> FALSE,
                        applied |-> FALSE]
  /\ pc' = "idle"
  /\ UNCHANGED <<fw, back, task, pre, src, initial>>

(* The reference state is taken and, when asked for, backed up.            *)
SaveReference ==
  /\ pc = "save" /\ task.state = "restored"
  /\ before' = Saved(fw)
  /\ \/ /\ back' = IF task.async THEN Written(back) ELSE back
        /\ Goto("test")
     \/ /\ task.async /\ back # Saved(fw)
        /\ back' \in {back, NoDump}
        /\ pc' = "idle"
        /\ result' = [status |-> "aborted", changed |-> FALSE,
                      applied |-> FALSE]
  /\ UNCHANGED <<fw, path, task, pre, src, initial>>

(* iptables-restore --test, one table at a time.  In check mode the run    *)
(* ends here and reports what it would have restored.                      *)
TestSource ==
  /\ pc = "test"
  /\ \/ Finish("failed", FALSE, FALSE)
     \/ /\ task.check
        /\ Finish("ok", Differs(Predicted), TRUE)
     \/ /\ ~task.check
        /\ Goto("main")
        /\ UNCHANGED locals
  /\ UNCHANGED <<fw, files>>

(* MAINCOMMAND, then SAVECOMMAND.  Of the outcome of MAINCOMMAND only the  *)
(* words about a busy xtables lock are looked at, not the return code: they*)
(* are printed for any of the tables, and also when the lock is got at     *)
(* last, so they say nothing of the tables committed.                      *)
RunMain ==
  /\ pc = "main"
  /\ \E S \in SUBSET {t \in Tables : Restored(t)} :
       /\ Committed(fw', S)
       /\ \/ Finish("locked", FALSE, FALSE)
          \/ Finish("aborted", FALSE, FALSE)       \* SAVECOMMAND failed
          \/ /\ ~task.async
             /\ Finish("ok", Differs(Saved(fw')), TRUE)
          \/ /\ task.async
             /\ Goto("confirm")
             /\ UNCHANGED locals
  /\ UNCHANGED files

(* The controller removed the backup within the delay.                     *)
Confirmed ==
  /\ pc = "confirm"
  /\ back' = NoFile
  /\ Finish("ok", Differs(Saved(fw)), TRUE)
  /\ UNCHANGED <<fw, path>>

(* It did not: the rules of the backup come back, it is removed, and       *)
(* SAVECOMMAND shows the rules.  A failure of the first two leaves the     *)
(* backup, one of the third does not.                                      *)
Rollback ==
  /\ pc = "confirm" /\ back # NoFile
  /\ \/ /\ fw' = RolledBack(InBackup)
        /\ back' = NoFile
        /\ \/ Finish("rolledback", before # Saved(fw'), FALSE)
           \/ Finish("aborted", FALSE, FALSE)
     \/ \E S \in SUBSET InBackup :
          /\ fw' = RolledBack(S)
          /\ back' = back
          /\ Finish("aborted", FALSE, FALSE)
  /\ UNCHANGED path

Next ==
  \/ \E t \in Task : Start(t)
  \/ ReadSource
  \/ InitTables
  \/ SaveFails
  \/ SaveState
  \/ SaveReference
  \/ TestSource
  \/ RunMain
  \/ Confirmed
  \/ Rollback

Spec == Init /\ [][Next]_vars

-----------------------------------------------------------------------------
(* Properties.                                                             *)

Ended(status) == pc = "idle" /\ result.status = status

(* A run that reports a rollback, or a failure of its own up to MAINCOMMAND*)
(* (a missing source or table, a refused test), left every rule of the host*)
(* as it found it, whatever tables the source declared and however much of *)
(* it had been restored.  A run that fails on the busy lock is none of     *)
(* these: it may have committed tables.                                    *)
FailureIsClean ==
  Ended("failed") \/ Ended("rolledback") => SameRules(fw, pre)

(* Each table that is no longer what it was is in the backup as it was     *)
(* (the backup is taken after the missing tables are initialised, lines    *)
(* 451-473, so that it overrides every table that MAINCOMMAND can touch).  *)
ChangesAreBackedUp ==
  \A t \in Tables : Norm(fw[t]) # Norm(pre[t]) =>
    back # NoFile /\ t \in InBackup /\ Norm(back[t]) = Norm(pre[t])

(* An asynchronous run that ends half done, on a busy lock or a failing    *)
(* command.                                                                *)
LeftHalfDone == task.async /\ (Ended("locked") \/ Ended("aborted"))

(* While the confirmation is awaited, and when the run ends without a      *)
(* rollback although it may have changed tables, what it changed can be    *)
(* restored from the backup.                                               *)
BackupCoversChanges ==
  /\ pc = "confirm" => back # NoFile
  /\ pc = "confirm" \/ LeftHalfDone => ChangesAreBackedUp

(* For a run that really restores, 'changed' says exactly whether a table  *)
(* has other rules than before the run.                                    *)
ChangedIsTruthful ==
  (Ended("ok") \/ Ended("rolledback"))
  /\ task.state = "restored" /\ ~task.check
    => (result.changed <=> ~SameRules(fw, pre))

(* A table that is not selected, or that the source does not declare, is   *)
(* never given other rules, by the restoration or by the rollback.         *)
OnlyRestoredTablesChange ==
  [][\A t \in Tables : Norm(fw'[t]) # Norm(fw[t]) =>
       src[t] # NoTable /\ task.table \in {t, AllTables}]_vars

(* A run in check mode changes no rule and writes no file.                 *)
CheckModeIsReadOnly ==
  [][task.check /\ pc # "idle" => UNCHANGED files /\ SameRules(fw', fw)]_vars

(* Check mode, with noflush or without, predicts a change whenever a table *)
(* that it would restore differs in the source from what the run found,    *)
(* although it compares other dumps than those (lines 548-551).  With      *)
(* noflush that is not every change: rules equal to those in force are     *)
(* added again (CheckPredictsAdditions, which does not hold).              *)
CheckSeesDifferences ==
  Ended("ok") /\ task.state = "restored" /\ task.check
  /\ (\E t \in Tables : Restored(t) /\ src[t] # before[t])
    => result.changed

(* 'applied' is whether the wanted state has been successfully restored    *)
(* (line 141).                                                             *)
AppliedMeansRestored ==
  Ended("ok") /\ result.applied /\ ~task.check /\ ~task.noflush
    => \A t \in Tables : Restored(t) => fw[t] = src[t]

-----------------------------------------------------------------------------
(* Why a rollback is complete: what holds at each stage of a run.          *)

Restoring ==
  /\ pc \in {"test", "main", "confirm"} => task.state = "restored"
  /\ pc \in {"main", "confirm"} => ~task.check

(* Up to MAINCOMMAND the run has loaded tables, and changed no rule.       *)
NothingYet == pc \in {"source", "init", "save", "test", "main"} => SameRules(fw, pre)

(* Every table the run can touch is active by the time of the backup ...   *)
TablesActive ==
  pc \in {"save", "test", "main"} /\ task.state = "restored"
    => \A t \in Tables : Restored(t) => fw[t] # NoTable

(* ... so that the backup holds it.                                        *)
BackedUp == pc \in {"test", "main"} /\ task.async => back = Saved(fw)

ReadyToRollBack ==
  pc = "confirm" =>
    /\ back # NoFile
    /\ \A t \in Tables :
         /\ Restored(t) => back[t] # NoTable
         /\ back[t] # NoTable => Norm(back[t]) = Norm(pre[t])
         /\ ~Restored(t) => Norm(fw[t]) = Norm(pre[t])

Reversible ==
  /\ Restoring /\ NothingYet /\ TablesActive /\ BackedUp /\ ReadyToRollBack
  /\ FailureIsClean /\ (LeftHalfDone => ChangesAreBackedUp)
-----------------------------------------------------------------------------
(* Why 'changed' is right although it compares dumps of different breadth: *)
(* what the run remembers at each stage of how it found the tables.        *)

SourceIsFile == pc \in {"init", "save", "test"} /\ task.state = "restored" => src = path

(* The reference states are the rules in force when they were taken ...    *)
ReferenceTaken ==
  /\ pc = "save" => fw = initial
  /\ pc \in {"test", "main"} => fw = initial /\ before = Saved(fw)
  /\ pc \in {"save", "test", "main", "confirm"} => SameRules(initial, pre)

(* ... and then only the tables that are restored differ from them.        *)
ReferenceKept ==
  pc = "confirm" =>
    /\ back = before /\ before = Saved(initial)
    /\ \A t \in Tables : IF Restored(t) THEN fw[t] # NoTable /\ initial[t] # NoTable
                                        ELSE fw[t] = initial[t]

Compared ==
  /\ SourceIsFile /\ ReferenceTaken /\ ReferenceKept
  /\ ChangedIsTruthful /\ CheckSeesDifferences
=============================================================================

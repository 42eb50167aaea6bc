-------------------------- MODULE IptablesStateProofs --------------------------
(* Proofs about IptablesState.                                             *)
EXTENDS IptablesState, TLAPS

USE TablesAssumption

(* What the commands print and make of the tables is a dump.               *)
LEMMA DumpsTyped ==
  ASSUME TypeOK
  PROVE  /\ NoDump \in Dump /\ Saved(fw) \in Dump
         /\ \A S \in SUBSET Tables : Initialized(S) \in Dump
         /\ \A S \in SUBSET InBackup : back # NoFile => RolledBack(S) \in Dump
         /\ ToInitialize \subseteq Tables /\ InBackup \subseteq Tables
         /\ NoFile \notin Dump
BY DEF TypeOK, NoDump, Saved, Initialized, RolledBack, ToInitialize, InBackup, Dump,
       File

(* The end of a run gives a result and forgets nothing it compared.        *)
LEMMA FinishTyped ==
  ASSUME TypeOK, NEW status \in {"ok", "failed", "locked", "aborted", "rolledback"},
         NEW changed \in BOOLEAN, NEW applied \in BOOLEAN,
         Finish(status, changed, applied)
  PROVE  /\ pc' = "idle" /\ result' \in Result
         /\ UNCHANGED <<task, pre, src, initial, before>>
BY DEF Finish, Result, locals

(* Every variable keeps its type, whatever the tables and their contents.  *)
THEOREM TypeCorrect == Spec => []TypeOK
<1>1. Init => TypeOK
  BY DEF Init, TypeOK, Dump, File, NoDump, Task, Result
<1>2. TypeOK /\ [Next]_vars => TypeOK'
  <2> SUFFICES ASSUME TypeOK, [Next]_vars PROVE TypeOK'
    OBVIOUS
  <2> USE DumpsTyped, FinishTyped
  <2>1. ASSUME NEW t \in Task, Start(t) PROVE TypeOK'
    BY <2>1 DEF Start, TypeOK, Result, files
  <2>2. CASE ReadSource
    BY <2>2 DEF ReadSource, Goto, TypeOK, File, files, locals
  <2>3. CASE InitTables
    BY <2>3 DEF InitTables, Goto, TypeOK, files
  <2>4. CASE SaveState
    <3>1. PICK c \in BOOLEAN : c = (path # Saved(fw))
      OBVIOUS
    <3>2. result' \in Result
      <4>1. [status |-> "ok", changed |-> c, applied |-> FALSE] \in Result
        BY DEF Result
      <4>2. [status |-> "aborted", changed |-> FALSE, applied |-> FALSE] \in Result
        BY DEF Result
      <4>3. \/ result' = [status |-> "ok", changed |-> c, applied |-> FALSE]
            \/ result' = [status |-> "aborted", changed |-> FALSE, applied |-> FALSE]
        <5>1. \/ result' = [status |-> "ok", changed |-> path # Saved(fw),
                            applied |-> FALSE]
              \/ result' = [status |-> "aborted", changed |-> FALSE,
                            applied |-> FALSE]
          BY <2>4, Zenon DEF SaveState
        <5> QED
          BY <5>1, <3>1, Zenon
      <4> QED
        BY <4>1, <4>2, <4>3
    <3>3. path' \in File /\ before' \in Dump
      BY <2>4 DEF SaveState, Written, File, TypeOK
    <3> QED
      BY <2>4, <3>2, <3>3 DEF SaveState, TypeOK
  <2>5. CASE SaveReference
    <3>1. back' \in File /\ before' \in Dump
      BY <2>5 DEF SaveReference, Written, File, TypeOK
    <3>2. result' \in Result /\ pc' \in {"test", "idle"}
      <4>1. [status |-> "aborted", changed |-> FALSE, applied |-> FALSE] \in Result
        BY DEF Result
      <4> QED
        BY <2>5, <4>1 DEF SaveReference, Goto, TypeOK
    <3> QED
      BY <2>5, <3>1, <3>2 DEF SaveReference, TypeOK
  <2>6. CASE TestSource
    BY <2>6 DEF TestSource, Goto, TypeOK, files, locals, Differs
  <2>7. CASE RunMain
    BY <2>7 DEF RunMain, Committed, Goto, TypeOK, files, locals, Differs
  <2>8. CASE Confirmed
    BY <2>8 DEF Confirmed, TypeOK, File, Differs
  <2>9. CASE Rollback
    <3>1. back \in Dump
      BY <2>9 DEF Rollback, TypeOK, File
    <3> QED
      BY <2>9, <3>1 DEF Rollback, TypeOK, File
  <2>10. CASE SaveFails
    BY <2>10 DEF SaveFails, TypeOK, files
  <2>11. CASE UNCHANGED vars
    BY <2>11 DEF vars, files, locals, TypeOK
  <2> QED
    BY <2>1, <2>2, <2>3, <2>4, <2>5, <2>6, <2>7, <2>8, <2>9, <2>10, <2>11 DEF Next
<1> QED
  BY <1>1, <1>2, PTL DEF Spec

-----------------------------------------------------------------------------
(* Loading tables changes no rule, and the rules a run may have are those  *)
(* of its dumps.                                                           *)
LEMMA LoadingIsHarmless ==
  ASSUME TypeOK, NEW S \in SUBSET ToInitialize
  PROVE  SameRules(Initialized(S), fw)
BY DEF SameRules, Initialized, ToInitialize, NoDump, Norm, TypeOK, Dump

(* Having the same rules is transitive.                                    *)
LEMMA SameRulesTransitive ==
  ASSUME NEW d, NEW e, NEW f, SameRules(d, e), SameRules(e, f)
  PROVE  SameRules(d, f)
BY DEF SameRules

(* After the initialisation every table to be restored is active.          *)
LEMMA InitializationActivates ==
  ASSUME TypeOK, task.state = "restored",
         task.table # AllTables => src[task.table] # NoTable,
         NEW t \in Tables, Restored(t)
  PROVE  Initialized(ToInitialize)[t] # NoTable
BY DEF Restored, Selected, Initialized, ToInitialize, TypeOK, Dump

(* A run never changes a rule it could not restore.                        *)
LEMMA ReversibleStep ==
  ASSUME TypeOK, Reversible, Next
  PROVE  Reversible'
<1> USE DEF Reversible
<1>h. ASSUME SameRules(fw', pre') PROVE ChangesAreBackedUp'
  BY <1>h DEF ChangesAreBackedUp, SameRules
<1>1. ASSUME NEW t \in Task, Start(t) PROVE Reversible'
  BY <1>1 DEF Start, Restoring, NothingYet, TablesActive, BackedUp, ReadyToRollBack,
              FailureIsClean, LeftHalfDone, Ended, SameRules
<1>2. CASE ReadSource
  <2>1. fw' = fw /\ pre' = pre /\ pc' \in {"init", "idle"} /\ SameRules(fw, pre)
    BY <1>2 DEF ReadSource, Goto, Finish, locals, NothingYet
  <2>2. SameRules(fw', pre')
    BY <2>1
  <2> QED
    BY <2>1, <2>2, <1>h DEF Restoring, NothingYet, TablesActive, BackedUp, ReadyToRollBack,
                FailureIsClean
<1>3. CASE InitTables
  <2>1. UNCHANGED <<task, pre, src>> /\ SameRules(fw, pre)
    BY <1>3 DEF InitTables, Finish, locals, NothingYet
  <2>2. \/ fw' = fw /\ pc' = "idle"
        \/ \E S \in SUBSET ToInitialize : fw' = Initialized(S) /\ pc' = "idle"
        \/ /\ fw' = Initialized(ToInitialize) /\ pc' = "save"
           /\ task.state = "restored" /\ task.table # AllTables
                => src[task.table] # NoTable
    BY <1>3 DEF InitTables, Goto, Finish
  <2>3. SameRules(fw', pre)
    BY <2>1, <2>2, LoadingIsHarmless, SameRulesTransitive
  <2>4. TablesActive'
    BY <2>1, <2>2, InitializationActivates DEF TablesActive, Restored, Selected
  <2> QED
    BY <2>1, <2>2, <2>3, <2>4, <1>h
       DEF Restoring, NothingYet, BackedUp, ReadyToRollBack, FailureIsClean
<1>4. CASE SaveState \/ SaveFails
  <2>1. pc' = "idle" /\ SameRules(fw', pre')
    BY <1>4 DEF SaveState, SaveFails, Finish, locals, NothingYet
  <2> QED
    BY <2>1, <1>h DEF Restoring, NothingYet, TablesActive, BackedUp, ReadyToRollBack, FailureIsClean
<1>5. CASE SaveReference
  <2>1. /\ UNCHANGED <<fw, task, pre, src>> /\ task.state = "restored"
        /\ pc' \in {"test", "idle"} /\ SameRules(fw, pre) /\ TypeOK
    BY <1>5 DEF SaveReference, Goto, NothingYet
  <2>2. task.async => ~task.check
    BY DEF TypeOK, Task
  <2>3. pc' = "test" /\ task.async => back' = Saved(fw)
    BY <1>5, <2>2 DEF SaveReference, Goto, Written
  <2>4. TablesActive' /\ BackedUp'
    BY <1>5, <2>1, <2>3
       DEF SaveReference, TablesActive, BackedUp, Restored, Selected, Saved
  <2>5. SameRules(fw', pre')
    BY <2>1
  <2>6. pc' = "test" => task'.state = "restored"
    BY <2>1
  <2> QED
    BY <2>1, <2>4, <2>5, <2>6, <1>h DEF Restoring, NothingYet, ReadyToRollBack, FailureIsClean
<1>6. CASE TestSource
  <2>1. /\ UNCHANGED <<fw, back, task, pre, src>> /\ SameRules(fw, pre)
        /\ pc' = "idle" \/ (pc' = "main" /\ ~task.check)
    BY <1>6 DEF TestSource, Goto, Finish, files, locals, NothingYet
  <2>2. TablesActive' /\ BackedUp' /\ Restoring'
    BY <1>6, <2>1 DEF TestSource, TablesActive, BackedUp, Restoring, Restored,
                      Selected, Saved
  <2>3. SameRules(fw', pre')
    BY <2>1
  <2> QED
    BY <2>1, <2>2, <2>3, <1>h DEF NothingYet, ReadyToRollBack, FailureIsClean
<1>7. CASE RunMain
  <2>1. UNCHANGED <<back, task, pre, src>> /\ pc' \in {"idle", "confirm"}
    BY <1>7 DEF RunMain, Goto, Finish, files, locals
  <2>2. pc' = "idle" => result'.status \in {"ok", "locked", "aborted"}
    BY <1>7 DEF RunMain, Goto, Finish
  <2>3. ASSUME task.async
        PROVE  /\ back # NoFile
               /\ \A t \in Tables :
                    /\ Restored(t) => back[t] # NoTable
                    /\ back[t] # NoTable => Norm(back[t]) = Norm(pre[t])
                    /\ ~Restored(t) => Norm(fw'[t]) = Norm(pre[t])
    <3>1. back = Saved(fw) /\ SameRules(fw, pre)
      BY <1>7, <2>3 DEF RunMain, BackedUp, NothingYet
    <3>2. back # NoFile
      BY <3>1, DumpsTyped
    <3>3. \A t \in Tables : ~Restored(t) => fw'[t] = fw[t]
      BY <1>7 DEF RunMain, Committed
    <3>4. \A t \in Tables : Restored(t) => back[t] = fw[t] /\ fw[t] # NoTable
      BY <1>7, <3>1 DEF RunMain, Restoring, TablesActive, Restored, Saved
    <3>5. \A t \in Tables : back[t] # NoTable => back[t] = fw[t]
      BY <3>1 DEF Saved
    <3> QED
      BY <3>1, <3>2, <3>3, <3>4, <3>5 DEF SameRules
  <2>4. ReadyToRollBack'
    <3>1. pc' = "confirm" => task.async
      BY <1>7 DEF RunMain, Finish
    <3> QED
      BY <2>1, <2>3, <3>1 DEF ReadyToRollBack, Restored, Selected
  <2>5. task.async => ChangesAreBackedUp'
    BY <2>1, <2>3 DEF ChangesAreBackedUp, InBackup, Restored, Selected
  <2>6. (LeftHalfDone => ChangesAreBackedUp)'
    BY <2>1, <2>5 DEF LeftHalfDone
  <2> QED
    BY <1>7, <2>1, <2>2, <2>4, <2>6
       DEF RunMain, Restoring, NothingYet, TablesActive, BackedUp, FailureIsClean, Ended
<1>8. CASE Confirmed
  BY <1>8 DEF Confirmed, Finish, Restoring, NothingYet, TablesActive, BackedUp,
              ReadyToRollBack, FailureIsClean, LeftHalfDone, Ended
<1>9. CASE Rollback
  <2>1. UNCHANGED <<task, pre, src>> /\ pc' = "idle"
    BY <1>9 DEF Rollback, Finish, locals
  <2>2. ASSUME NEW S \in SUBSET InBackup, fw' = RolledBack(S)
        PROVE  \A t \in Tables : fw'[t] = IF t \in S THEN back[t] ELSE fw[t]
    BY <2>2 DEF RolledBack
  <2>3. ASSUME fw' = RolledBack(InBackup) PROVE SameRules(fw', pre')
    <3>1. \A t \in Tables : t \notin InBackup => ~Restored(t)
      BY <1>9 DEF Rollback, ReadyToRollBack, InBackup, Restored
    <3> QED
      BY <1>9, <2>1, <2>2, <2>3, <3>1 DEF Rollback, ReadyToRollBack, InBackup, SameRules
  <2>4. ASSUME NEW S \in SUBSET InBackup, fw' = RolledBack(S), back' = back
        PROVE  ChangesAreBackedUp'
    <3> SUFFICES ASSUME NEW t \in Tables, Norm(fw'[t]) # Norm(pre[t])
                 PROVE  back # NoFile /\ t \in InBackup /\ Norm(back[t]) = Norm(pre[t])
      BY <2>1, <2>4 DEF ChangesAreBackedUp, InBackup, Selected
    <3>1. t \in S => Norm(back[t]) = Norm(pre[t])
      BY <1>9 DEF Rollback, ReadyToRollBack, InBackup
    <3>2. t \notin S /\ Norm(fw[t]) # Norm(pre[t])
      BY <2>2, <2>4, <3>1
    <3> QED
      BY <1>9, <3>2 DEF Rollback, ReadyToRollBack, InBackup, Restored
  <2>5. \/ fw' = RolledBack(InBackup)
        \/ /\ \E S \in SUBSET InBackup : fw' = RolledBack(S) /\ back' = back
           /\ result'.status = "aborted"
    BY <1>9 DEF Rollback, Finish
  <2>6. ChangesAreBackedUp' /\ FailureIsClean'
    BY <2>3, <2>4, <2>5, <1>h DEF FailureIsClean, Ended
  <2> QED
    BY <2>1, <2>6 DEF Restoring, NothingYet, TablesActive, BackedUp, ReadyToRollBack
<1> QED
  BY <1>1, <1>2, <1>3, <1>4, <1>5, <1>6, <1>7, <1>8, <1>9 DEF Next

(* What a restoration that is given up has changed can be rolled back.     *)
THEOREM Reversibility == Spec => []Reversible
<1>1. Init => Reversible
  BY DEF Init, Reversible, Restoring, NothingYet, TablesActive, BackedUp,
         ReadyToRollBack, FailureIsClean, LeftHalfDone, Ended
<1>2. Reversible /\ UNCHANGED vars => Reversible'
  BY DEF vars, files, locals, Reversible, Restoring, NothingYet, TablesActive,
         BackedUp, ReadyToRollBack, FailureIsClean, LeftHalfDone, ChangesAreBackedUp,
         InBackup, Ended, Restored, Selected, SameRules, Saved
<1>3. TypeOK /\ Reversible /\ [Next]_vars => Reversible'
  BY <1>2, ReversibleStep
<1> QED
  BY <1>1, <1>3, TypeCorrect, PTL DEF Spec

(* A reported rollback, or a failure the module reports itself before      *)
(* MAINCOMMAND, leaves every rule of the host as the run found it, for any *)
(* tables and any contents.                                                *)
THEOREM FailureLeavesRules == Spec => []FailureIsClean
<1>1. Reversible => FailureIsClean
  BY DEF Reversible
<1> QED
  BY <1>1, Reversibility, PTL

(* While the confirmation is awaited, and when the run ends half done on a *)
(* busy lock or a failing command, the backup holds every rule that has    *)
(* been changed.                                                           *)
THEOREM BackupSuffices == Spec => []BackupCoversChanges
<1>1. TypeOK /\ Reversible => BackupCoversChanges
  BY DEF Reversible, ReadyToRollBack, BackupCoversChanges, ChangesAreBackedUp, InBackup, Restored
<1> QED
  BY <1>1, TypeCorrect, Reversibility, PTL

-----------------------------------------------------------------------------
(* The tables a run is not asked to restore keep their rules, even through *)
(* a rollback.                                                             *)
THEOREM OthersUntouched == Spec => OnlyRestoredTablesChange
<1>1. TypeOK /\ Reversible /\ [Next]_vars =>
        [\A t \in Tables : Norm(fw'[t]) # Norm(fw[t]) =>
           src[t] # NoTable /\ task.table \in {t, AllTables}]_vars
  <2> SUFFICES ASSUME TypeOK, Reversible, Next, NEW t \in Tables,
                      Norm(fw'[t]) # Norm(fw[t])
               PROVE  Restored(t)
    BY DEF Restored, Selected
  <2>1. CASE InitTables
    <3>1. \/ fw' = fw
          \/ \E S \in SUBSET ToInitialize : fw' = Initialized(S)
      BY <2>1 DEF InitTables
    <3> QED
      BY <3>1, LoadingIsHarmless DEF SameRules
  <2>2. CASE RunMain
    BY <2>2 DEF RunMain, Committed
  <2>3. CASE Rollback
    <3>1. \E S \in SUBSET InBackup : fw' = RolledBack(S)
      BY <2>3 DEF Rollback
    <3> QED
      BY <2>3, <3>1 DEF Rollback, RolledBack, InBackup, Reversible, ReadyToRollBack
  <2>4. CASE ~InitTables /\ ~RunMain /\ ~Rollback
    BY <2>4 DEF Next, Start, ReadSource, SaveFails, SaveState, SaveReference, TestSource,
                Confirmed
  <2> QED
    BY <2>1, <2>2, <2>3, <2>4
<1> QED
  BY <1>1, TypeCorrect, Reversibility, PTL DEF Spec, OnlyRestoredTablesChange

(* A run in check mode leaves the files and the rules alone.               *)
THEOREM CheckModeSafe == Spec => CheckModeIsReadOnly
<1>1. TypeOK /\ Reversible /\ [Next]_vars =>
        [task.check /\ pc # "idle" => UNCHANGED files /\ SameRules(fw', fw)]_vars
  <2> SUFFICES ASSUME TypeOK, Reversible, Next, task.check, pc # "idle"
               PROVE  UNCHANGED files /\ SameRules(fw', fw)
    OBVIOUS
  <2>1. ~task.async
    BY DEF TypeOK, Task
  <2>2. CASE InitTables
    <3>1. \/ fw' = fw
          \/ \E S \in SUBSET ToInitialize : fw' = Initialized(S)
      BY <2>2 DEF InitTables
    <3> QED
      BY <2>2, <3>1, LoadingIsHarmless DEF InitTables, SameRules
  <2>3. CASE ReadSource \/ SaveFails \/ SaveState \/ SaveReference \/ TestSource
    BY <2>1, <2>3 DEF ReadSource, SaveFails, SaveState, SaveReference, TestSource, Written,
                      SameRules, files
  <2>4. CASE RunMain \/ Confirmed \/ Rollback
    BY <2>4 DEF RunMain, Confirmed, Rollback, Reversible, Restoring
  <2> QED
    BY <2>2, <2>3, <2>4 DEF Next, Start
<1> QED
  BY <1>1, TypeCorrect, Reversibility, PTL DEF Spec, CheckModeIsReadOnly
-----------------------------------------------------------------------------
(* For tables that were changed at most where they are restored, the       *)
(* comparison of two narrow dumps and a broad one says whether they differ.*)
LEMMA DifferenceIsChange ==
  ASSUME TypeOK, before = Saved(initial), SameRules(initial, pre), NEW d \in Dump,
         \A t \in Tables : IF Restored(t) THEN d[t] # NoTable /\ initial[t] # NoTable
                                          ELSE d[t] = initial[t]
  PROVE  Differs(Saved(d)) <=> ~SameRules(d, pre)
<1> USE DEF Dump
<1>1. /\ \A t \in Tables : Restored(t) => Selected(t)
      /\ \A t \in Tables : Saved(d)[t] = IF Selected(t) THEN d[t] ELSE NoTable
      /\ \A t \in Tables : before[t] = IF Selected(t) THEN initial[t] ELSE NoTable
  BY DEF Restored, Saved
<1>2. SameRules(d, pre) <=> SameRules(d, initial)
  BY DEF SameRules
<1>3. ASSUME Differs(Saved(d)) PROVE ~SameRules(d, initial)
  <2>1. PICK t \in Tables : Saved(d)[t] # NoTable /\ Saved(d)[t] # before[t]
    BY <1>3 DEF Differs
  <2>2. d[t] # initial[t] /\ Restored(t)
    BY <1>1, <2>1
  <2> QED
    BY <2>2 DEF SameRules, Norm
<1>4. ASSUME ~SameRules(d, initial) PROVE Differs(Saved(d))
  <2>1. PICK t \in Tables : Norm(d[t]) # Norm(initial[t])
    BY <1>4 DEF SameRules
  <2>2. Restored(t) /\ d[t] # initial[t] /\ d[t] # NoTable
    BY <2>1
  <2>3. Saved(d)[t] = d[t] /\ before[t] = initial[t]
    BY <1>1, <2>2
  <2> QED
    BY <2>2, <2>3 DEF Differs
<1> QED
  BY <1>2, <1>3, <1>4

(* How a run that Finish ends looks to the user.                           *)
LEMMA FinishReports ==
  ASSUME NEW status \in {"ok", "failed", "locked", "aborted", "rolledback"},
         NEW changed \in BOOLEAN, NEW applied \in BOOLEAN,
         Finish(status, changed, applied)
  PROVE  /\ pc' = "idle" /\ result'.status = status /\ result'.changed = changed
         /\ UNCHANGED <<task, pre, src, initial, before>>
BY DEF Finish, locals

(* A step keeps what the run remembers, and the report follows from it.    *)
LEMMA ComparedStep ==
  ASSUME TypeOK, Reversible, Compared, Next
  PROVE  Compared'
<1> USE DEF Compared
<1> DEFINE Noted == SourceIsFile /\ ReferenceTaken /\ ReferenceKept
           Silent == ChangedIsTruthful /\ CheckSeesDifferences
<1>0. ASSUME pc' # "idle" \/ result'.status \notin {"ok", "rolledback"} PROVE Silent'
  BY <1>0 DEF ChangedIsTruthful, CheckSeesDifferences, Ended
<1>00. ASSUME pc' = "idle" PROVE Noted'
  BY <1>00 DEF SourceIsFile, ReferenceTaken, ReferenceKept
<1>1. ASSUME NEW t \in Task, Start(t) PROVE Compared'
  BY <1>1, <1>0 DEF Start, SourceIsFile, ReferenceTaken, ReferenceKept
<1>2. CASE ReadSource
  <2>1. pc' = "init" \/ (pc' = "idle" /\ result'.status = "failed")
    BY <1>2 DEF ReadSource, Goto, Finish
  <2>2. pc' = "init" => SourceIsFile'
    BY <1>2 DEF ReadSource, Goto, Finish, SourceIsFile, files, locals
  <2> QED
    BY <2>1, <2>2, <1>0, <1>00 DEF ReferenceTaken, ReferenceKept
<1>3. CASE InitTables
  <2>1. pc' = "save" \/ (pc' = "idle" /\ result'.status \in {"failed", "aborted"})
    BY <1>3 DEF InitTables, Goto, Finish
  <2>2. ASSUME pc' = "save" PROVE Noted'
    <3>1. /\ fw' = Initialized(ToInitialize) /\ initial' = fw'
          /\ UNCHANGED <<task, pre, src, before, files>> /\ pc = "init"
      BY <1>3, <2>2 DEF InitTables, Goto, Finish
    <3>2. SameRules(fw', pre)
      BY <3>1, LoadingIsHarmless, SameRulesTransitive DEF Reversible, NothingYet
    <3> QED
      BY <2>2, <3>1, <3>2
         DEF SourceIsFile, ReferenceTaken, ReferenceKept, SameRules, files
  <2> QED
    BY <2>1, <2>2, <1>0, <1>00
<1>4. CASE SaveState \/ SaveFails
  <2>1. CASE SaveState
    <3>1. pc' = "idle" /\ task'.state = "saved"
      BY <2>1 DEF SaveState
    <3> QED
      BY <3>1, <1>00 DEF ChangedIsTruthful, CheckSeesDifferences
  <2>2. CASE SaveFails
    <3>1. pc' = "idle" /\ result'.status = "aborted"
      BY <2>2 DEF SaveFails, Finish
    <3> QED
      BY <3>1, <1>0, <1>00
  <2> QED
    BY <1>4, <2>1, <2>2
<1>5. CASE SaveReference
  <2>1. pc' = "test" \/ (pc' = "idle" /\ result'.status = "aborted")
    BY <1>5 DEF SaveReference, Goto
  <2>2. pc' = "test" => Noted'
    BY <1>5 DEF SaveReference, Goto, SourceIsFile, ReferenceTaken, ReferenceKept, Saved,
                Selected, SameRules
  <2> QED
    BY <2>1, <2>2, <1>0, <1>00
<1>6. CASE TestSource
  <2>1. UNCHANGED <<fw, path, back, task, pre, src, initial, before>> /\ pc = "test"
    BY <1>6 DEF TestSource, Goto, Finish, files, locals
  <2>2. CASE pc' = "main"
    BY <2>1, <2>2, <1>0
       DEF SourceIsFile, ReferenceTaken, ReferenceKept, Saved, Selected, SameRules
  <2>3. CASE pc' = "idle" /\ result'.status = "failed"
    BY <2>3, <1>0, <1>00
  <2>4. CASE task.check /\ Finish("ok", Differs(Predicted), TRUE)
    <3>1. PICK changed \in BOOLEAN : changed = Differs(Predicted)
      BY DEF Differs
    <3>2. pc' = "idle" /\ result'.changed = changed
      BY <2>4, <3>1, FinishReports
    <3>3. ASSUME NEW t \in Tables, Restored(t), src[t] # before[t] PROVE changed
      <4>1. src = path /\ before = Saved(initial)
        BY <2>1 DEF SourceIsFile, ReferenceTaken, Reversible, Restoring
      <4>2. before[t] = initial[t] /\ src[t] # NoTable
        BY <3>3, <4>1 DEF Saved, Restored
      <4>3. Predicted = src
        BY <3>3, <4>1, <4>2 DEF Predicted
      <4> QED
        BY <3>1, <3>3, <4>2, <4>3 DEF Differs
    <3>4. CheckSeesDifferences' /\ ChangedIsTruthful'
      BY <2>1, <2>4, <3>2, <3>3
         DEF CheckSeesDifferences, ChangedIsTruthful, Restored, Selected
    <3> QED
      BY <3>2, <3>4, <1>00
  <2> QED
    BY <1>6, <2>2, <2>3, <2>4 DEF TestSource, Goto, Finish
<1>7. CASE RunMain
  <2>1. /\ UNCHANGED <<path, back, task, pre, src, initial, before>> /\ pc = "main"
        /\ task.state = "restored" /\ ~task.check
        /\ fw = initial /\ before = Saved(initial) /\ SameRules(initial, pre)
    BY <1>7 DEF RunMain, Goto, Finish, files, locals, Reversible, Restoring, ReferenceTaken
  <2>2. CASE pc' = "idle" /\ result'.status \in {"locked", "aborted"}
    BY <2>2, <1>0, <1>00
  <2>3. ASSUME NEW S \in SUBSET {t \in Tables : Restored(t)}, Committed(fw', S)
        PROVE  /\ fw' \in Dump
               /\ \A t \in Tables : IF Restored(t) THEN fw'[t] # NoTable /\ initial[t] # NoTable
                                                   ELSE fw'[t] = initial[t]
    BY <2>1, <2>3 DEF Committed, Restored, Reversible, TablesActive
  <2>4. ASSUME NEW S \in SUBSET {t \in Tables : Restored(t)}, Committed(fw', S),
               Finish("ok", Differs(Saved(fw')), TRUE)
        PROVE  Compared'
    <3>1. PICK changed \in BOOLEAN : changed = Differs(Saved(fw'))
      BY DEF Differs
    <3>2. pc' = "idle" /\ result'.status = "ok" /\ result'.changed = changed
      BY <2>4, <3>1, FinishReports
    <3>3. changed <=> ~SameRules(fw', pre)
      BY <2>1, <2>3, <2>4, <3>1, DifferenceIsChange
    <3>4. ChangedIsTruthful' /\ CheckSeesDifferences'
      BY <2>1, <3>2, <3>3 DEF ChangedIsTruthful, CheckSeesDifferences, SameRules
    <3> QED
      BY <3>2, <3>4, <1>00
  <2>5. ASSUME NEW S \in SUBSET {t \in Tables : Restored(t)}, Committed(fw', S),
               task.async, pc' = "confirm"
        PROVE  Compared'
    <3>1. back = before
      BY <2>1, <2>5 DEF Reversible, BackedUp
    <3>2. ReferenceKept'
      BY <2>1, <2>3, <2>5, <3>1 DEF ReferenceKept, Saved, Selected, Restored
    <3> QED
      BY <2>1, <2>5, <3>2, <1>0 DEF SourceIsFile, ReferenceTaken, SameRules
  <2> QED
    BY <1>7, <2>2, <2>4, <2>5 DEF RunMain, Goto, Finish
<1>8. CASE Confirmed
  <2>1. /\ UNCHANGED <<fw, task, pre, src, initial, before>> /\ pc = "confirm"
        /\ task.state = "restored" /\ ~task.check
    BY <1>8 DEF Confirmed, Finish, locals, Reversible, Restoring
  <2>2. PICK changed \in BOOLEAN : changed = Differs(Saved(fw))
    BY DEF Differs
  <2>3. pc' = "idle" /\ result'.changed = changed
    BY <1>8, <2>2, FinishReports DEF Confirmed
  <2>4. changed <=> ~SameRules(fw, pre)
    BY <2>1, <2>2, DifferenceIsChange DEF ReferenceTaken, ReferenceKept, TypeOK
  <2>5. ChangedIsTruthful' /\ CheckSeesDifferences'
    BY <2>1, <2>3, <2>4 DEF ChangedIsTruthful, CheckSeesDifferences, SameRules
  <2> QED
    BY <2>3, <2>5, <1>00
<1>9. CASE Rollback
  <2>1. pc' = "idle" /\ UNCHANGED <<task, pre, src, initial, before>> /\ pc = "confirm"
    BY <1>9 DEF Rollback, Finish, locals
  <2>2. CASE result'.status = "aborted"
    BY <2>1, <2>2, <1>0, <1>00
  <2>3. CASE fw' = RolledBack(InBackup) /\ Finish("rolledback", before # Saved(fw'), FALSE)
    <3>1. \A t \in Tables : Selected(t) => fw'[t] = initial[t]
      <4> SUFFICES ASSUME NEW t \in Tables, Selected(t) PROVE fw'[t] = initial[t]
        OBVIOUS
      <4>1. back[t] = initial[t]
        BY <2>1 DEF ReferenceKept, Saved
      <4>2. CASE t \in InBackup
        BY <2>3, <4>1, <4>2 DEF RolledBack
      <4>3. CASE t \notin InBackup
        BY <2>1, <2>3, <4>1, <4>3 DEF RolledBack, InBackup, ReferenceKept
      <4> QED
        BY <4>2, <4>3
    <3>2. before = Saved(fw')
      BY <2>1, <3>1 DEF ReferenceKept, Saved
    <3>3. Finish("rolledback", FALSE, FALSE)
      BY <2>3, <3>2
    <3>4. result'.status = "rolledback" /\ result'.changed = FALSE
      BY <3>3 DEF Finish
    <3>5. SameRules(fw', pre)
      BY <2>1, <3>4, ReversibleStep DEF Reversible, FailureIsClean, Ended
    <3>6. ChangedIsTruthful' /\ CheckSeesDifferences'
      BY <2>1, <3>4, <3>5
         DEF ChangedIsTruthful, CheckSeesDifferences, Ended, SameRules
    <3> QED
      BY <2>1, <3>6, <1>00
  <2> QED
    BY <1>9, <2>2, <2>3 DEF Rollback, Finish
<1> QED
  BY <1>1, <1>2, <1>3, <1>4, <1>5, <1>6, <1>7, <1>8, <1>9 DEF Next

(* At each stage the run compares the rules it found with those in force.  *)
THEOREM Comparison == Spec => []Compared
<1>1. Init => Compared
  BY DEF Init, Compared, SourceIsFile, ReferenceTaken, ReferenceKept,
         ChangedIsTruthful, CheckSeesDifferences, Ended
<1>2. Compared /\ UNCHANGED vars => Compared'
  BY DEF vars, files, locals, Compared, SourceIsFile, ReferenceTaken, ReferenceKept,
         ChangedIsTruthful, CheckSeesDifferences, Ended, Restored, Selected,
         SameRules, Saved
<1>3. TypeOK /\ Reversible /\ Compared /\ [Next]_vars => Compared'
  BY <1>2, ComparedStep
<1> QED
  BY <1>1, <1>3, TypeCorrect, Reversibility, PTL DEF Spec

(* 'changed' is reported if and only if some table has other rules than    *)
(* before the run, for any tables and contents.                            *)
THEOREM ChangedTruthful == Spec => []ChangedIsTruthful
<1>1. Compared => ChangedIsTruthful
  BY DEF Compared
<1> QED
  BY <1>1, Comparison, PTL

(* Check mode predicts a change for every source that differs from the     *)
(* rules in force, in a table to be restored, with noflush or without.     *)
THEOREM CheckComplete == Spec => []CheckSeesDifferences
<1>1. Compared => CheckSeesDifferences
  BY DEF Compared
<1> QED
  BY <1>1, Comparison, PTL
=============================================================================

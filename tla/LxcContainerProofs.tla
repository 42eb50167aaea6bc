--------------------------- MODULE LxcContainerProofs --------------------------
(* Whatever calls fail, a run of lxc_container that reports no change has  *)
(* not touched the container.                                              *)
EXTENDS LxcContainer, SequenceTheorems, TLAPS

(* The steps that note themselves what they change.                        *)
Plain ==
  {"method", "ensure", "command", "config", "stop", "startup", "frozen", "archive", "clone",
   "destroyed", "destroy", "copy"}

Steps == Plain \cup {"freeze", "sync", "snapshot", "mount", "tar", "unmount", "unsnapshot", "thaw"}

(* The records have the fields that the argument needs.                    *)
BoxType ==
  /\ {"state", "touched", "lvm"} \subseteq DOMAIN box
  /\ box.touched \in BOOLEAN /\ box.lvm \in BOOLEAN

RunShape ==
  /\ {"op", "phase", "todo", "changed", "error"} \subseteq DOMAIN lrun
  /\ lrun.changed \in BOOLEAN /\ lrun.error \in BOOLEAN
  /\ lrun.phase = "run" => Method[lrun.op.state] \in Seq(Plain)

(* An archive that is being made notes the change before its tar step.     *)
Starts(todo, steps) ==
  /\ todo \in Seq(Steps) /\ Len(todo) >= Len(steps)
  /\ \A i \in 1..Len(steps) : todo[i] = steps[i]

Archiving ==
  \/ ~box.lvm /\ Starts(lrun.todo, <<"sync">>)
  \/ /\ box.lvm
     /\ \/ Starts(lrun.todo, <<"sync", "snapshot", "mount">>)
        \/ Starts(lrun.todo, <<"snapshot", "mount">>)
        \/ Starts(lrun.todo, <<"mount">>)

(* After an error the finally clause is all that is left.                  *)
Failing ==
  lrun.todo \in {<<"unmount", "unsnapshot", "thaw">>, <<"unsnapshot", "thaw">>, <<"thaw">>}

Quiet == lrun.todo \in Seq(Plain) /\ ~box.touched

ChangeIsNoted ==
  lrun.phase = "run" => IF lrun.error THEN Failing ELSE lrun.changed \/ Quiet \/ Archiving

LxcInv == BoxType /\ RunShape /\ ChangeIsNoted /\ UnchangedIsUntouched

(* It holds at first.                                                      *)
LEMMA LxcInitial == LxcInit => LxcInv
<1> SUFFICES ASSUME LxcInit PROVE LxcInv
    OBVIOUS
<1>1. BoxType /\ ~box.touched
      BY DEF LxcInit, LxcContainers, BoxType
<1>2. RunShape /\ lrun.phase = "idle"
      BY DEF LxcInit, LxcIdle, RunShape
<1> QED
    BY <1>1, <1>2 DEF LxcInv, ChangeIsNoted, UnchangedIsUntouched

(* A call that gives the container a state touches it if that is new.      *)
LEMMA Touches ==
  ASSUME BoxType, NEW s, box' = Becomes(s)
  PROVE  BoxType' /\ box'.lvm = box.lvm /\ (box'.touched <=> box.touched \/ s # box.state)
BY DEF BoxType, Becomes

(* A change once noted stays noted, and an error leads to the finally      *)
(* clause.                                                                 *)
LEMMA Sticks ==
  ASSUME BoxType, RunShape, LxcStep
  PROVE  /\ BoxType' /\ RunShape' /\ (lrun.changed => lrun'.changed)
         /\ lrun'.error => lrun.error \/ Failing'
<1> DEFINE Goal == /\ BoxType' /\ RunShape' /\ (lrun.changed => lrun'.changed)
                   /\ lrun'.error => lrun.error \/ Failing'
<1>r. Raise => RunShape' /\ (lrun.changed => lrun'.changed) /\ Failing'
      BY DEF Raise, RunShape, Finally, Failing
<1>1. CASE RunMethod
      BY <1>1 DEF RunMethod, Does, BoxType, RunShape, Failed, Becomes
<1>2. CASE EnsureStarted
      BY <1>2 DEF EnsureStarted, Does, BoxType, RunShape, After, Then, Becomes
<1>3. CASE Frozen
      BY <1>3 DEF Frozen, Does, BoxType, RunShape, After, Then, Becomes
<1>4. CASE Freeze
      BY <1>4 DEF Freeze, Does, BoxType, RunShape, After, Then, Becomes
<1>5. CASE Stop
      BY <1>5 DEF Stop, Does, BoxType, RunShape, After, Then, Becomes
<1>6. CASE Startup
      BY <1>6 DEF Startup, Does, BoxType, RunShape, Failed, Becomes
<1>7. CASE Destroyed
      BY <1>7 DEF Destroyed, Does, BoxType, RunShape, Failed, After, Then
<1>8. CASE Destroy
      BY <1>8 DEF Destroy, Does, BoxType, RunShape, After, Then, Becomes
<1>9. CASE Command
      BY <1>9 DEF Command, Does, BoxType, RunShape, After, Then, Becomes
<1>10. CASE Config
      BY <1>10 DEF Config, Does, BoxType, RunShape, After, Then, Becomes
<1>11. CASE Archive
      BY <1>11 DEF Archive, Does, BoxType, RunShape, After, Then, Becomes
<1>12. CASE Sync
      BY <1>12, <1>r DEF Sync, Does, BoxType, RunShape, After, Then
<1>13. CASE Snapshot
      BY <1>13, <1>r DEF Snapshot, Does, BoxType, RunShape, After, Then
<1>14. CASE Mount
      BY <1>14, <1>r DEF Mount, Does, BoxType, RunShape, After, Then
<1>15. CASE Tar
      BY <1>15, <1>r DEF Tar, Does, BoxType, RunShape, After, Then
<1>16. CASE Unmount
      BY <1>16 DEF Unmount, Does, BoxType, RunShape, After, Then, Failed
<1>17. CASE Unsnapshot
      BY <1>17 DEF Unsnapshot, Does, BoxType, RunShape, After, Then
<1>18. CASE Thaw
      BY <1>18 DEF Thaw, Does, BoxType, RunShape, After, Then, Failed, Becomes
<1>19. CASE Clone
      BY <1>19 DEF Clone, Does, BoxType, RunShape, After, Then, Becomes
<1>20. CASE Copy
      BY <1>20 DEF Copy, Does, BoxType, RunShape, After, Then, Failed, Becomes
<1>21. CASE LxcFinish
      BY <1>21 DEF LxcFinish, BoxType, RunShape
<1> QED
    BY <1>1, <1>2, <1>3, <1>4, <1>5, <1>6, <1>7, <1>8, <1>9, <1>10, <1>11, <1>12, <1>13, <1>14,
       <1>15, <1>16, <1>17, <1>18, <1>19, <1>20, <1>21 DEF LxcStep

(* The first of the calls an archive begins with, and the others.          *)
LEMMA Tails ==
  ASSUME NEW t
  PROVE  /\ Starts(t, <<"sync", "snapshot", "mount">>) => Starts(Tail(t), <<"snapshot", "mount">>)
         /\ Starts(t, <<"snapshot", "mount">>) => Starts(Tail(t), <<"mount">>)
         /\ \A s \in {<<"sync", "snapshot", "mount">>, <<"snapshot", "mount">>, <<"mount">>, <<"sync">>} :
              Starts(t, s) => t # <<>> /\ Head(t) = Head(s)
<1>1. ASSUME t \in Seq(Steps), t # <<>>
      PROVE  /\ Tail(t) \in Seq(Steps) /\ Len(Tail(t)) = Len(t) - 1
             /\ \A i \in 1..Len(Tail(t)) : Tail(t)[i] = t[i + 1]
             /\ Head(t) = t[1]
      BY <1>1
<1> QED
    BY <1>1 DEF Starts

(* Only the finally clause is left after an error, and it ends in failure. *)
LEMMA ErrorFails ==
  ASSUME RunShape, LxcStep, lrun.error, Failing
  PROVE  lrun'.phase = "failed" \/ (lrun'.error /\ Failing')
<1>h. /\ Head(lrun.todo) \in {"unmount", "unsnapshot", "thaw"} /\ lrun.todo # <<>>
      /\ Head(lrun.todo) # "thaw" =>
           Tail(lrun.todo) \in {<<"unmount", "unsnapshot", "thaw">>, <<"unsnapshot", "thaw">>, <<"thaw">>}
      <2>1. CASE lrun.todo = <<"unmount", "unsnapshot", "thaw">>
            BY <2>1
      <2>2. CASE lrun.todo = <<"unsnapshot", "thaw">>
            BY <2>2
      <2>3. CASE lrun.todo = <<"thaw">>
            BY <2>3
      <2> QED
          BY <2>1, <2>2, <2>3 DEF Failing
<1>a. ASSUME After(FALSE) PROVE lrun'.error /\ lrun'.todo = Tail(lrun.todo)
      <2>1. <<>> \o Tail(lrun.todo) = Tail(lrun.todo)
            BY DEF Failing
      <2> QED
          BY <1>a, <2>1 DEF After, Then, RunShape
<1>1. Unmount \/ Unsnapshot \/ Thaw
      BY <1>h DEF LxcStep, Does, RunMethod, EnsureStarted, Frozen, Freeze, Stop, Startup, Destroyed,
         Destroy, Command, Config, Archive, Sync, Snapshot, Mount, Tar, Clone, Copy, LxcFinish
<1>2. CASE Unmount
      BY <1>2, <1>h, <1>a DEF Unmount, Does, Failed, Failing, RunShape
<1>3. CASE Unsnapshot
      BY <1>3, <1>h, <1>a DEF Unsnapshot, Does, Failing
<1>4. CASE Thaw
      BY <1>4 DEF Thaw, Failed, RunShape
<1> QED
    BY <1>1, <1>2, <1>3, <1>4

(* While the archive is made, either the change is noted or it goes on.    *)
LEMMA ArchivingNotes ==
  ASSUME BoxType, RunShape, LxcStep, lrun.phase = "run", ~lrun.error, Archiving
  PROVE  \/ lrun'.phase = "failed"
         \/ /\ lrun'.phase = "run"
            /\ IF lrun'.error THEN Failing' ELSE lrun'.changed \/ Archiving'
<1>r. Raise => lrun'.error /\ lrun'.phase = "run" /\ Failing'
      BY DEF Raise, RunShape, Finally, Failing
<1>h. /\ lrun.todo # <<>> /\ Head(lrun.todo) \in {"sync", "snapshot", "mount"}
      /\ Head(lrun.todo) # "sync" => box.lvm
      BY Tails DEF Archiving
<1>1. Sync \/ Snapshot \/ Mount
      BY <1>h DEF LxcStep, Does, RunMethod, EnsureStarted, Frozen, Freeze, Stop, Startup, Destroyed,
         Destroy, Command, Config, Archive, Tar, Unmount, Unsnapshot, Thaw, Clone, Copy, LxcFinish
<1>2. ASSUME After(TRUE) PROVE lrun'.changed /\ ~lrun'.error /\ lrun'.phase = "run"
      BY <1>2 DEF After, Then, RunShape
<1>3. ASSUME After(FALSE), box.lvm, box'.lvm, Head(lrun.todo) # "mount"
      PROVE  Archiving' /\ ~lrun'.error /\ lrun'.phase = "run"
      <2>1. lrun.todo \in Seq(Steps) /\ lrun.todo # <<>>
            BY <1>h, <1>3 DEF Archiving, Starts
      <2>2. \/ Starts(Tail(lrun.todo), <<"snapshot", "mount">>)
            \/ Starts(Tail(lrun.todo), <<"mount">>)
            BY <1>3, Tails DEF Archiving
      <2>3. <<>> \o Tail(lrun.todo) = Tail(lrun.todo)
            BY <2>1
      <2>4. lrun'.todo = Tail(lrun.todo) /\ ~lrun'.error /\ lrun'.phase = "run"
            BY <1>3, <2>3 DEF After, Then, RunShape
      <2> QED
          BY <1>3, <2>2, <2>4 DEF Archiving
<1>4. CASE Sync
      <2>1. CASE After(~box.lvm)
            <3>1. CASE box.lvm
                  <4>1. After(FALSE) /\ box'.lvm /\ Head(lrun.todo) # "mount"
                        BY <1>4, <2>1, <3>1 DEF Sync, Does, After, Then
                  <4> QED
                      BY <3>1, <4>1, <1>3
            <3>2. CASE ~box.lvm
                  <4>1. After(TRUE)
                        BY <2>1, <3>2 DEF After, Then
                  <4> QED
                      BY <4>1, <1>2
            <3> QED
                BY <3>1, <3>2
      <2> QED
          BY <1>4, <2>1, <1>r DEF Sync
<1>5. CASE Snapshot
      <2>1. CASE After(FALSE) /\ box' = [box EXCEPT !.snapshot = TRUE]
            <3>1. box.lvm /\ box'.lvm /\ Head(lrun.todo) # "mount"
                  BY <1>5, <1>h, <2>1 DEF Snapshot, Does, BoxType
            <3> QED
                BY <2>1, <3>1, <1>3
      <2> QED
          BY <1>5, <2>1, <1>r DEF Snapshot
<1>6. CASE Mount
      BY <1>6, <1>2, <1>r DEF Mount
<1> QED
    BY <1>1, <1>4, <1>5, <1>6

(* The rest of a chain of plain methods is one.                            *)
LEMMA PlainSteps ==
  ASSUME NEW s \in Seq(Plain), NEW t \in Seq(Plain), t # <<>>
  PROVE  /\ Tail(t) \in Seq(Plain) /\ s \o Tail(t) \in Seq(Plain) /\ Head(t) \in Plain
         /\ <<>> \o Tail(t) = Tail(t)
OBVIOUS

(* Before an archive, a step that touches the container notes it.          *)
LEMMA PlainNotes ==
  ASSUME BoxType, RunShape, LxcStep, lrun.phase = "run", ~lrun.error, Quiet, lrun.todo # <<>>
  PROVE  \/ lrun'.phase = "failed"
         \/ lrun'.phase = "run" /\ ~lrun'.error /\ (lrun'.changed \/ Quiet' \/ Archiving')
<1> DEFINE Going == lrun'.phase = "run" /\ ~lrun'.error
           Goal == lrun'.phase = "failed" \/ (Going /\ (lrun'.changed \/ Quiet' \/ Archiving'))
<1>0. /\ Head(lrun.todo) \in Plain /\ Tail(lrun.todo) \in Seq(Plain)
      /\ <<>> \o Tail(lrun.todo) = Tail(lrun.todo) /\ lrun.todo \in Seq(Plain) /\ ~box.touched
      BY PlainSteps DEF Quiet
<1>f. Failed => lrun'.phase = "failed"
      BY DEF Failed, RunShape
<1>u. ASSUME NEW s, box' = Becomes(s), s = box.state PROVE ~box'.touched
      BY <1>u, <1>0, Touches
<1>n. ASSUME NEW steps \in Seq(Plain), Then(steps, FALSE) PROVE Going /\ lrun'.todo \in Seq(Plain)
      <2>1. steps \o Tail(lrun.todo) \in Seq(Plain)
            BY <1>0, PlainSteps
      <2> QED
          BY <1>n, <2>1 DEF Then, RunShape
<1>a. ASSUME After(FALSE) PROVE Going /\ lrun'.todo \in Seq(Plain)
      BY <1>a, <1>0 DEF After, Then, RunShape
<1>c. ASSUME NEW steps, Then(steps, TRUE) PROVE Going /\ lrun'.changed
      BY <1>c DEF Then, RunShape
<1>d. After(TRUE) => Going /\ lrun'.changed
      BY DEF After, Then, RunShape
<1>1. CASE RunMethod
      <2>1. CASE Exists \/ lrun.op.state = "absent"
            <3>1. UNCHANGED box /\ lrun' = [lrun EXCEPT !.todo = Method[lrun.op.state], !.tries = 0]
                  BY <1>1, <2>1 DEF RunMethod
            <3>2. Going /\ lrun'.todo \in Seq(Plain)
                  BY <3>1 DEF RunShape
            <3> QED
                BY <1>0, <3>1, <3>2 DEF Quiet
      <2>2. CASE ~(Exists \/ lrun.op.state = "absent")
            BY <1>1, <2>2, <1>f DEF RunMethod, RunShape
      <2> QED
          BY <2>1, <2>2
<1>2. CASE EnsureStarted
      <2>1. CASE After(FALSE) /\ UNCHANGED box
            BY <2>1, <1>0, <1>a DEF Quiet
      <2>2. CASE Then(<<"startup">>, FALSE) /\ UNCHANGED box
            <3>1. <<"startup">> \in Seq(Plain)
                  BY DEF Plain
            <3> QED
                BY <2>2, <3>1, <1>0, <1>n DEF Quiet
      <2>3. ASSUME box.state = "frozen", NEW s \in {"running", "frozen"}, box' = Becomes(s),
                   After(s = "running")
            PROVE  Goal
            <3>1. CASE s = "running"
                  <4>1. After(TRUE)
                        BY <2>3, <3>1 DEF After, Then
                  <4> QED
                      BY <4>1, <1>d
            <3>2. CASE s = "frozen"
                  <4>1. After(FALSE)
                        BY <2>3, <3>2 DEF After, Then
                  <4>2. ~box'.touched
                        BY <2>3, <3>2, <1>u
                  <4> QED
                      BY <4>1, <4>2, <1>a DEF Quiet
            <3> QED
                BY <2>3, <3>1, <3>2
      <2> QED
          BY <1>2, <2>1, <2>2, <2>3 DEF EnsureStarted, Calls
<1>3. CASE Frozen
      BY <1>3, <1>0, <1>a, <1>c DEF Frozen, Quiet
<1>4. CASE Stop
      <2>1. CASE box.state = "stopped"
            <3>1. UNCHANGED box
                  BY <1>4, <2>1 DEF Stop
            <3>2. After(FALSE)
                  BY <1>4, <2>1 DEF Stop, After, Then
            <3> QED
                BY <3>1, <3>2, <1>0, <1>a DEF Quiet
      <2>2. CASE box.state # "stopped"
            <3>1. After(TRUE)
                  BY <1>4, <2>2 DEF Stop, After, Then
            <3> QED
                BY <3>1, <1>d
      <2> QED
          BY <2>1, <2>2
<1>5. CASE Startup
      <2>1. CASE ~MoreTries /\ Failed
            BY <2>1, <1>f
      <2>2. CASE lrun' = [lrun EXCEPT !.todo = Tail(@), !.tries = 0] /\ UNCHANGED box
            BY <2>2, <1>0 DEF RunShape, Quiet
      <2>3. CASE lrun' = [lrun EXCEPT !.tries = @ + 1, !.changed = TRUE]
            BY <2>3 DEF RunShape
      <2> QED
          BY <1>5, <2>1, <2>2, <2>3 DEF Startup
<1>6. CASE Destroyed
      <2>1. CASE lrun' = [lrun EXCEPT !.todo = <<"archive", "clone", "stop", "destroy">> \o @,
                                      !.tries = @ + 1]
            <3>1. <<"archive", "clone", "stop", "destroy">> \o lrun.todo \in Seq(Plain)
                  BY <1>0 DEF Plain
            <3> QED
                BY <1>6, <2>1, <3>1, <1>0 DEF Destroyed, RunShape, Quiet
      <2> QED
          BY <1>6, <2>1, <1>0, <1>f, <1>a DEF Destroyed, Quiet
<1>7. CASE Destroy
      <2>1. ASSUME NEW s \in {"absent", box.state}, box' = Becomes(s), After(s = "absent")
            PROVE  Goal
            <3>1. CASE s = "absent"
                  <4>1. After(TRUE)
                        BY <2>1, <3>1 DEF After, Then
                  <4> QED
                      BY <4>1, <1>d
            <3>2. CASE s # "absent"
                  <4>1. After(FALSE)
                        BY <2>1, <3>2 DEF After, Then
                  <4>2. ~box'.touched
                        BY <2>1, <3>2, <1>u
                  <4> QED
                      BY <4>1, <4>2, <1>a DEF Quiet
            <3> QED
                BY <3>1, <3>2
      <2> QED
          BY <1>7, <2>1 DEF Destroy, Calls
<1>8. CASE Command
      BY <1>8, <1>0, <1>a, <1>c, <1>d DEF Command, Quiet
<1>9. CASE Config
      BY <1>9, <1>0, <1>a, <1>c DEF Config, Quiet
<1>10. CASE Archive
      <2>1. CASE After(FALSE) /\ UNCHANGED box
            BY <2>1, <1>0, <1>a DEF Quiet
      <2>2. CASE lrun' = [lrun EXCEPT
             !.todo = (IF box.lvm THEN <<"sync", "snapshot", "mount", "tar">> ELSE <<"sync", "tar">>)
                      \o Finally \o Tail(@),
             !.saved = box.state]
            <3> DEFINE first == IF box.lvm THEN <<"sync", "snapshot", "mount", "tar">> ELSE <<"sync", "tar">>
            <3>1. Tail(lrun.todo) \in Seq(Steps) /\ Finally \in Seq(Steps) /\ first \in Seq(Steps)
                  <4>1. Plain \subseteq Steps
                        BY DEF Steps
                  <4>2. Tail(lrun.todo) \in Seq(Steps)
                        BY <4>1, <1>0
                  <4>3. /\ <<"unmount", "unsnapshot", "thaw">> \in Seq(Steps) /\ <<"thaw">> \in Seq(Steps)
                        /\ <<"sync", "snapshot", "mount", "tar">> \in Seq(Steps)
                        /\ <<"sync", "tar">> \in Seq(Steps)
                        BY DEF Steps
                  <4> QED
                      BY <4>2, <4>3 DEF Finally
            <3>2. Going /\ lrun'.todo = first \o Finally \o Tail(lrun.todo) /\ box'.lvm = box.lvm
                  BY <1>10, <2>2 DEF RunShape, BoxType, Archive, Becomes, After, Then
            <3>3. ASSUME NEW a \in Seq(Steps), NEW b \in Seq(Steps), NEW c \in Seq(Steps)
                  PROVE  /\ a \o b \o c \in Seq(Steps) /\ Len(a \o b \o c) >= Len(a)
                         /\ \A i \in 1..Len(a) : (a \o b \o c)[i] = a[i]
                  <4>1. /\ a \o b \in Seq(Steps) /\ Len(a \o b) = Len(a) + Len(b)
                        /\ \A i \in 1..Len(a) : (a \o b)[i] = a[i]
                        OBVIOUS
                  <4>2. /\ a \o b \o c \in Seq(Steps) /\ Len(a \o b \o c) = Len(a \o b) + Len(c)
                        /\ \A i \in 1..Len(a \o b) : (a \o b \o c)[i] = (a \o b)[i]
                        BY <4>1
                  <4> QED
                      BY <4>1, <4>2
            <3>4. Starts(lrun'.todo, first)
                  <4> DEFINE todo == first \o Finally \o Tail(lrun.todo)
                  <4> HIDE DEF first
                  <4>1. /\ todo \in Seq(Steps) /\ Len(todo) >= Len(first)
                        /\ \A i \in 1..Len(first) : todo[i] = first[i]
                        BY <3>1, <3>3
                  <4> QED
                      BY <3>2, <4>1 DEF Starts
            <3>5. IF box.lvm THEN Starts(lrun'.todo, <<"sync", "snapshot", "mount">>)
                             ELSE Starts(lrun'.todo, <<"sync">>)
                  BY <3>4 DEF Starts
            <3> QED
                BY <3>2, <3>5 DEF Archiving, BoxType
      <2> QED
          BY <1>10, <2>1, <2>2 DEF Archive
<1>11. CASE Clone
      <2>1. CASE After(FALSE) /\ UNCHANGED box
            BY <2>1, <1>0, <1>a DEF Quiet
      <2>2. CASE lrun' = [lrun EXCEPT !.todo = <<"copy">> \o Tail(@), !.saved = box.state,
                                !.changed = @ \/ box.state # "stopped"]
            <3>1. <<"copy">> \o Tail(lrun.todo) \in Seq(Plain)
                  BY <1>0 DEF Plain
            <3>2. Going /\ lrun'.todo \in Seq(Plain) /\ (box.state # "stopped" => lrun'.changed)
                  BY <2>2, <3>1 DEF RunShape
            <3>3. CASE box.state = "stopped"
                  <4>1. (\E s \in Calls("stop", "stopped", box.state) : box' = Becomes(s))
                        \/ UNCHANGED box
                        BY <1>11 DEF Clone
                  <4>2. ~box'.touched
                        BY <4>1, <3>3, <1>0, <1>u DEF Calls
                  <4> QED
                      BY <3>2, <4>2 DEF Quiet
            <3> QED
                BY <3>2, <3>3
      <2> QED
          BY <1>11, <2>1, <2>2 DEF Clone
<1>12. CASE Copy
      BY <1>12, <1>d, <1>f DEF Copy
<1> QED
    <2>1. Head(lrun.todo) \in Plain
          BY <1>0
    <2> QED
        BY <2>1, <1>1, <1>2, <1>3, <1>4, <1>5, <1>6, <1>7, <1>8, <1>9, <1>10, <1>11, <1>12
        DEF Plain, LxcStep, Does, Freeze, Sync, Snapshot, Mount, Tar, Unmount, Unsnapshot, Thaw, LxcFinish

(* Every step keeps the invariant.                                         *)
LEMMA LxcInductive == LxcInv /\ [LxcNext]_lvars => LxcInv'
<1> SUFFICES ASSUME LxcInv, [LxcNext]_lvars PROVE LxcInv'
    OBVIOUS
<1> USE DEF LxcInv
<1>1. ASSUME NEW op \in LxcOptions, LxcBegin(op) PROVE LxcInv'
      <2>1. Method[op.state] \in Seq(Plain)
            <3>1. /\ <<"ensure", "command", "config", "archive", "clone">> \in Seq(Plain)
                  /\ <<"command", "config", "stop", "archive", "clone">> \in Seq(Plain)
                  /\ <<"command", "config", "stop", "startup", "archive", "clone">> \in Seq(Plain)
                  /\ <<"command", "config", "frozen", "archive", "clone">> \in Seq(Plain)
                  /\ <<"destroyed">> \in Seq(Plain)
                  BY DEF Plain
            <3>2. op.state \in {"started", "stopped", "restarted", "frozen", "absent"}
                  BY DEF LxcOptions
            <3>3. /\ Method["started"] \in Seq(Plain) /\ Method["stopped"] \in Seq(Plain)
                  /\ Method["restarted"] \in Seq(Plain) /\ Method["frozen"] \in Seq(Plain)
                  /\ Method["absent"] \in Seq(Plain)
                  BY <3>1 DEF Method
            <3> QED
                BY <3>2, <3>3
      <2>2. RunShape' /\ lrun'.phase = "run" /\ ~lrun'.error /\ lrun'.todo = <<"method">>
            BY <1>1, <2>1 DEF LxcBegin, LxcIdle, RunShape
      <2>3. BoxType' /\ ~box'.touched
            BY <1>1 DEF LxcBegin, BoxType
      <2>4. <<"method">> \in Seq(Plain)
            BY DEF Plain
      <2> QED
          BY <2>2, <2>3, <2>4 DEF ChangeIsNoted, Quiet, UnchangedIsUntouched
<1>2. CASE LxcFinish
      <2>1. /\ lrun.phase = "run" /\ lrun.todo = <<>> /\ lrun'.phase = "done"
            /\ lrun'.changed = lrun.changed /\ UNCHANGED box
            BY <1>2 DEF LxcFinish, RunShape
      <2>2. BoxType' /\ RunShape'
            BY <1>2, <2>1 DEF LxcFinish, BoxType, RunShape
      <2>3. ~Failing /\ ~Archiving
            BY <2>1 DEF Failing, Archiving, Starts
      <2> QED
          BY <2>1, <2>2, <2>3 DEF ChangeIsNoted, Quiet, UnchangedIsUntouched
<1>3. CASE LxcStep /\ ~LxcFinish
      <2>0. lrun.phase = "run" /\ lrun.todo # <<>>
            BY <1>3 DEF LxcStep, Does, RunMethod, EnsureStarted, Frozen, Freeze, Stop, Startup, Destroyed,
               Destroy, Command, Config, Archive, Sync, Snapshot, Mount, Tar, Unmount, Unsnapshot, Thaw,
               Clone, Copy
      <2>1. /\ BoxType' /\ RunShape' /\ (lrun.changed => lrun'.changed)
            /\ lrun'.error => lrun.error \/ Failing'
            BY <1>3, Sticks
      <2>2. lrun'.phase \in {"run", "failed"}
            BY <1>3, <2>0 DEF LxcStep, Does, RunMethod, EnsureStarted, Frozen, Freeze, Stop, Startup, Destroyed,
               Destroy, Command, Config, Archive, Sync, Snapshot, Mount, Tar, Unmount, Unsnapshot, Thaw,
               Clone, Copy, Failed, Raise, After, Then, RunShape
      <2>3. CASE lrun.error
            <3>1. lrun'.phase = "failed" \/ (lrun'.error /\ Failing')
                  BY <1>3, <2>0, <2>3, ErrorFails DEF ChangeIsNoted
            <3> QED
                BY <2>1, <2>2, <3>1 DEF ChangeIsNoted, UnchangedIsUntouched
      <2>4. CASE ~lrun.error /\ lrun.changed
            BY <2>1, <2>2, <2>4 DEF ChangeIsNoted, UnchangedIsUntouched
      <2>5. CASE ~lrun.error /\ Quiet
            BY <1>3, <2>0, <2>1, <2>2, <2>5, PlainNotes DEF ChangeIsNoted, UnchangedIsUntouched
      <2>6. CASE ~lrun.error /\ Archiving
            BY <1>3, <2>0, <2>1, <2>2, <2>6, ArchivingNotes DEF ChangeIsNoted, UnchangedIsUntouched
      <2> QED
          BY <2>0, <2>3, <2>4, <2>5, <2>6 DEF ChangeIsNoted
<1>4. CASE UNCHANGED lvars
      BY <1>4 DEF lvars, BoxType, RunShape, ChangeIsNoted, Quiet, Archiving, Failing, UnchangedIsUntouched
<1> QED
    BY <1>1, <1>2, <1>3, <1>4 DEF LxcNext

(* A run that succeeds and reports no change has not touched the container,*)
(* for all settings, numbers of tries and calls that may fail.             *)
THEOREM Unchanged == LxcSpec => []UnchangedIsUntouched
<1>1. LxcInv => UnchangedIsUntouched
      BY DEF LxcInv
<1> QED
    BY <1>1, LxcInitial, LxcInductive, PTL DEF LxcSpec

-----------------------------------------------------------------------------
(* What a run has done and has yet to do.  The calls that only change the  *)
(* state of the container are taken to work: the module does not look at   *)
(* what stop, freeze and unfreeze have done.                               *)

StateCalls == {"start", "stop", "freeze", "unfreeze"}

Live == {"running", "stopped", "frozen"}

BoxRecord ==
  box \in [state : Live \cup {"absent"}, lines : Seq(Settings), lvm : BOOLEAN, snapshot : BOOLEAN,
           mounted : BOOLEAN, temp : BOOLEAN, cloned : BOOLEAN, touched : BOOLEAN]

RunRecord ==
  /\ {"op", "phase", "todo", "tries", "changed", "error", "saved", "again"} \subseteq DOMAIN lrun
  /\ lrun.changed \in BOOLEAN /\ lrun.error \in BOOLEAN /\ lrun.again \in BOOLEAN
  /\ lrun.phase \in {"idle", "run", "done", "failed"}
  /\ lrun.phase # "idle" => lrun.op \in LxcOptions

(* The steps that a step of a method puts before the rest of it.           *)
LvmArchives ==
  {<<"sync", "snapshot", "mount", "tar", "unmount", "unsnapshot", "thaw">>,
   <<"snapshot", "mount", "tar", "unmount", "unsnapshot", "thaw">>,
   <<"mount", "tar", "unmount", "unsnapshot", "thaw">>,
   <<"tar", "unmount", "unsnapshot", "thaw">>,
   <<"unmount", "unsnapshot", "thaw">>, <<"unsnapshot", "thaw">>, <<"thaw">>}

DirectoryArchives == {<<"sync", "tar", "thaw">>, <<"tar", "thaw">>, <<"thaw">>}

Archives == LvmArchives \cup DirectoryArchives

Inserts ==
  {<<>>, <<"startup">>, <<"startup", "freeze">>, <<"freeze">>, <<"copy">>} \cup Archives

(* The state they lead to.                                                 *)
Leads(p, state, saved, r) ==
  /\ p = <<>> => r = state
  /\ p = <<"startup">> => r = "running"
  /\ p \in {<<"startup", "freeze">>, <<"freeze">>} => r = "frozen"
  /\ p = <<"copy">> => r = saved
  /\ p \in Archives => r = IF saved = "running" THEN "running" ELSE state

(* While it is archived the container is as it was, or frozen.             *)
Held == box.state = lrun.saved \/ (lrun.saved = "running" /\ box.state = "frozen")

(* What an archive of a directory has put into temporary places.           *)
Clean == ~box.lvm => ~box.temp

Placed(p) ==
  IF p \in Archives THEN Held /\ p \in (IF box.lvm THEN LvmArchives ELSE DirectoryArchives)
  ELSE Clean /\ (p = <<"copy">> => lrun.saved \in Live \cup {"absent"})

(* The rest of a method, from its step k on.                               *)
Kept == {"started", "stopped", "restarted", "frozen"}

RestOf(st, k) == SubSeq(Method[st], k, Len(Method[st]))

(* The steps that bring the container to the state asked for, and that     *)
(* configure it.  To clone it is the last one.                             *)
SetAt == [started |-> 1, stopped |-> 3, restarted |-> 4, frozen |-> 3]
ConfigAt == [started |-> 3, stopped |-> 2, restarted |-> 2, frozen |-> 2]

Configured == lrun.op.config = "none" \/ Contains(box.lines, lrun.op.config)
Cloned == lrun.op.clone => box.cloned

Accomplished ==
  /\ box.state = Wanted[lrun.op.state]
  /\ lrun.op.state # "absent" => Configured /\ Cloned

KeptAt(st, p, k, r) ==
  /\ k \in 1..(Len(Method[st]) + 1) /\ box.state \in Live /\ r \in Live
  /\ Leads(p, box.state, lrun.saved, r)
  /\ k > SetAt[st] => r = Wanted[st]
  /\ k > ConfigAt[st] => Configured
  /\ k > Len(Method[st]) => p = <<"copy">> \/ Cloned

AbsentSteps == {"archive", "clone", "stop", "destroy", "destroyed"}

AbsentAt(p, rest) ==
  /\ rest \in Seq(AbsentSteps)
  /\ IF rest = <<>> THEN p = <<>> /\ box.state = "absent" ELSE rest[Len(rest)] = "destroyed"

InMethod(p, rest) ==
  IF lrun.op.state = "absent" THEN AbsentAt(p, rest)
  ELSE \E k \in Nat, r \in Live : rest = RestOf(lrun.op.state, k) /\ KeptAt(lrun.op.state, p, k, r)

Going ==
  \/ lrun.todo = <<"method">> /\ Clean
  \/ \E p \in Inserts : \E rest \in Seq(Plain) :
       lrun.todo = p \o rest /\ Placed(p) /\ InMethod(p, rest)

(* After an error the finally clause is left.                              *)
Raised ==
  lrun.todo \in {<<"unmount", "unsnapshot", "thaw">>, <<"unsnapshot", "thaw">>, <<"thaw">>}
  /\ Held /\ (~box.lvm => lrun.todo = <<"thaw">>)

Restored == ~box.lvm => box.state = lrun.saved

StateInv ==
  /\ BoxRecord /\ RunRecord
  /\ ~box.lvm => ~box.mounted /\ ~box.snapshot
  /\ lrun.phase = "run" => IF lrun.error THEN Raised ELSE Going
  /\ lrun.phase # "run" => Clean /\ (lrun.error => lrun.phase = "failed" /\ Restored)
  /\ lrun.phase = "done" => Accomplished

(* A run that is made again finds everything done: what is left of it.     *)
Repeats(todo) ==
  \/ todo = <<"method">>
  \/ lrun.op.state = "absent" /\ todo \in {<<"destroyed">>, <<>>}
  \/ /\ lrun.op.state # "absent"
     /\ \E k \in 1..(Len(Method[lrun.op.state]) + 1) : todo = RestOf(lrun.op.state, k)

IsAgain ==
  /\ lrun.again /\ lrun.op.state # "restarted" /\ ~lrun.op.command /\ ~lrun.op.archive

AgainInv ==
  IsAgain /\ lrun.phase \in {"run", "done"} =>
    ~lrun.changed /\ ~lrun.error /\ Accomplished /\ Repeats(lrun.todo)

-----------------------------------------------------------------------------
(* A rest of a sequence, its first element and what follows.               *)
LEMMA RestOfSequence ==
  ASSUME NEW S, NEW m \in Seq(S)
  PROVE  /\ SubSeq(m, 1, Len(m)) = m
         /\ SubSeq(m, Len(m) + 1, Len(m)) = <<>>
         /\ \A k \in 1..Len(m) :
              /\ SubSeq(m, k, Len(m)) # <<>> /\ SubSeq(m, k, Len(m)) \in Seq(S)
              /\ Head(SubSeq(m, k, Len(m))) = m[k]
              /\ Tail(SubSeq(m, k, Len(m))) = SubSeq(m, k + 1, Len(m))
<1>1. Len(m) \in Nat
  OBVIOUS
<1>2. SubSeq(m, 1, Len(m)) = m
  BY SubSeqFull
<1>3. SubSeq(m, Len(m) + 1, Len(m)) = <<>>
  BY <1>1, SubSeqEmpty
<1>4. ASSUME NEW k \in 1..Len(m)
      PROVE  /\ SubSeq(m, k, Len(m)) # <<>> /\ SubSeq(m, k, Len(m)) \in Seq(S)
             /\ Head(SubSeq(m, k, Len(m))) = m[k]
             /\ Tail(SubSeq(m, k, Len(m))) = SubSeq(m, k + 1, Len(m))
  <2>1. Len(m) \in k..Len(m) /\ k \in Int /\ Len(m) \in Int
    BY <1>1
  <2>2. Head(SubSeq(m, k, Len(m))) = m[k] /\ Tail(SubSeq(m, k, Len(m))) = SubSeq(m, k + 1, Len(m))
    BY <2>1, HeadTailOfSubSeq
  <2>3. \A i \in k..Len(m) : m[i] \in S
    BY <2>1, ElementOfSeq
  <2>4. SubSeq(m, k, Len(m)) \in Seq(S) /\ Len(SubSeq(m, k, Len(m))) = Len(m) - k + 1
    BY <2>1, <2>3, SubSeqProperties
  <2>5. SubSeq(m, k, Len(m)) # <<>>
    <3>1. Len(SubSeq(m, k, Len(m))) # 0
      BY <1>1, <2>4
    <3> QED
      BY <3>1, EmptySeq
  <2> QED
    BY <2>2, <2>4, <2>5, Zenon
<1> QED
  BY <1>2, <1>3, <1>4

(* The first element of a sequence before another one.                     *)
LEMMA TailOfConcat ==
  ASSUME NEW S, NEW p \in Seq(S), p # <<>>, NEW rest \in Seq(S)
  PROVE  /\ p \o rest # <<>> /\ Head(p \o rest) = Head(p)
         /\ Tail(p \o rest) = Tail(p) \o rest
         /\ <<>> \o Tail(p \o rest) = Tail(p) \o rest
<1>1. /\ p \o rest \in Seq(S) /\ Len(p \o rest) = Len(p) + Len(rest) /\ Len(p) \in Nat \ {0}
      /\ Len(rest) \in Nat /\ p \o rest # <<>>
      /\ \A i \in 1..(Len(p) + Len(rest)) : (p \o rest)[i] = IF i <= Len(p) THEN p[i] ELSE rest[i - Len(p)]
  BY ConcatProperties, EmptySeq
<1>2. Head(p \o rest) = (p \o rest)[1] /\ Head(p) = p[1]
  OBVIOUS
<1>3. /\ Tail(p) \in Seq(S) /\ Len(Tail(p)) = Len(p) - 1
      /\ \A i \in 1..Len(Tail(p)) : Tail(p)[i] = p[i + 1]
  BY HeadTailProperties
<1>4. /\ Tail(p \o rest) \in Seq(S) /\ Len(Tail(p \o rest)) = Len(p) + Len(rest) - 1
      /\ \A i \in 1..Len(Tail(p \o rest)) : Tail(p \o rest)[i] = (p \o rest)[i + 1]
  BY <1>1, HeadTailProperties
<1>5. /\ Tail(p) \o rest \in Seq(S) /\ Len(Tail(p) \o rest) = Len(p) + Len(rest) - 1
      /\ \A i \in 1..(Len(p) + Len(rest) - 1) :
           (Tail(p) \o rest)[i] = IF i <= Len(p) - 1 THEN Tail(p)[i] ELSE rest[i - (Len(p) - 1)]
  BY <1>1, <1>3, ConcatProperties
<1>6. \A i \in 1..Len(Tail(p \o rest)) : Tail(p \o rest)[i] = (Tail(p) \o rest)[i]
  <2> TAKE i \in 1..Len(Tail(p \o rest))
  <2>1. i \in 1..(Len(p) + Len(rest) - 1) /\ i + 1 \in 1..(Len(p) + Len(rest)) /\ (i + 1) - Len(p) = i - (Len(p) - 1)
    BY <1>1, <1>4
  <2>2. CASE i <= Len(p) - 1
    BY <1>1, <1>3, <1>4, <1>5, <2>1, <2>2
  <2>3. CASE ~(i <= Len(p) - 1)
    BY <1>1, <1>4, <1>5, <2>1, <2>3
  <2> QED
    BY <2>2, <2>3
<1>7. Tail(p \o rest) = Tail(p) \o rest
  BY <1>4, <1>5, <1>6, SeqEqual
<1> QED
  BY <1>1, <1>2, <1>5, <1>7, ConcatEmptySeq

(* The steps of the archives, one after the other.                         *)
LEMMA ArchiveSteps ==
  ASSUME NEW p \in Archives
  PROVE  /\ p \in Seq(Steps) /\ p # <<>>
         /\ Head(p) \in {"sync", "snapshot", "mount", "tar", "unmount", "unsnapshot", "thaw"}
         /\ Head(p) = "thaw" => Tail(p) = <<>>
         /\ Head(p) # "thaw" =>
              /\ p \in LvmArchives => Tail(p) \in LvmArchives
              /\ p \in DirectoryArchives => Tail(p) \in DirectoryArchives
         /\ Head(p) \in {"snapshot", "mount", "unmount", "unsnapshot"} => p \notin DirectoryArchives
<1> DEFINE Fact(q) == /\ q \in Seq(Steps) /\ q # <<>>
                      /\ Head(q) \in {"sync", "snapshot", "mount", "tar", "unmount", "unsnapshot", "thaw"}
<1>1. CASE p \in {<<"sync", "tar", "thaw">>, <<"tar", "thaw">>, <<"thaw">>}
  <2>1. CASE p = <<"sync", "tar", "thaw">>
    BY <2>1 DEF Steps, DirectoryArchives, LvmArchives
  <2>2. CASE p = <<"tar", "thaw">>
    BY <2>2 DEF Steps, DirectoryArchives, LvmArchives
  <2>3. CASE p = <<"thaw">>
    BY <2>3 DEF Steps, DirectoryArchives, LvmArchives
  <2> QED
    BY <1>1, <2>1, <2>2, <2>3
<1>2. CASE p = <<"sync", "snapshot", "mount", "tar", "unmount", "unsnapshot", "thaw">>
    BY <1>2 DEF Steps, DirectoryArchives, LvmArchives
<1>3. CASE p = <<"snapshot", "mount", "tar", "unmount", "unsnapshot", "thaw">>
    BY <1>3 DEF Steps, DirectoryArchives, LvmArchives
<1>4. CASE p = <<"mount", "tar", "unmount", "unsnapshot", "thaw">>
    BY <1>4 DEF Steps, DirectoryArchives, LvmArchives
<1>5. CASE p = <<"tar", "unmount", "unsnapshot", "thaw">>
    BY <1>5 DEF Steps, DirectoryArchives, LvmArchives
<1>6. CASE p = <<"unmount", "unsnapshot", "thaw">>
    BY <1>6 DEF Steps, DirectoryArchives, LvmArchives
<1>7. CASE p = <<"unsnapshot", "thaw">>
    BY <1>7 DEF Steps, DirectoryArchives, LvmArchives
<1> QED
  BY <1>1, <1>2, <1>3, <1>4, <1>5, <1>6, <1>7 DEF Archives, LvmArchives, DirectoryArchives

(* The other steps that are put before the rest of a method.               *)
LEMMA OtherInserts ==
  /\ \A p \in {<<"startup">>, <<"startup", "freeze">>, <<"freeze">>, <<"copy">>} :
       p \in Seq(Steps) /\ p # <<>> /\ p \notin Archives
  /\ Head(<<"startup">>) = "startup" /\ Head(<<"startup", "freeze">>) = "startup"
  /\ Head(<<"freeze">>) = "freeze" /\ Head(<<"copy">>) = "copy"
  /\ Tail(<<"startup">>) = <<>> /\ Tail(<<"startup", "freeze">>) = <<"freeze">>
  /\ Tail(<<"freeze">>) = <<>> /\ Tail(<<"copy">>) = <<>>
<1>1. /\ Head(<<"startup">>) = "startup" /\ Head(<<"startup", "freeze">>) = "startup"
      /\ Head(<<"freeze">>) = "freeze" /\ Head(<<"copy">>) = "copy"
      /\ Tail(<<"startup">>) = <<>> /\ Tail(<<"startup", "freeze">>) = <<"freeze">>
      /\ Tail(<<"freeze">>) = <<>> /\ Tail(<<"copy">>) = <<>>
  OBVIOUS
<1>2. \A p \in Archives : Head(p) \notin {"startup", "freeze", "copy"}
  BY ArchiveSteps
<1>3. \A p \in {<<"startup">>, <<"startup", "freeze">>, <<"freeze">>, <<"copy">>} :
       p \in Seq(Steps) /\ p # <<>>
  <2>1. "startup" \in Steps /\ "freeze" \in Steps /\ "copy" \in Steps
    BY DEF Steps, Plain
  <2>2. /\ <<"startup">> \in Seq(Steps) /\ <<"freeze">> \in Seq(Steps) /\ <<"copy">> \in Seq(Steps)
        /\ <<"startup", "freeze">> \in Seq(Steps)
    BY <2>1
  <2>3. <<"startup">> # <<>> /\ <<"freeze">> # <<>> /\ <<"copy">> # <<>> /\ <<"startup", "freeze">> # <<>>
    OBVIOUS
  <2> QED
    BY <2>2, <2>3
<1> QED
  BY <1>1, <1>2, <1>3

(* The steps of a method.                                                  *)
LEMMA MethodSteps ==
  ASSUME NEW st \in Kept
  PROVE  /\ Method[st] \in Seq(Plain) /\ Len(Method[st]) \in 5..6
         /\ Wanted[st] \in Live /\ SetAt[st] \in 1..4 /\ ConfigAt[st] \in 1..4
         /\ \A k \in 1..Len(Method[st]) :
              LET name == Method[st][k]
              IN  /\ name \in {"ensure", "command", "config", "stop", "startup", "frozen", "archive", "clone"}
                  /\ name = "ensure" => Wanted[st] = "running"
                  /\ name = "command" => k < SetAt[st] \/ Wanted[st] = "running"
                  /\ name \in {"stop", "startup", "frozen"} => k <= SetAt[st]
                  /\ name = "stop" => k < SetAt[st] \/ Wanted[st] = "stopped"
                  /\ name = "startup" => Wanted[st] = "running"
                  /\ name = "frozen" => Wanted[st] = "frozen"
                  /\ st # "restarted" => name # "startup" /\ (name = "stop" => st = "stopped")
                  /\ k = ConfigAt[st] <=> name = "config"
                  /\ k = Len(Method[st]) <=> name = "clone"
                  /\ k = SetAt[st] => name \in {"ensure", "stop", "startup", "frozen"}
<1>1. CASE st = "started"
  <2>1. Method[st] = <<"ensure", "command", "config", "archive", "clone">>
    BY <1>1 DEF Method
  <2>2. SetAt[st] = 1 /\ ConfigAt[st] = 3 /\ Wanted[st] = "running"
    BY <1>1 DEF SetAt, ConfigAt, Wanted
  <2>3. Method[st] \in Seq(Plain) /\ Len(Method[st]) = 5 /\ Wanted[st] \in Live
    BY <2>1, <2>2 DEF Plain, Live
  <2>4. /\ Method[st][1] = "ensure" /\ Method[st][2] = "command" /\ Method[st][3] = "config"
        /\ Method[st][4] = "archive" /\ Method[st][5] = "clone"
    BY <2>1
  <2> QED
    BY <1>1, <2>2, <2>3, <2>4
<1>2. CASE st = "stopped"
  <2>1. Method[st] = <<"command", "config", "stop", "archive", "clone">>
    BY <1>2 DEF Method
  <2>2. SetAt[st] = 3 /\ ConfigAt[st] = 2 /\ Wanted[st] = "stopped"
    BY <1>2 DEF SetAt, ConfigAt, Wanted
  <2>3. Method[st] \in Seq(Plain) /\ Len(Method[st]) = 5 /\ Wanted[st] \in Live
    BY <2>1, <2>2 DEF Plain, Live
  <2>4. /\ Method[st][1] = "command" /\ Method[st][2] = "config" /\ Method[st][3] = "stop"
        /\ Method[st][4] = "archive" /\ Method[st][5] = "clone"
    BY <2>1
  <2> QED
    BY <1>2, <2>2, <2>3, <2>4
<1>3. CASE st = "restarted"
  <2>1. Method[st] = <<"command", "config", "stop", "startup", "archive", "clone">>
    BY <1>3 DEF Method
  <2>2. SetAt[st] = 4 /\ ConfigAt[st] = 2 /\ Wanted[st] = "running"
    BY <1>3 DEF SetAt, ConfigAt, Wanted
  <2>3. Method[st] \in Seq(Plain) /\ Len(Method[st]) = 6 /\ Wanted[st] \in Live
    BY <2>1, <2>2 DEF Plain, Live
  <2>4. /\ Method[st][1] = "command" /\ Method[st][2] = "config" /\ Method[st][3] = "stop"
        /\ Method[st][4] = "startup" /\ Method[st][5] = "archive" /\ Method[st][6] = "clone"
    BY <2>1
  <2> QED
    BY <1>3, <2>2, <2>3, <2>4
<1>4. CASE st = "frozen"
  <2>1. Method[st] = <<"command", "config", "frozen", "archive", "clone">>
    BY <1>4 DEF Method
  <2>2. SetAt[st] = 3 /\ ConfigAt[st] = 2 /\ Wanted[st] = "frozen"
    BY <1>4 DEF SetAt, ConfigAt, Wanted
  <2>3. Method[st] \in Seq(Plain) /\ Len(Method[st]) = 5 /\ Wanted[st] \in Live
    BY <2>1, <2>2 DEF Plain, Live
  <2>4. /\ Method[st][1] = "command" /\ Method[st][2] = "config" /\ Method[st][3] = "frozen"
        /\ Method[st][4] = "archive" /\ Method[st][5] = "clone"
    BY <2>1
  <2> QED
    BY <1>4, <2>2, <2>3, <2>4
<1> QED
  BY <1>1, <1>2, <1>3, <1>4 DEF Kept

(* A line is put in once.                                                  *)
LEMMA Settled ==
  ASSUME NEW lines \in Seq(Settings), NEW v \in Settings
  PROVE  /\ WithSetting(lines, v) \in Seq(Settings) /\ Contains(WithSetting(lines, v), v)
         /\ Contains(lines, v) => WithSetting(lines, v) = lines
<1>1. CASE lines = <<>>
  <2>1. WithSetting(lines, v) = <<v>>
    BY <1>1, Zenon DEF WithSetting
  <2>2. ~Contains(lines, v) /\ Contains(<<v>>, v) /\ <<v>> \in Seq(Settings)
    BY <1>1 DEF Contains
  <2> QED
    BY <2>1, <2>2
<1>2. CASE lines # <<>> /\ Contains(lines, v)
  BY <1>2, Zenon DEF WithSetting
<1>3. CASE lines # <<>> /\ ~Contains(lines, v)
  <2>1. WithSetting(lines, v) = InsertAt(lines, 2, v)
    BY <1>3, Zenon DEF WithSetting
  <2> DEFINE a == SubSeq(lines, 1, 1)
             b == SubSeq(lines, 2, Len(lines))
  <2>2. Len(lines) \in Nat \ {0}
    BY <1>3
  <2>3. a \in Seq(Settings) /\ Len(a) = 1 /\ b \in Seq(Settings)
    BY <2>2
  <2>4. InsertAt(lines, 2, v) = (a \o <<v>>) \o b
    BY DEF InsertAt
  <2> HIDE DEF a, b
  <2>5. a \o <<v>> \in Seq(Settings) /\ Len(a \o <<v>>) = 2 /\ (a \o <<v>>)[2] = v
    <3> DEFINE w == <<v>>
    <3>1. w \in Seq(Settings) /\ Len(w) = 1 /\ w[1] = v
      OBVIOUS
    <3> HIDE DEF w
    <3>2. /\ a \o w \in Seq(Settings) /\ Len(a \o w) = Len(a) + Len(w)
          /\ \A i \in 1..(Len(a) + Len(w)) : (a \o w)[i] = IF i <= Len(a) THEN a[i] ELSE w[i - Len(a)]
      BY <2>3, <3>1, ConcatProperties
    <3>3. 2 \in 1..(Len(a) + Len(w)) /\ 2 - Len(a) = 1
      BY <2>3, <3>1
    <3>4. a \o w \in Seq(Settings) /\ Len(a \o w) = 2 /\ (a \o w)[2] = v
      BY <2>3, <3>1, <3>2, <3>3
    <3> QED
      BY <3>4 DEF w
  <2>6. /\ (a \o <<v>>) \o b \in Seq(Settings) /\ ((a \o <<v>>) \o b)[2] = v
        /\ 2 \in 1..Len((a \o <<v>>) \o b)
    BY <2>3, <2>5
  <2> QED
    BY <1>3, <2>1, <2>4, <2>6 DEF Contains
<1> QED
  BY <1>1, <1>2, <1>3

-----------------------------------------------------------------------------
(* What a step makes of the record of the run: it goes on,                 *)
LEMMA GoesOn ==
  ASSUME RunRecord, lrun.phase = "run", NEW steps, NEW c \in BOOLEAN, Then(steps, c)
  PROVE  /\ RunRecord' /\ lrun'.op = lrun.op /\ lrun'.again = lrun.again /\ lrun'.phase = "run"
         /\ lrun'.error = lrun.error /\ lrun'.saved = lrun.saved
         /\ lrun'.todo = steps \o Tail(lrun.todo) /\ (~c => lrun'.changed = lrun.changed)
BY DEF Then, RunRecord

(* it ends with a failure,                                                 *)
LEMMA Ends ==
  ASSUME RunRecord, lrun.phase = "run", Failed
  PROVE  /\ RunRecord' /\ lrun'.op = lrun.op /\ lrun'.again = lrun.again /\ lrun'.phase = "failed"
         /\ lrun'.error = lrun.error /\ lrun'.saved = lrun.saved
BY DEF Failed, RunRecord

(* or it raises within an archive.                                         *)
LEMMA Raises ==
  ASSUME RunRecord, lrun.phase = "run", Raise
  PROVE  /\ RunRecord' /\ lrun'.op = lrun.op /\ lrun'.again = lrun.again /\ lrun'.phase = "run"
         /\ lrun'.error /\ lrun'.saved = lrun.saved
         /\ lrun'.todo = IF box.lvm THEN <<"unmount", "unsnapshot", "thaw">> ELSE <<"thaw">>
BY DEF Raise, RunRecord, Finally

(* What it makes of the container.                                         *)
LEMMA BoxBecomes ==
  ASSUME BoxRecord, NEW s \in Live \cup {"absent"}, NEW lines \in Seq(Settings), NEW t \in BOOLEAN,
         NEW c \in BOOLEAN, NEW d \in BOOLEAN
  PROVE  /\ Becomes(s) \in [state : Live \cup {"absent"}, lines : Seq(Settings), lvm : BOOLEAN,
              snapshot : BOOLEAN, mounted : BOOLEAN, temp : BOOLEAN, cloned : BOOLEAN, touched : BOOLEAN]
         /\ Becomes(s).state = s /\ Becomes(s).lines = box.lines /\ Becomes(s).lvm = box.lvm
         /\ Becomes(s).snapshot = box.snapshot /\ Becomes(s).mounted = box.mounted
         /\ Becomes(s).temp = box.temp /\ Becomes(s).cloned = box.cloned
<1> HIDE DEF Live
<1> QED
  BY DEF BoxRecord, Becomes

(* The calls that change the state of a container and may fail.            *)
Unreliables == StateCalls \cap Unreliable

(* A step of those that were put before the rest of the method.            *)
Steadily(p, rest) ==
  \E q \in Inserts :
    /\ lrun'.todo = q \o rest /\ Placed(q)'
    /\ box'.lines = box.lines /\ (box.cloned => box'.cloned) /\ (p = <<"copy">> => box'.cloned)
    /\ q = <<"copy">> => p = <<"copy">>
    /\ \A r \in Live :
         box.state \in Live /\ Leads(p, box.state, lrun.saved, r) =>
           box'.state \in Live /\ Leads(q, box'.state, lrun'.saved, r)

(* A step of an archive.                                                   *)
LEMMA ArchiveStep ==
  ASSUME Unreliables = {}, BoxRecord, RunRecord, lrun.phase = "run", ~lrun.error,
         ~box.lvm => ~box.mounted /\ ~box.snapshot,
         NEW p \in Archives, NEW rest \in Seq(Plain), lrun.todo = p \o rest, Placed(p), LxcStep
  PROVE  /\ BoxRecord' /\ RunRecord' /\ lrun'.op = lrun.op
         /\ ~box'.lvm => ~box'.mounted /\ ~box'.snapshot
         /\ \/ lrun'.phase = "failed" /\ ~lrun'.error /\ Clean'
            \/ lrun'.phase = "run" /\ lrun'.error /\ Raised'
            \/ lrun'.phase = "run" /\ ~lrun'.error /\ Steadily(p, rest)
<1> DEFINE Goal ==
         /\ BoxRecord' /\ RunRecord' /\ lrun'.op = lrun.op
         /\ ~box'.lvm => ~box'.mounted /\ ~box'.snapshot
         /\ \/ lrun'.phase = "failed" /\ ~lrun'.error /\ Clean'
            \/ lrun'.phase = "run" /\ lrun'.error /\ Raised'
            \/ lrun'.phase = "run" /\ ~lrun'.error /\ Steadily(p, rest)
<1>1. /\ p \in Seq(Steps) /\ p # <<>> /\ rest \in Seq(Steps)
      /\ Head(p) \in {"sync", "snapshot", "mount", "tar", "unmount", "unsnapshot", "thaw"}
  <2>1. Plain \subseteq Steps
    BY DEF Steps
  <2> QED
    BY <2>1, ArchiveSteps, SeqMonotonic
<1>2. /\ lrun.todo # <<>> /\ Head(lrun.todo) = Head(p) /\ Tail(lrun.todo) = Tail(p) \o rest
      /\ <<>> \o Tail(lrun.todo) = Tail(p) \o rest
  BY <1>1, TailOfConcat
<1>3. Held /\ p \in (IF box.lvm THEN LvmArchives ELSE DirectoryArchives)
  BY DEF Placed
<1>4. Sync \/ Snapshot \/ Mount \/ Tar \/ Unmount \/ Unsnapshot \/ Thaw
  BY <1>1, <1>2 DEF LxcStep, Does, RunMethod, EnsureStarted, Frozen, Freeze, Stop, Startup, Destroyed,
     Destroy, Command, Config, Archive, Clone, Copy, LxcFinish
<1>5. Head(p) \in {"snapshot", "mount", "unmount", "unsnapshot"} => box.lvm
  BY <1>3, ArchiveSteps
<1>6. ASSUME Raise, UNCHANGED box PROVE Goal
  <2>1. Held'
    BY <1>3, <1>6, Raises DEF Held
  <2>2. Raised'
    BY <1>6, <2>1, Raises DEF Raised
  <2> QED
    BY <1>6, <2>2, Raises DEF BoxRecord
<1>7. ASSUME NEW c \in BOOLEAN, After(c), BoxRecord', Head(p) # "thaw", box'.state = box.state,
             box'.lines = box.lines, box'.lvm = box.lvm, box'.cloned = box.cloned,
             ~box.lvm => box'.mounted = box.mounted /\ box'.snapshot = box.snapshot
      PROVE  Goal
  <2>1. /\ RunRecord' /\ lrun'.op = lrun.op /\ lrun'.phase = "run" /\ ~lrun'.error
        /\ lrun'.saved = lrun.saved /\ lrun'.todo = Tail(p) \o rest
    BY <1>2, <1>7, GoesOn DEF After
  <2>2. Tail(p) \in (IF box.lvm THEN LvmArchives ELSE DirectoryArchives)
    BY <1>3, <1>7, ArchiveSteps
  <2>3. Tail(p) \in Archives /\ Tail(p) \in Inserts /\ p # <<"copy">> /\ Tail(p) # <<"copy">>
    BY <2>2, OtherInserts DEF Archives, Inserts
  <2>4. Placed(Tail(p))'
    BY <1>3, <1>7, <2>1, <2>2, <2>3 DEF Placed, Held
  <2>5. \A r : Leads(p, box.state, lrun.saved, r) => Leads(Tail(p), box'.state, lrun'.saved, r)
    <3>1. \A q \in Archives : q # <<>> /\ q \notin {<<"startup">>, <<"startup", "freeze">>, <<"freeze">>, <<"copy">>}
      BY ArchiveSteps, OtherInserts
    <3> QED
      BY <1>7, <2>1, <2>3, <3>1 DEF Leads
  <2>6. Steadily(p, rest)
    BY <1>7, <2>1, <2>3, <2>4, <2>5 DEF Steadily
  <2> QED
    BY <1>7, <2>1, <2>6
<1>8. CASE Sync
  <2>1. Head(p) # "thaw"
    BY <1>2, <1>8 DEF Sync, Does
  <2>2. UNCHANGED box /\ BoxRecord'
    BY <1>8 DEF Sync, BoxRecord
  <2>3. After(~box.lvm) \/ Raise
    BY <1>8 DEF Sync
  <2>4. (~box.lvm) \in BOOLEAN
    OBVIOUS
  <2> QED
    BY <1>6, <1>7, <2>1, <2>2, <2>3, <2>4
<1>9. CASE Snapshot
  <2>1. Head(p) = "snapshot" /\ box.lvm
    BY <1>2, <1>5, <1>9 DEF Snapshot, Does
  <2>2. CASE Raise /\ UNCHANGED box
    BY <1>6, <2>2
  <2>3. CASE box' = [box EXCEPT !.snapshot = TRUE] /\ After(FALSE)
    <3>1. /\ BoxRecord' /\ box'.state = box.state /\ box'.lines = box.lines /\ box'.lvm = box.lvm
          /\ box'.cloned = box.cloned
      BY <2>3 DEF BoxRecord
    <3> QED
      BY <1>7, <2>1, <2>3, <3>1
  <2> QED
    BY <1>9, <2>2, <2>3 DEF Snapshot
<1>10. CASE Mount
  <2>1. Head(p) = "mount" /\ box.lvm
    BY <1>2, <1>5, <1>10 DEF Mount, Does
  <2>2. CASE Raise /\ UNCHANGED box
    BY <1>6, <2>2
  <2>3. CASE box' = [box EXCEPT !.mounted = TRUE] /\ After(TRUE)
    <3>1. /\ BoxRecord' /\ box'.state = box.state /\ box'.lines = box.lines /\ box'.lvm = box.lvm
          /\ box'.cloned = box.cloned
      BY <2>3 DEF BoxRecord
    <3> QED
      BY <1>7, <2>1, <2>3, <3>1
  <2> QED
    BY <1>10, <2>2, <2>3 DEF Mount
<1>11. CASE Tar
  <2>1. Head(p) # "thaw"
    BY <1>2, <1>11 DEF Tar, Does
  <2>2. UNCHANGED box /\ BoxRecord' /\ (After(FALSE) \/ Raise)
    BY <1>11 DEF Tar, BoxRecord
  <2> QED
    BY <1>6, <1>7, <2>1, <2>2
<1>12. CASE Unmount
  <2>1. Head(p) = "unmount" /\ box.lvm
    BY <1>2, <1>5, <1>12 DEF Unmount, Does
  <2>2. CASE Failed /\ UNCHANGED box
    BY <2>1, <2>2, Ends DEF BoxRecord, Clean
  <2>3. CASE box' = [box EXCEPT !.mounted = FALSE] /\ After(FALSE)
    <3>1. /\ BoxRecord' /\ box'.state = box.state /\ box'.lines = box.lines /\ box'.lvm = box.lvm
          /\ box'.cloned = box.cloned
      BY <2>3 DEF BoxRecord
    <3> QED
      BY <1>7, <2>1, <2>3, <3>1
  <2> QED
    BY <1>12, <2>2, <2>3 DEF Unmount
<1>13. CASE Unsnapshot
  <2>1. Head(p) = "unsnapshot" /\ box.lvm
    BY <1>2, <1>5, <1>13 DEF Unsnapshot, Does
  <2>2. box' = [box EXCEPT !.snapshot = FALSE] /\ After(FALSE)
    BY <1>13 DEF Unsnapshot
  <2>3. /\ BoxRecord' /\ box'.state = box.state /\ box'.lines = box.lines /\ box'.lvm = box.lvm
        /\ box'.cloned = box.cloned
    BY <2>2 DEF BoxRecord
  <2> QED
    BY <1>7, <2>1, <2>2, <2>3
<1>14. CASE Thaw
  <2>1. Head(p) = "thaw" /\ Tail(p) = <<>>
    BY <1>2, <1>14, ArchiveSteps DEF Thaw, Does
  <2>2. After(FALSE)
    BY <1>14 DEF Thaw
  <2>3. /\ RunRecord' /\ lrun'.op = lrun.op /\ lrun'.phase = "run" /\ ~lrun'.error
        /\ lrun'.saved = lrun.saved /\ lrun'.todo = <<>> \o rest
    BY <1>2, <2>1, <2>2, GoesOn DEF After
  <2>4. PICK s : /\ box' = [Becomes(s) EXCEPT !.temp = FALSE]
                 /\ s = IF lrun.saved = "running" THEN "running" ELSE box.state
    BY <1>14 DEF Thaw, Restores, Calls, Unreliables, StateCalls
  <2>5. s \in Live \cup {"absent"}
    BY <2>4 DEF BoxRecord, Live
  <2>6. /\ BoxRecord' /\ box'.state = s /\ box'.lines = box.lines /\ box'.lvm = box.lvm
        /\ box'.cloned = box.cloned /\ ~box'.temp
        /\ box'.mounted = box.mounted /\ box'.snapshot = box.snapshot
    <3> HIDE DEF Live
    <3> QED
      BY <2>4, <2>5, BoxBecomes DEF BoxRecord
  <2>7. <<>> \in Inserts /\ <<>> \notin Archives /\ <<>> # <<"copy">> /\ p # <<"copy">>
    BY ArchiveSteps, OtherInserts DEF Inserts
  <2>8. Placed(<<>>)'
    BY <2>6, <2>7 DEF Placed, Clean
  <2>9. \A r \in Live : box.state \in Live /\ Leads(p, box.state, lrun.saved, r) =>
          box'.state \in Live /\ Leads(<<>>, box'.state, lrun'.saved, r)
    BY <2>4, <2>6, <2>7 DEF Leads
  <2>10. Steadily(p, rest)
    BY <2>3, <2>6, <2>7, <2>8, <2>9 DEF Steadily
  <2> QED
    BY <2>3, <2>6, <2>10
<1> QED
  BY <1>4, <1>8, <1>9, <1>10, <1>11, <1>12, <1>13, <1>14

(* The steps of an archive, altogether.                                    *)
LEMMA WholeArchives ==
  /\ <<"sync", "tar">> \o <<"thaw">> = <<"sync", "tar", "thaw">>
  /\ <<"sync", "snapshot", "mount", "tar">> \o <<"unmount", "unsnapshot", "thaw">> =
       <<"sync", "snapshot", "mount", "tar", "unmount", "unsnapshot", "thaw">>
<1>0. {"sync", "snapshot", "mount", "tar", "unmount", "unsnapshot", "thaw"} \subseteq Steps
  BY DEF Steps
<1>1. ASSUME NEW a \in Seq(Steps), NEW b \in Seq(Steps), NEW c \in Seq(Steps),
             Len(c) = Len(a) + Len(b),
             \A i \in 1..Len(a) : c[i] = a[i], \A i \in 1..Len(b) : c[Len(a) + i] = b[i]
      PROVE  a \o b = c
  <2>1. /\ a \o b \in Seq(Steps) /\ Len(a \o b) = Len(a) + Len(b) /\ Len(a) \in Nat /\ Len(b) \in Nat
        /\ \A i \in 1..(Len(a) + Len(b)) : (a \o b)[i] = IF i <= Len(a) THEN a[i] ELSE b[i - Len(a)]
    BY ConcatProperties
  <2>2. \A i \in 1..Len(a \o b) : (a \o b)[i] = c[i]
    <3> TAKE i \in 1..Len(a \o b)
    <3>1. CASE i <= Len(a)
      BY <1>1, <2>1, <3>1
    <3>2. CASE ~(i <= Len(a))
      <4>1. i - Len(a) \in 1..Len(b) /\ Len(a) + (i - Len(a)) = i
        BY <2>1, <3>2
      <4> QED
        BY <1>1, <2>1, <3>2, <4>1
    <3> QED
      BY <3>1, <3>2
  <2> QED
    BY <1>1, <2>1, <2>2, SeqEqual
<1>2. <<"sync", "tar">> \o <<"thaw">> = <<"sync", "tar", "thaw">>
  <2> DEFINE a == <<"sync", "tar">>
             b == <<"thaw">>
             c == <<"sync", "tar", "thaw">>
  <2>1. a \in Seq(Steps) /\ b \in Seq(Steps) /\ c \in Seq(Steps)
    BY <1>0
  <2>2. Len(a) = 2 /\ Len(b) = 1 /\ Len(c) = 3 /\ c[1] = a[1] /\ c[2] = a[2] /\ c[3] = b[1]
    OBVIOUS
  <2> HIDE DEF a, b, c
  <2>3. /\ Len(c) = Len(a) + Len(b)
        /\ \A i \in 1..Len(a) : c[i] = a[i]
        /\ \A i \in 1..Len(b) : c[Len(a) + i] = b[i]
    BY <2>2
  <2>4. a \o b = c
    BY <1>1, <2>1, <2>3, Zenon
  <2> QED
    BY <2>4 DEF a, b, c
<1>3. <<"sync", "snapshot", "mount", "tar">> \o <<"unmount", "unsnapshot", "thaw">> =
       <<"sync", "snapshot", "mount", "tar", "unmount", "unsnapshot", "thaw">>
  <2> DEFINE a == <<"sync", "snapshot", "mount", "tar">>
             b == <<"unmount", "unsnapshot", "thaw">>
             c == <<"sync", "snapshot", "mount", "tar", "unmount", "unsnapshot", "thaw">>
  <2>1. a \in Seq(Steps) /\ b \in Seq(Steps) /\ c \in Seq(Steps)
    BY <1>0
  <2>2. /\ Len(a) = 4 /\ Len(b) = 3 /\ Len(c) = 7
        /\ c[1] = a[1] /\ c[2] = a[2] /\ c[3] = a[3] /\ c[4] = a[4]
        /\ c[5] = b[1] /\ c[6] = b[2] /\ c[7] = b[3]
    OBVIOUS
  <2> HIDE DEF a, b, c
  <2>3. /\ Len(c) = Len(a) + Len(b)
        /\ \A i \in 1..Len(a) : c[i] = a[i]
        /\ \A i \in 1..Len(b) : c[Len(a) + i] = b[i]
    BY <2>2
  <2>4. a \o b = c
    BY <1>1, <2>1, <2>3, Zenon
  <2> QED
    BY <2>4 DEF a, b, c
<1> QED
  BY <1>2, <1>3

(* The steps of another kind that were put before the rest of the method.  *)
LEMMA OtherStep ==
  ASSUME Unreliables = {}, BoxRecord, RunRecord, lrun.phase = "run", ~lrun.error,
         NEW p \in {<<"startup">>, <<"startup", "freeze">>, <<"freeze">>, <<"copy">>},
         NEW rest \in Seq(Plain), lrun.todo = p \o rest, Placed(p), LxcStep
  PROVE  /\ BoxRecord' /\ RunRecord' /\ lrun'.op = lrun.op
         /\ box'.lvm = box.lvm /\ box'.mounted = box.mounted /\ box'.snapshot = box.snapshot
         /\ \/ lrun'.phase = "failed" /\ ~lrun'.error /\ Clean'
            \/ lrun'.phase = "run" /\ ~lrun'.error /\ Steadily(p, rest)
<1> DEFINE Goal ==
         /\ BoxRecord' /\ RunRecord' /\ lrun'.op = lrun.op
         /\ box'.lvm = box.lvm /\ box'.mounted = box.mounted /\ box'.snapshot = box.snapshot
         /\ \/ lrun'.phase = "failed" /\ ~lrun'.error /\ Clean'
            \/ lrun'.phase = "run" /\ ~lrun'.error /\ Steadily(p, rest)
<1>1. p \in Seq(Steps) /\ p # <<>> /\ rest \in Seq(Steps) /\ p \notin Archives
  <2>1. Plain \subseteq Steps
    BY DEF Steps
  <2> QED
    BY <2>1, OtherInserts, SeqMonotonic
<1>2. /\ lrun.todo # <<>> /\ Head(lrun.todo) = Head(p) /\ Tail(lrun.todo) = Tail(p) \o rest
      /\ <<>> \o Tail(lrun.todo) = Tail(p) \o rest
  BY <1>1, TailOfConcat
<1>3. /\ Head(p) = "startup" => p \in {<<"startup">>, <<"startup", "freeze">>}
      /\ Head(p) = "freeze" => p = <<"freeze">>
      /\ Head(p) = "copy" => p = <<"copy">>
      /\ Head(p) \in {"startup", "freeze", "copy"}
  BY OtherInserts
<1>4. Startup \/ Freeze \/ Copy
  BY <1>2, <1>3 DEF LxcStep, Does, RunMethod, EnsureStarted, Frozen, Stop, Destroyed, Destroy, Command,
     Config, Archive, Clone, Sync, Snapshot, Mount, Tar, Unmount, Unsnapshot, Thaw, LxcFinish
<1>5. /\ <<>> \in Inserts /\ <<"startup">> \in Inserts /\ <<"startup", "freeze">> \in Inserts
      /\ <<"freeze">> \in Inserts /\ <<"copy">> \in Inserts
      /\ <<>> \notin Archives /\ <<"freeze">> \notin Archives
  BY ArchiveSteps, OtherInserts DEF Inserts
<1>6. /\ <<"startup">> # <<>> /\ <<"startup">> # <<"copy">> /\ <<"startup">> # <<"freeze">>
      /\ <<"freeze">> # <<>> /\ <<"freeze">> # <<"copy">> /\ <<"copy">> # <<>>
      /\ <<"startup", "freeze">> \notin {<<>>, <<"startup">>, <<"freeze">>, <<"copy">>}
  BY OtherInserts
<1>c. Clean /\ (p = <<"copy">> => lrun.saved \in Live \cup {"absent"})
  BY <1>1 DEF Placed
<1>u. \A name \in StateCalls : name \notin Unreliable
  BY DEF Unreliables
<1>7. Failed /\ UNCHANGED box => Goal
  BY <1>c, Ends DEF BoxRecord, Clean
<1>8. CASE Startup
  <2>1. p \in {<<"startup">>, <<"startup", "freeze">>}
    BY <1>2, <1>3, <1>8 DEF Startup, Does
  <2>2. CASE lrun' = [lrun EXCEPT !.todo = Tail(@), !.tries = 0] /\ UNCHANGED box /\ box.state = "running"
    <3>1. /\ RunRecord' /\ lrun'.op = lrun.op /\ lrun'.phase = "run" /\ ~lrun'.error
          /\ lrun'.saved = lrun.saved /\ lrun'.todo = Tail(p) \o rest
      BY <1>2, <2>2 DEF RunRecord
    <3>2. \/ Tail(p) = <<>> /\ p = <<"startup">>
          \/ Tail(p) = <<"freeze">> /\ p = <<"startup", "freeze">>
      BY <2>1, OtherInserts
    <3>3. Placed(Tail(p))'
      BY <1>5, <1>6, <1>c, <2>2, <3>2 DEF Placed, Clean
    <3>4. \A r \in Live : Leads(p, box.state, lrun.saved, r) => Leads(Tail(p), box'.state, lrun'.saved, r)
      BY <1>1, <1>5, <1>6, <2>2, <3>2 DEF Leads
    <3>5. Steadily(p, rest)
      BY <1>5, <1>6, <2>2, <3>1, <3>2, <3>3, <3>4 DEF Steadily
    <3> QED
      BY <2>2, <3>1, <3>5 DEF BoxRecord
  <2>3. ASSUME lrun' = [lrun EXCEPT !.tries = @ + 1, !.changed = TRUE],
               NEW s \in {"running", box.state}, box' = Becomes(s)
        PROVE  Goal
    <3>1. /\ RunRecord' /\ lrun'.op = lrun.op /\ lrun'.phase = "run" /\ ~lrun'.error
          /\ lrun'.saved = lrun.saved /\ lrun'.todo = p \o rest
      BY <2>3 DEF RunRecord
    <3>2. s \in Live \cup {"absent"} /\ (box.state \in Live => s \in Live)
      BY <2>3 DEF BoxRecord, Live
    <3>3. /\ BoxRecord' /\ box'.state = s /\ box'.lines = box.lines /\ box'.lvm = box.lvm
          /\ box'.cloned = box.cloned /\ box'.temp = box.temp
          /\ box'.mounted = box.mounted /\ box'.snapshot = box.snapshot
      BY <2>3, <3>2, BoxBecomes DEF BoxRecord
    <3>4. Placed(p)'
      BY <1>1, <1>6, <1>c, <2>1, <3>3 DEF Placed, Clean
    <3>5. \A r \in Live : Leads(p, box.state, lrun.saved, r) => Leads(p, box'.state, lrun'.saved, r)
      BY <1>1, <1>6, <2>1 DEF Leads
    <3>6. Steadily(p, rest)
      BY <1>5, <1>6, <2>1, <3>1, <3>2, <3>3, <3>4, <3>5 DEF Steadily
    <3> QED
      BY <3>1, <3>3, <3>6
  <2> QED
    BY <1>7, <1>8, <2>2, <2>3 DEF Startup, Calls
<1>9. CASE Freeze
  <2>1. p = <<"freeze">> /\ Tail(p) = <<>>
    BY <1>2, <1>3, <1>9, OtherInserts DEF Freeze, Does
  <2>2. After(FALSE) /\ box' = Becomes("frozen")
    BY <1>9 DEF Freeze, Calls, Unreliables, StateCalls
  <2>3. /\ RunRecord' /\ lrun'.op = lrun.op /\ lrun'.phase = "run" /\ ~lrun'.error
        /\ lrun'.saved = lrun.saved /\ lrun'.todo = <<>> \o rest
    BY <1>2, <2>1, <2>2, GoesOn DEF After
  <2>4. /\ BoxRecord' /\ box'.state = "frozen" /\ box'.lines = box.lines /\ box'.lvm = box.lvm
        /\ box'.cloned = box.cloned /\ box'.temp = box.temp
        /\ box'.mounted = box.mounted /\ box'.snapshot = box.snapshot /\ "frozen" \in Live
    <3>1. "frozen" \in Live
      BY DEF Live
    <3> QED
      BY <2>2, <3>1, BoxBecomes DEF BoxRecord
  <2>5. Placed(<<>>)'
    BY <1>5, <1>6, <1>c, <2>4 DEF Placed, Clean
  <2>6. \A r \in Live : Leads(p, box.state, lrun.saved, r) => Leads(<<>>, box'.state, lrun'.saved, r)
    BY <1>5, <1>6, <2>1, <2>4 DEF Leads
  <2>7. Steadily(p, rest)
    BY <1>5, <1>6, <2>1, <2>3, <2>4, <2>5, <2>6 DEF Steadily
  <2> QED
    BY <2>3, <2>4, <2>7
<1>10. CASE Copy
  <2>1. p = <<"copy">> /\ Tail(p) = <<>>
    BY <1>2, <1>3, <1>10, OtherInserts DEF Copy, Does
  <2>2. ASSUME After(TRUE), NEW s, box' = [Becomes(s) EXCEPT !.cloned = TRUE, !.touched = TRUE],
               s = lrun.saved, s \in Live \cup {"absent"}
        PROVE  Goal
    <3>1. /\ RunRecord' /\ lrun'.op = lrun.op /\ lrun'.phase = "run" /\ ~lrun'.error
          /\ lrun'.saved = lrun.saved /\ lrun'.todo = <<>> \o rest
      BY <1>2, <2>1, <2>2, GoesOn DEF After
    <3>2. /\ BoxRecord' /\ box'.state = s /\ box'.lines = box.lines /\ box'.lvm = box.lvm
          /\ box'.cloned /\ box'.temp = box.temp
          /\ box'.mounted = box.mounted /\ box'.snapshot = box.snapshot
      <4> HIDE DEF Live
      <4> QED
        BY <2>2, BoxBecomes DEF BoxRecord
    <3>3. Placed(<<>>)'
      BY <1>5, <1>6, <1>c, <3>2 DEF Placed, Clean
    <3>4. \A r \in Live : Leads(p, box.state, lrun.saved, r) =>
            box'.state \in Live /\ Leads(<<>>, box'.state, lrun'.saved, r)
      BY <1>5, <1>6, <2>1, <2>2, <3>2 DEF Leads
    <3>5. Steadily(p, rest)
      BY <1>5, <1>6, <2>1, <3>1, <3>2, <3>3, <3>4 DEF Steadily
    <3> QED
      BY <3>1, <3>2, <3>5
  <2>3. CASE /\ After(TRUE)
             /\ \E s \in Calls("start", lrun.saved, "stopped") \cup
                    (IF lrun.saved = "frozen" THEN Calls("freeze", "frozen", "running") ELSE {}) :
                  box' = [Becomes(s) EXCEPT !.cloned = TRUE, !.touched = TRUE]
    <3>1. PICK s : box' = [Becomes(s) EXCEPT !.cloned = TRUE, !.touched = TRUE] /\ s = lrun.saved
      <4>1. "start" \notin Unreliable /\ "freeze" \notin Unreliable
        BY <1>u DEF StateCalls
      <4>2. PICK s \in Calls("start", lrun.saved, "stopped") \cup
                    (IF lrun.saved = "frozen" THEN Calls("freeze", "frozen", "running") ELSE {}) :
             box' = [Becomes(s) EXCEPT !.cloned = TRUE, !.touched = TRUE]
        BY <2>3
      <4>3. Calls("start", lrun.saved, "stopped") = {lrun.saved} /\ Calls("freeze", "frozen", "running") = {"frozen"}
        BY <4>1 DEF Calls
      <4>4. s = lrun.saved
        BY <4>2, <4>3
      <4> QED
        BY <4>2, <4>4
    <3> QED
      BY <1>c, <2>1, <2>2, <2>3, <3>1
  <2> QED
    BY <1>7, <1>10, <2>3 DEF Copy
<1> QED
  BY <1>4, <1>8, <1>9, <1>10

(* The finally clause after an error.                                      *)
LEMMA ErrorStep ==
  ASSUME Unreliables = {}, BoxRecord, RunRecord, lrun.phase = "run", lrun.error,
         ~box.lvm => ~box.mounted /\ ~box.snapshot, Raised, LxcStep
  PROVE  /\ BoxRecord' /\ RunRecord' /\ lrun'.op = lrun.op
         /\ ~box'.lvm => ~box'.mounted /\ ~box'.snapshot
         /\ \/ lrun'.phase = "failed" /\ Clean' /\ Restored'
            \/ lrun'.phase = "run" /\ lrun'.error /\ Raised'
<1> DEFINE Goal ==
         /\ BoxRecord' /\ RunRecord' /\ lrun'.op = lrun.op
         /\ ~box'.lvm => ~box'.mounted /\ ~box'.snapshot
         /\ \/ lrun'.phase = "failed" /\ Clean' /\ Restored'
            \/ lrun'.phase = "run" /\ lrun'.error /\ Raised'
<1>1. /\ lrun.todo # <<>> /\ Head(lrun.todo) \in {"unmount", "unsnapshot", "thaw"}
      /\ Head(lrun.todo) # "thaw" =>
           /\ box.lvm
           /\ <<>> \o Tail(lrun.todo) \in {<<"unmount", "unsnapshot", "thaw">>, <<"unsnapshot", "thaw">>, <<"thaw">>}
  <2>0. \A t \in {<<"unsnapshot", "thaw">>, <<"thaw">>} : <<>> \o t = t
    <3>1. {"unmount", "unsnapshot", "thaw"} \subseteq Steps
      BY DEF Steps
    <3>2. <<"unsnapshot", "thaw">> \in Seq(Steps) /\ <<"thaw">> \in Seq(Steps)
      BY <3>1
    <3> QED
      BY <3>2, ConcatEmptySeq
  <2>1. CASE lrun.todo = <<"unmount", "unsnapshot", "thaw">>
    <3>1. lrun.todo # <<>> /\ Head(lrun.todo) = "unmount" /\ Tail(lrun.todo) = <<"unsnapshot", "thaw">>
          /\ lrun.todo # <<"thaw">>
      BY <2>1
    <3> QED
      BY <2>0, <3>1 DEF Raised
  <2>2. CASE lrun.todo = <<"unsnapshot", "thaw">>
    <3>1. lrun.todo # <<>> /\ Head(lrun.todo) = "unsnapshot" /\ Tail(lrun.todo) = <<"thaw">>
          /\ lrun.todo # <<"thaw">>
      BY <2>2
    <3> QED
      BY <2>0, <3>1 DEF Raised
  <2>3. CASE lrun.todo = <<"thaw">>
    BY <2>3
  <2> QED
    BY <2>1, <2>2, <2>3 DEF Raised
<1>2. Unmount \/ Unsnapshot \/ Thaw
  BY <1>1 DEF LxcStep, Does, RunMethod, EnsureStarted, Frozen, Freeze, Stop, Startup, Destroyed,
     Destroy, Command, Config, Archive, Sync, Snapshot, Mount, Tar, Clone, Copy, LxcFinish
<1>3. ASSUME After(FALSE), Head(lrun.todo) # "thaw", BoxRecord', box'.state = box.state, box'.lvm = box.lvm
      PROVE  Goal
  <2>1. /\ RunRecord' /\ lrun'.op = lrun.op /\ lrun'.phase = "run" /\ lrun'.error
        /\ lrun'.saved = lrun.saved /\ lrun'.todo = <<>> \o Tail(lrun.todo)
    BY <1>3, GoesOn DEF After
  <2> QED
    BY <1>1, <1>3, <2>1 DEF Raised, Held
<1>4. CASE Unmount
  <2>1. Head(lrun.todo) # "thaw" /\ box.lvm
    BY <1>1, <1>4 DEF Unmount, Does
  <2>2. CASE Failed /\ UNCHANGED box
    BY <2>1, <2>2, Ends DEF BoxRecord, Clean, Restored
  <2>3. CASE box' = [box EXCEPT !.mounted = FALSE] /\ After(FALSE)
    <3>1. BoxRecord' /\ box'.state = box.state /\ box'.lvm = box.lvm
      BY <2>3 DEF BoxRecord
    <3> QED
      BY <1>3, <2>1, <2>3, <3>1
  <2> QED
    BY <1>4, <2>2, <2>3 DEF Unmount
<1>5. CASE Unsnapshot
  <2>1. Head(lrun.todo) # "thaw" /\ box' = [box EXCEPT !.snapshot = FALSE] /\ After(FALSE)
    BY <1>1, <1>5 DEF Unsnapshot, Does
  <2>2. BoxRecord' /\ box'.state = box.state /\ box'.lvm = box.lvm
    BY <2>1 DEF BoxRecord
  <2> QED
    BY <1>3, <2>1, <2>2
<1>6. CASE Thaw
  <2>1. Failed
    BY <1>6 DEF Thaw
  <2>2. PICK s : /\ box' = [Becomes(s) EXCEPT !.temp = FALSE]
                 /\ s = IF lrun.saved = "running" THEN "running" ELSE box.state
    BY <1>6 DEF Thaw, Restores, Calls, Unreliables, StateCalls
  <2>3. s \in Live \cup {"absent"} /\ s = lrun.saved
    BY <2>2 DEF BoxRecord, Live, Raised, Held
  <2>4. /\ BoxRecord' /\ box'.state = s /\ box'.lvm = box.lvm /\ ~box'.temp
        /\ box'.mounted = box.mounted /\ box'.snapshot = box.snapshot
    <3> HIDE DEF Live
    <3> QED
      BY <2>2, <2>3, BoxBecomes DEF BoxRecord
  <2> QED
    BY <2>1, <2>3, <2>4, Ends DEF Clean, Restored
<1> QED
  BY <1>2, <1>4, <1>5, <1>6

(* An archive or a clone is begun.                                         *)
Enters ==
  \E q \in Inserts :
    /\ lrun'.todo = q \o Tail(lrun.todo) /\ Placed(q)'
    /\ box.state \in Live => box'.state \in Live
    /\ Leads(q, box'.state, lrun'.saved, box.state)
    /\ Clone => q = <<"copy">> \/ Cloned'

(* They begin.                                                             *)
LEMMA ArchiveOrClone ==
  ASSUME Unreliables = {}, BoxRecord, RunRecord, lrun.phase = "run", ~lrun.error, Clean,
         Tail(lrun.todo) \in Seq(Plain), Archive \/ Clone
  PROVE  /\ BoxRecord' /\ RunRecord' /\ lrun'.op = lrun.op
         /\ box'.lvm = box.lvm /\ box'.mounted = box.mounted /\ box'.snapshot = box.snapshot
         /\ box'.lines = box.lines /\ box'.cloned = box.cloned
         /\ lrun'.phase = "run" /\ ~lrun'.error /\ Enters
<1>1. /\ <<>> \in Inserts /\ <<"copy">> \in Inserts /\ <<>> \notin Archives /\ <<"copy">> \notin Archives
      /\ \A p \in Archives : p # <<>> /\ p # <<"copy">> /\ p # <<"startup">> /\ p # <<"freeze">>
                             /\ p # <<"startup", "freeze">> /\ p \in Inserts
      /\ <<"copy">> # <<>> /\ <<>> \notin {<<"startup">>, <<"startup", "freeze">>, <<"freeze">>}
      /\ <<"copy">> \notin {<<"startup">>, <<"startup", "freeze">>, <<"freeze">>}
  <2>1. <<"copy">> \notin {<<"startup">>, <<"startup", "freeze">>, <<"freeze">>}
    BY OtherInserts
  <2>2. <<>> \in Inserts /\ <<"copy">> \in Inserts /\ Archives \subseteq Inserts
    BY DEF Inserts
  <2>3. /\ \A p \in Archives : p # <<>>
        /\ \A p \in {<<"startup">>, <<"startup", "freeze">>, <<"freeze">>, <<"copy">>} : p # <<>> /\ p \notin Archives
    BY ArchiveSteps, OtherInserts
  <2> QED
    BY <2>1, <2>2, <2>3
<1>2. CASE After(FALSE) /\ UNCHANGED box /\ (Clone => Cloned)
  <2>1. /\ RunRecord' /\ lrun'.op = lrun.op /\ lrun'.phase = "run" /\ ~lrun'.error
        /\ lrun'.saved = lrun.saved /\ lrun'.todo = <<>> \o Tail(lrun.todo)
    BY <1>2, GoesOn DEF After
  <2>2. Placed(<<>>)' /\ Leads(<<>>, box'.state, lrun'.saved, box.state) /\ (Clone => Cloned')
    BY <1>1, <1>2, <2>1 DEF Placed, Clean, Leads, Cloned
  <2>3. Enters
    BY <1>1, <1>2, <2>1, <2>2 DEF Enters
  <2> QED
    BY <1>2, <2>1, <2>3 DEF BoxRecord
<1>3. CASE Archive /\ lrun.op.archive
  <2> DEFINE first == IF box.lvm THEN <<"sync", "snapshot", "mount", "tar">> ELSE <<"sync", "tar">>
             q == IF box.lvm THEN <<"sync", "snapshot", "mount", "tar", "unmount", "unsnapshot", "thaw">>
                  ELSE <<"sync", "tar", "thaw">>
  <2>1. first \o Finally = q
    BY WholeArchives DEF Finally
  <2>2. /\ lrun' = [lrun EXCEPT !.todo = (first \o Finally) \o Tail(@), !.saved = box.state]
        /\ \E s \in (IF box.state = "running" THEN Calls("freeze", "frozen", "running") ELSE {box.state}) :
             box' = [Becomes(s) EXCEPT !.temp = TRUE]
    BY <1>3 DEF Archive
  <2>3. /\ RunRecord' /\ lrun'.op = lrun.op /\ lrun'.phase = "run" /\ ~lrun'.error
        /\ lrun'.saved = box.state /\ lrun'.todo = q \o Tail(lrun.todo)
    <3> HIDE DEF first, q
    <3> QED
      BY <2>1, <2>2 DEF RunRecord
  <2>4. PICK s : /\ box' = [Becomes(s) EXCEPT !.temp = TRUE]
                 /\ s = IF box.state = "running" THEN "frozen" ELSE box.state
    <3>1. Calls("freeze", "frozen", "running") = {"frozen"}
      BY DEF Calls, Unreliables, StateCalls
    <3> QED
      BY <2>2, <3>1
  <2>5. s \in Live \cup {"absent"} /\ (box.state \in Live => s \in Live)
    BY <2>4 DEF BoxRecord, Live
  <2>6. /\ BoxRecord' /\ box'.state = s /\ box'.lines = box.lines /\ box'.lvm = box.lvm
        /\ box'.cloned = box.cloned /\ box'.mounted = box.mounted /\ box'.snapshot = box.snapshot
    <3> HIDE DEF Live
    <3> QED
      BY <2>4, <2>5, BoxBecomes DEF BoxRecord
  <2>7. q \in (IF box.lvm THEN LvmArchives ELSE DirectoryArchives) /\ q \in Archives
    BY DEF Archives, LvmArchives, DirectoryArchives
  <2>w. PICK w : w = q
    OBVIOUS
  <2> HIDE DEF q
  <2>8. Placed(w)'
    BY <2>3, <2>4, <2>6, <2>7, <2>w DEF Placed, Held
  <2>9. Leads(w, box'.state, lrun'.saved, box.state)
    BY <1>1, <2>3, <2>4, <2>6, <2>7, <2>w DEF Leads
  <2>10. ~Clone
    BY <1>3 DEF Archive, Clone, Does
  <2>11. Enters
    BY <1>1, <2>3, <2>5, <2>6, <2>7, <2>8, <2>9, <2>10, <2>w DEF Enters
  <2> QED
    BY <2>3, <2>6, <2>11
<1>4. CASE Clone /\ lrun.op.clone /\ ~box.cloned
  <2>1. /\ lrun' = [lrun EXCEPT !.todo = <<"copy">> \o Tail(@), !.saved = box.state,
                                !.changed = @ \/ box.state # "stopped"]
        /\ \E s \in Calls("stop", "stopped", box.state) : box' = Becomes(s)
    BY <1>4 DEF Clone
  <2>2. /\ RunRecord' /\ lrun'.op = lrun.op /\ lrun'.phase = "run" /\ ~lrun'.error
        /\ lrun'.saved = box.state /\ lrun'.todo = <<"copy">> \o Tail(lrun.todo)
    BY <2>1 DEF RunRecord
  <2>3. box' = Becomes("stopped") /\ "stopped" \in Live
    <3>1. Calls("stop", "stopped", box.state) = {"stopped"}
      BY DEF Calls, Unreliables, StateCalls
    <3> QED
      BY <2>1, <3>1 DEF Live
  <2>4. /\ BoxRecord' /\ box'.state = "stopped" /\ box'.lines = box.lines /\ box'.lvm = box.lvm
        /\ box'.cloned = box.cloned /\ box'.mounted = box.mounted /\ box'.snapshot = box.snapshot
        /\ box'.temp = box.temp
    BY <2>3, BoxBecomes DEF BoxRecord
  <2>5. Placed(<<"copy">>)'
    BY <1>1, <2>2, <2>4 DEF Placed, Clean, BoxRecord
  <2>6. Leads(<<"copy">>, box'.state, lrun'.saved, box.state)
    BY <1>1, <2>2 DEF Leads
  <2>7. Enters
    BY <1>1, <2>2, <2>3, <2>4, <2>5, <2>6 DEF Enters
  <2> QED
    BY <2>2, <2>4, <2>7
<1> QED
  <2>1. Archive => ~Clone
    BY DEF Archive, Clone, Does
  <2>2. Archive => (After(FALSE) /\ UNCHANGED box) \/ (Archive /\ lrun.op.archive)
    BY DEF Archive
  <2>3. Clone => (After(FALSE) /\ UNCHANGED box /\ Cloned) \/ (Clone /\ lrun.op.clone /\ ~box.cloned)
    BY DEF Clone, Cloned
  <2> QED
    BY <1>2, <1>3, <1>4, <2>1, <2>2, <2>3

(* Where the steps lead that a step of a method puts before the rest.      *)
LEMMA WhereTheyLead ==
  ASSUME NEW s, NEW v
  PROVE  /\ Leads(<<>>, s, v, s) /\ Leads(<<"startup">>, s, v, "running")
         /\ Leads(<<"startup", "freeze">>, s, v, "frozen") /\ Leads(<<"freeze">>, s, v, "frozen")
         /\ \A q \in {<<>>, <<"startup">>, <<"startup", "freeze">>, <<"freeze">>} :
              q \in Inserts /\ q \notin Archives /\ q # <<"copy">>
<1>1. /\ <<"startup">> # <<>> /\ <<"startup">> # <<"copy">> /\ <<"startup">> # <<"freeze">>
      /\ <<"freeze">> # <<>> /\ <<"freeze">> # <<"copy">> /\ <<"copy">> # <<>>
      /\ <<"startup", "freeze">> \notin {<<>>, <<"startup">>, <<"freeze">>, <<"copy">>}
  BY OtherInserts
<1>2. /\ <<>> \notin Archives
      /\ \A q \in {<<"startup">>, <<"startup", "freeze">>, <<"freeze">>, <<"copy">>} : q \notin Archives
  BY ArchiveSteps, OtherInserts
<1>3. \A q \in {<<>>, <<"startup">>, <<"startup", "freeze">>, <<"freeze">>} : q \in Inserts
  BY DEF Inserts
<1> QED
  BY <1>1, <1>2, <1>3 DEF Leads

(* The step k of a method, and what follows.                               *)
LEMMA RestOfMethod ==
  ASSUME NEW st \in Kept, NEW k \in 1..Len(Method[st])
  PROVE  /\ RestOf(st, k) # <<>> /\ RestOf(st, k) \in Seq(Plain)
         /\ Head(RestOf(st, k)) = Method[st][k] /\ Tail(RestOf(st, k)) = RestOf(st, k + 1)
         /\ RestOf(st, k + 1) \in Seq(Plain) /\ <<>> \o RestOf(st, k + 1) = RestOf(st, k + 1)
         /\ k + 1 \in 1..(Len(Method[st]) + 1)
<1> DEFINE m == Method[st]
<1>1. m \in Seq(Plain) /\ Len(m) \in 5..6
  BY MethodSteps
<1>2. /\ RestOf(st, k) = SubSeq(m, k, Len(m)) /\ RestOf(st, k + 1) = SubSeq(m, k + 1, Len(m))
      /\ k \in 1..Len(m)
  BY DEF RestOf
<1> HIDE DEF m
<1>3. /\ SubSeq(m, k, Len(m)) # <<>> /\ SubSeq(m, k, Len(m)) \in Seq(Plain)
      /\ Head(SubSeq(m, k, Len(m))) = m[k]
      /\ Tail(SubSeq(m, k, Len(m))) = SubSeq(m, k + 1, Len(m))
  BY <1>1, <1>2, RestOfSequence
<1>4. /\ RestOf(st, k) # <<>> /\ RestOf(st, k) \in Seq(Plain)
      /\ Head(RestOf(st, k)) = m[k] /\ Tail(RestOf(st, k)) = RestOf(st, k + 1)
  BY <1>2, <1>3
<1>5. RestOf(st, k + 1) \in Seq(Plain)
  BY <1>4, HeadTailProperties
<1>6. k + 1 \in 1..(Len(m) + 1)
  BY <1>1, <1>2
<1> QED
  BY <1>4, <1>5, <1>6, ConcatEmptySeq DEF m

(* A step of a method that leaves a container.                             *)
LEMMA MethodStep ==
  ASSUME Unreliables = {}, BoxRecord, RunRecord, lrun.phase = "run", ~lrun.error, Clean,
         NEW st \in Kept, lrun.op.state = st, NEW k \in 1..Len(Method[st]), lrun.todo = RestOf(st, k),
         KeptAt(st, <<>>, k, box.state), LxcStep
  PROVE  /\ BoxRecord' /\ RunRecord' /\ lrun'.op = lrun.op
         /\ box'.lvm = box.lvm /\ box'.mounted = box.mounted /\ box'.snapshot = box.snapshot
         /\ \/ lrun'.phase = "failed" /\ ~lrun'.error /\ Clean'
            \/ lrun'.phase = "run" /\ ~lrun'.error /\ Going'
<1> DEFINE Goal ==
         /\ BoxRecord' /\ RunRecord' /\ lrun'.op = lrun.op
         /\ box'.lvm = box.lvm /\ box'.mounted = box.mounted /\ box'.snapshot = box.snapshot
         /\ \/ lrun'.phase = "failed" /\ ~lrun'.error /\ Clean'
            \/ lrun'.phase = "run" /\ ~lrun'.error /\ Going'
           len == Len(Method[st])
           name == Method[st][k]
<1>1. /\ lrun.todo # <<>> /\ Head(lrun.todo) = name /\ Tail(lrun.todo) = RestOf(st, k + 1)
      /\ lrun.todo \in Seq(Plain) /\ RestOf(st, k + 1) \in Seq(Plain)
      /\ <<>> \o Tail(lrun.todo) = RestOf(st, k + 1)
      /\ len \in 5..6 /\ k + 1 \in 1..(len + 1) /\ k + 1 \in Nat
  <2>1. len \in 5..6
    BY MethodSteps
  <2>2. k + 1 \in Nat
    OBVIOUS
  <2> QED
    BY <2>1, <2>2, RestOfMethod
<1>2. /\ name \in {"ensure", "command", "config", "stop", "startup", "frozen", "archive", "clone"}
      /\ name = "ensure" => Wanted[st] = "running"
      /\ name = "command" => k < SetAt[st] \/ Wanted[st] = "running"
      /\ name \in {"stop", "startup", "frozen"} => k <= SetAt[st]
      /\ name = "stop" => k < SetAt[st] \/ Wanted[st] = "stopped"
      /\ name = "startup" => Wanted[st] = "running"
      /\ name = "frozen" => Wanted[st] = "frozen"
      /\ k = ConfigAt[st] <=> name = "config"
      /\ k = len <=> name = "clone"
      /\ k = SetAt[st] => name \in {"ensure", "stop", "startup", "frozen"}
      /\ SetAt[st] \in 1..4 /\ ConfigAt[st] \in 1..4
  BY MethodSteps
<1>3. /\ box.state \in Live /\ (k > SetAt[st] => box.state = Wanted[st])
      /\ k > ConfigAt[st] => Configured
  BY DEF KeptAt
<1>4. st # "absent"
  BY DEF Kept
<1> HIDE DEF len, name
<1>5. ASSUME NEW q \in Inserts, NEW r \in Live, lrun'.op = lrun.op, lrun'.todo = q \o RestOf(st, k + 1),
             Placed(q)', box'.state \in Live, Leads(q, box'.state, lrun'.saved, r),
             k > SetAt[st] => r \in {box.state, Wanted[st]}, k = SetAt[st] => r = Wanted[st],
             name = "config" => Configured', name # "config" => box'.lines = box.lines,
             name = "clone" => q = <<"copy">> \/ Cloned'
      PROVE  Going'
  <2>1. k + 1 > SetAt[st] => r = Wanted[st]
    BY <1>2, <1>3, <1>5
  <2>2. k + 1 > ConfigAt[st] => Configured'
    BY <1>2, <1>3, <1>5 DEF Configured
  <2>3. k + 1 > len => q = <<"copy">> \/ Cloned'
    BY <1>1, <1>2, <1>5
  <2>4. KeptAt(st, q, k + 1, r)'
    BY <1>1, <1>5, <2>1, <2>2, <2>3 DEF KeptAt, len
  <2>5. InMethod(q, RestOf(st, k + 1))'
    BY <1>1, <1>4, <1>5, <2>4 DEF InMethod
  <2> QED
    BY <1>1, <1>5, <2>5 DEF Going
<1>6. ASSUME NEW q \in {<<>>, <<"startup">>, <<"startup", "freeze">>, <<"freeze">>}, NEW c \in BOOLEAN, Then(q, c),
             NEW r \in Live, BoxRecord', box'.state \in Live, Leads(q, box'.state, lrun.saved, r),
             box'.lvm = box.lvm, box'.mounted = box.mounted, box'.snapshot = box.snapshot,
             box'.temp = box.temp,
             k > SetAt[st] => r \in {box.state, Wanted[st]}, k = SetAt[st] => r = Wanted[st],
             name = "config" => lrun.op.config = "none" \/ Contains(box'.lines, lrun.op.config),
             name # "config" => box'.lines = box.lines, name # "clone"
      PROVE  Goal
  <2>1. /\ RunRecord' /\ lrun'.op = lrun.op /\ lrun'.phase = "run" /\ ~lrun'.error
        /\ lrun'.saved = lrun.saved /\ lrun'.todo = q \o RestOf(st, k + 1)
    BY <1>1, <1>6, GoesOn
  <2>2. q \in Inserts /\ Placed(q)'
    BY <1>6, WhereTheyLead DEF Placed, Clean
  <2>3. name = "config" => Configured'
    BY <1>6, <2>1 DEF Configured
  <2>4. Going'
    BY <1>5, <1>6, <2>1, <2>2, <2>3
  <2> QED
    BY <1>6, <2>1, <2>4
<1>7. /\ "running" \in Live /\ "stopped" \in Live /\ "frozen" \in Live
      /\ \A n \in StateCalls : n \notin Unreliable
  BY DEF Live, Unreliables
<1>8. UNCHANGED box => BoxRecord'
  BY DEF BoxRecord
<1>9. ASSUME NEW s \in Live, box' = Becomes(s)
      PROVE  /\ BoxRecord' /\ box'.state = s /\ box'.lines = box.lines /\ box'.lvm = box.lvm
             /\ box'.cloned = box.cloned /\ box'.mounted = box.mounted /\ box'.snapshot = box.snapshot
             /\ box'.temp = box.temp
  BY <1>9, BoxBecomes DEF BoxRecord
<1>10. CASE EnsureStarted
  <2>1. name = "ensure"
    BY <1>1, <1>10 DEF EnsureStarted, Does
  <2>2. CASE box.state = "running" /\ After(FALSE) /\ UNCHANGED box
    BY <1>2, <1>6, <1>7, <1>8, <2>1, <2>2, WhereTheyLead DEF After
  <2>3. CASE box.state = "stopped" /\ Then(<<"startup">>, FALSE) /\ UNCHANGED box
    BY <1>2, <1>3, <1>6, <1>7, <1>8, <2>1, <2>3, WhereTheyLead
  <2>4. ASSUME box.state = "frozen", NEW s \in Calls("unfreeze", "running", "frozen"), box' = Becomes(s),
               After(s = "running")
        PROVE  Goal
    <3>1. s = "running"
      BY <1>7, <2>4 DEF Calls, StateCalls
    <3>2. After(TRUE)
      BY <2>4, <3>1 DEF After, Then
    <3> QED
      BY <1>2, <1>6, <1>7, <1>9, <2>1, <2>4, <3>1, <3>2, WhereTheyLead DEF After
  <2> QED
    BY <1>10, <2>2, <2>3, <2>4 DEF EnsureStarted
<1>11. CASE Command
  <2>1. name = "command" /\ k # SetAt[st] /\ (k > SetAt[st] => Wanted[st] = "running")
    <3>1. name = "command"
      BY <1>1, <1>11 DEF Command, Does
    <3>2. k \in Int /\ SetAt[st] \in Int
      BY <1>2
    <3> QED
      BY <1>2, <3>1, <3>2
  <2>2. CASE UNCHANGED box /\ (After(FALSE) \/ After(TRUE))
    BY <1>3, <1>6, <1>8, <2>1, <2>2, WhereTheyLead DEF After
  <2>3. CASE box.state = "stopped" /\ Then(<<"startup">>, TRUE) /\ UNCHANGED box
    BY <1>2, <1>3, <1>6, <1>7, <1>8, <2>1, <2>3, WhereTheyLead
  <2>4. ASSUME NEW s \in Calls("unfreeze", "running", "frozen"), box' = Becomes(s), After(TRUE)
        PROVE  Goal
    <3>1. s = "running"
      BY <1>7, <2>4 DEF Calls, StateCalls
    <3> QED
      BY <1>2, <1>6, <1>7, <1>9, <2>1, <2>4, <3>1, WhereTheyLead DEF After
  <2> QED
    BY <1>11, <2>2, <2>3, <2>4 DEF Command
<1>12. CASE Config
  <2> DEFINE v == lrun.op.config
             change == v # "none" /\ WithSetting(box.lines, v) # box.lines
  <2>1. name = "config" /\ k # SetAt[st]
    BY <1>1, <1>2, <1>12 DEF Config, Does
  <2>2. v \in Settings \cup {"none"} /\ box.lines \in Seq(Settings)
    BY DEF RunRecord, LxcOptions, BoxRecord
  <2>3. v # "none" => WithSetting(box.lines, v) \in Seq(Settings) /\ Contains(WithSetting(box.lines, v), v)
    BY <2>2, Settled
  <2>4. CASE ~change /\ After(FALSE) /\ UNCHANGED box
    <3>1. v = "none" \/ Contains(box'.lines, v)
      BY <2>3, <2>4
    <3> QED
      BY <1>3, <1>6, <1>8, <2>1, <2>4, <3>1, WhereTheyLead DEF After
  <2>5. ASSUME change, Then(Back[box.state], TRUE), NEW s \in Calls("stop", "stopped", box.state),
               box' = [Becomes(s) EXCEPT !.lines = WithSetting(@, v), !.touched = TRUE]
        PROVE  Goal
    <3>1. s = "stopped"
      BY <1>7, <2>5 DEF Calls, StateCalls
    <3> DEFINE new == WithSetting(box.lines, v)
    <3>2. new \in Seq(Settings) /\ Contains(new, v)
      BY <2>3, <2>5
    <3>3. box' = [Becomes("stopped") EXCEPT !.lines = new, !.touched = TRUE]
      BY <1>7, <2>2, <2>5, <3>1, BoxBecomes
    <3> HIDE DEF new, v
    <3>4. /\ BoxRecord' /\ box'.state = "stopped" /\ box'.lines = new /\ box'.lvm = box.lvm
          /\ box'.mounted = box.mounted /\ box'.snapshot = box.snapshot /\ box'.temp = box.temp
      <4> HIDE DEF Live
      <4> QED
        BY <1>7, <2>2, <3>2, <3>3, BoxBecomes DEF BoxRecord
    <3>5. /\ Back[box.state] \in {<<>>, <<"startup">>, <<"startup", "freeze">>}
          /\ Leads(Back[box.state], "stopped", lrun.saved, box.state)
      BY <1>3, WhereTheyLead DEF Live, Back
    <3>6. lrun.op.config = "none" \/ Contains(box'.lines, lrun.op.config)
      BY <3>2, <3>4 DEF v
    <3> QED
      BY <1>3, <1>6, <1>7, <2>1, <2>5, <3>4, <3>5, <3>6
  <2> QED
    BY <1>12, <2>4, <2>5 DEF Config
<1>13. CASE Stop
  <2>1. name = "stop"
    BY <1>1, <1>13 DEF Stop, Does
  <2>2. (UNCHANGED box /\ box.state = "stopped") \/ box' = Becomes("stopped")
    BY <1>7, <1>13 DEF Stop, Calls, StateCalls
  <2>3. /\ BoxRecord' /\ box'.state = "stopped" /\ box'.lines = box.lines /\ box'.lvm = box.lvm
        /\ box'.mounted = box.mounted /\ box'.snapshot = box.snapshot /\ box'.temp = box.temp
    BY <1>7, <1>8, <1>9, <2>2
  <2>4. PICK c \in BOOLEAN : Then(<<>>, c)
    <3>1. (box.state # "stopped") \in BOOLEAN /\ After(box.state # "stopped")
      BY <1>13 DEF Stop
    <3> QED
      BY <3>1 DEF After
  <2> QED
    BY <1>2, <1>6, <1>7, <2>1, <2>3, <2>4, WhereTheyLead
<1>14. CASE Frozen
  <2>1. name = "frozen"
    BY <1>1, <1>14 DEF Frozen, Does
  <2>2. UNCHANGED box /\ \/ box.state = "frozen" /\ Then(<<>>, FALSE)
                         \/ box.state = "running" /\ Then(<<"freeze">>, TRUE)
                         \/ box.state = "stopped" /\ Then(<<"startup", "freeze">>, TRUE)
    BY <1>14 DEF Frozen, After
  <2> QED
    BY <1>2, <1>3, <1>6, <1>7, <1>8, <2>1, <2>2, WhereTheyLead
<1>15. CASE Startup
  <2>1. name = "startup"
    BY <1>1, <1>15 DEF Startup, Does
  <2>2. CASE Failed /\ UNCHANGED box
    BY <1>8, <2>2, Ends DEF Clean
  <2>3. CASE lrun' = [lrun EXCEPT !.todo = Tail(@), !.tries = 0] /\ UNCHANGED box /\ box.state = "running"
    <3>1. /\ RunRecord' /\ lrun'.op = lrun.op /\ lrun'.phase = "run" /\ ~lrun'.error
          /\ lrun'.saved = lrun.saved /\ lrun'.todo = <<>> \o RestOf(st, k + 1)
      BY <1>1, <2>3 DEF RunRecord
    <3>2. <<>> \in Inserts /\ Placed(<<>>)'
      BY <2>3, WhereTheyLead DEF Placed, Clean
    <3>3. Going'
      BY <1>2, <1>5, <1>7, <2>1, <2>3, <3>1, <3>2, WhereTheyLead
    <3> QED
      BY <1>8, <2>3, <3>1, <3>3
  <2>4. ASSUME lrun' = [lrun EXCEPT !.tries = @ + 1, !.changed = TRUE],
               NEW s \in {"running", box.state}, box' = Becomes(s)
        PROVE  Goal
    <3>1. /\ RunRecord' /\ lrun'.op = lrun.op /\ lrun'.phase = "run" /\ ~lrun'.error
          /\ lrun'.saved = lrun.saved /\ lrun'.todo = <<>> \o RestOf(st, k)
      <4>1. <<>> \o lrun.todo = lrun.todo
        BY <1>1, ConcatEmptySeq
      <4> QED
        BY <2>4, <4>1 DEF RunRecord
    <3>2. s \in Live
      BY <1>3, <1>7, <2>4
    <3>3. <<>> \in Inserts /\ Placed(<<>>)'
      BY <1>9, <2>4, <3>2, WhereTheyLead DEF Placed, Clean
    <3>4. KeptAt(st, <<>>, k, s)'
      <4>1. ~(k > SetAt[st]) /\ ~(k > len) /\ k \in 1..(len + 1)
        BY <1>1, <1>2, <2>1
      <4>2. k > ConfigAt[st] => Configured'
        BY <1>3, <1>9, <2>4, <3>1, <3>2 DEF Configured
      <4> QED
        BY <1>9, <2>4, <3>2, <4>1, <4>2, WhereTheyLead DEF KeptAt, len
    <3>5. InMethod(<<>>, RestOf(st, k))'
      BY <1>4, <3>1, <3>2, <3>4 DEF InMethod
    <3>6. Going'
      BY <1>1, <3>1, <3>3, <3>5 DEF Going
    <3> QED
      BY <1>9, <2>4, <3>1, <3>2, <3>6
  <2> QED
    BY <1>15, <2>2, <2>3, <2>4 DEF Startup, Calls
<1>16. CASE Archive \/ Clone
  <2>1. /\ BoxRecord' /\ RunRecord' /\ lrun'.op = lrun.op
        /\ box'.lvm = box.lvm /\ box'.mounted = box.mounted /\ box'.snapshot = box.snapshot
        /\ box'.lines = box.lines /\ box'.cloned = box.cloned
        /\ lrun'.phase = "run" /\ ~lrun'.error /\ Enters
    BY <1>1, <1>16, ArchiveOrClone
  <2>2. name \in {"archive", "clone"} /\ k # SetAt[st] /\ (name = "clone" => Clone)
    BY <1>1, <1>2, <1>16 DEF Archive, Clone, Does
  <2>3. PICK q \in Inserts :
          /\ lrun'.todo = q \o Tail(lrun.todo) /\ Placed(q)'
          /\ box.state \in Live => box'.state \in Live
          /\ Leads(q, box'.state, lrun'.saved, box.state)
          /\ Clone => q = <<"copy">> \/ Cloned'
    BY <2>1 DEF Enters
  <2>4. Going'
    BY <1>1, <1>3, <1>5, <2>1, <2>2, <2>3
  <2> QED
    BY <2>1, <2>4
<1> QED
  BY <1>1, <1>2, <1>10, <1>11, <1>12, <1>13, <1>14, <1>15, <1>16 DEF LxcStep, Does, RunMethod, Freeze,
     Destroyed, Destroy, Sync, Snapshot, Mount, Tar, Unmount, Unsnapshot, Thaw, Copy, LxcFinish

(* A step of the method that destroys a container.                         *)
LEMMA AbsentStep ==
  ASSUME Unreliables = {}, BoxRecord, RunRecord, lrun.phase = "run", ~lrun.error, Clean,
         lrun.op.state = "absent", NEW todo, lrun.todo = todo, todo # <<>>, AbsentAt(<<>>, todo), LxcStep
  PROVE  /\ BoxRecord' /\ RunRecord' /\ lrun'.op = lrun.op
         /\ box'.lvm = box.lvm /\ box'.mounted = box.mounted /\ box'.snapshot = box.snapshot
         /\ \/ lrun'.phase = "failed" /\ ~lrun'.error /\ Clean'
            \/ lrun'.phase = "run" /\ ~lrun'.error /\ Going'
<1> DEFINE name == Head(todo)
           rest == Tail(todo)
<1>1. /\ todo \in Seq(AbsentSteps) /\ todo # <<>> /\ todo[Len(todo)] = "destroyed"
      /\ name = todo[1] /\ name \in AbsentSteps
      /\ Len(todo) \in Nat \ {0} /\ rest \in Seq(AbsentSteps) /\ Len(rest) = Len(todo) - 1
      /\ \A i \in 1..Len(rest) : rest[i] = todo[i + 1]
  <2>1. todo \in Seq(AbsentSteps) /\ todo # <<>> /\ todo[Len(todo)] = "destroyed"
    BY DEF AbsentAt
  <2> HIDE DEF AbsentSteps
  <2>2. Head(todo) = todo[1]
    OBVIOUS
  <2>3. /\ Head(todo) \in AbsentSteps /\ Tail(todo) \in Seq(AbsentSteps) /\ Len(Tail(todo)) = Len(todo) - 1
        /\ \A i \in 1..Len(Tail(todo)) : Tail(todo)[i] = todo[i + 1]
        /\ Len(todo) \in Nat \ {0}
    BY <2>1, HeadTailProperties, EmptySeq
  <2> QED
    BY <2>1, <2>2, <2>3
<1>2. /\ rest \in Seq(Plain) /\ <<>> \o rest = rest
      /\ \A t \in Seq(AbsentSteps) : t \in Seq(Plain)
  <2>1. AbsentSteps \subseteq Plain
    BY DEF AbsentSteps, Plain
  <2> QED
    BY <1>1, <2>1, SeqMonotonic, ConcatEmptySeq
<1> HIDE DEF name, rest
<1>3. rest # <<>> => rest[Len(rest)] = "destroyed"
  <2>1. ASSUME rest # <<>> PROVE Len(rest) \in 1..Len(rest) /\ Len(rest) + 1 = Len(todo)
    BY <1>1, <2>1, EmptySeq
  <2> QED
    BY <1>1, <2>1
<1>4. name # "destroyed" => rest # <<>>
  <2>1. ASSUME rest = <<>> PROVE Len(todo) = 1
    <3>1. Len(rest) = 0
      BY <2>1
    <3> QED
      BY <1>1, <3>1
  <2> QED
    BY <1>1, <2>1
<1>5. <<>> \in Inserts /\ <<>> \notin Archives /\ <<>> # <<"copy">>
  BY WhereTheyLead
<1>6. ASSUME NEW q \in Inserts, lrun'.op = lrun.op, lrun'.todo = q \o rest, Placed(q)',
             IF rest = <<>> THEN q = <<>> /\ box'.state = "absent" ELSE TRUE
      PROVE  Going'
  <2>1. AbsentAt(q, rest)'
    BY <1>1, <1>3, <1>6 DEF AbsentAt
  <2>2. InMethod(q, rest)'
    BY <1>6, <2>1 DEF InMethod
  <2> QED
    BY <1>2, <1>6, <2>2 DEF Going
<1>7. ASSUME NEW c \in BOOLEAN, After(c), box'.temp = box.temp, box'.lvm = box.lvm,
             rest = <<>> => box'.state = "absent"
      PROVE  RunRecord' /\ lrun'.op = lrun.op /\ lrun'.phase = "run" /\ ~lrun'.error /\ Going'
  <2>1. /\ RunRecord' /\ lrun'.op = lrun.op /\ lrun'.phase = "run" /\ ~lrun'.error
        /\ lrun'.saved = lrun.saved /\ lrun'.todo = <<>> \o rest
    BY <1>7, GoesOn DEF After, rest
  <2>2. Placed(<<>>)'
    BY <1>5, <1>7 DEF Placed, Clean
  <2>3. Going'
    BY <1>5, <1>6, <1>7, <2>1, <2>2
  <2> QED
    BY <2>1, <2>3
<1>8. ASSUME NEW s \in Live \cup {"absent"}, box' = Becomes(s)
      PROVE  /\ BoxRecord' /\ box'.state = s /\ box'.lvm = box.lvm
             /\ box'.mounted = box.mounted /\ box'.snapshot = box.snapshot /\ box'.temp = box.temp
  BY <1>8, BoxBecomes DEF BoxRecord
<1>9. UNCHANGED box => BoxRecord'
  BY DEF BoxRecord
<1>10. CASE Archive \/ Clone
  <2>1. /\ BoxRecord' /\ RunRecord' /\ lrun'.op = lrun.op
        /\ box'.lvm = box.lvm /\ box'.mounted = box.mounted /\ box'.snapshot = box.snapshot
        /\ lrun'.phase = "run" /\ ~lrun'.error /\ Enters
    BY <1>2, <1>10, ArchiveOrClone DEF rest
  <2>2. name \in {"archive", "clone"}
    BY <1>10 DEF Archive, Clone, Does, name
  <2>3. PICK q \in Inserts : lrun'.todo = q \o rest /\ Placed(q)'
    BY <2>1 DEF Enters, rest
  <2>4. Going'
    BY <1>4, <1>6, <2>1, <2>2, <2>3
  <2> QED
    BY <2>1, <2>4
<1>11. CASE Stop
  <2>1. name = "stop"
    BY <1>11 DEF Stop, Does, name
  <2>2. UNCHANGED box \/ box' = Becomes("stopped")
    BY <1>11 DEF Stop, Calls, Unreliables, StateCalls
  <2>3. "stopped" \in Live
    BY DEF Live
  <2>4. PICK c \in BOOLEAN : After(c)
    <3>1. (box.state # "stopped") \in BOOLEAN /\ After(box.state # "stopped")
      BY <1>11 DEF Stop
    <3> QED
      BY <3>1
  <2>5. /\ BoxRecord' /\ box'.lvm = box.lvm
        /\ box'.mounted = box.mounted /\ box'.snapshot = box.snapshot /\ box'.temp = box.temp
    BY <1>8, <1>9, <2>2, <2>3
  <2> QED
    BY <1>4, <1>7, <2>1, <2>4, <2>5
<1>12. CASE Destroy
  <2>1. name = "destroy"
    BY <1>12 DEF Destroy, Does, name
  <2>2. PICK s \in {"absent", box.state} : box' = Becomes(s) /\ After(s = "absent")
    BY <1>12 DEF Destroy, Calls
  <2>3. s \in Live \cup {"absent"}
    BY <2>2 DEF BoxRecord
  <2>4. PICK c \in BOOLEAN : After(c)
    <3>1. (s = "absent") \in BOOLEAN /\ After(s = "absent")
      BY <2>2
    <3> QED
      BY <3>1
  <2>5. /\ BoxRecord' /\ box'.lvm = box.lvm
        /\ box'.mounted = box.mounted /\ box'.snapshot = box.snapshot /\ box'.temp = box.temp
    BY <1>8, <2>2, <2>3
  <2> QED
    BY <1>4, <1>7, <2>1, <2>4, <2>5
<1>13. CASE Destroyed
  <2>1. UNCHANGED box
    BY <1>13 DEF Destroyed
  <2>2. CASE Failed
    BY <1>9, <2>1, <2>2, Ends DEF Clean
  <2>3. CASE ~Exists /\ After(FALSE)
    BY <1>7, <1>9, <2>1, <2>3 DEF Exists
  <2>4. CASE lrun' = [lrun EXCEPT !.todo = <<"archive", "clone", "stop", "destroy">> \o @, !.tries = @ + 1]
    <3> DEFINE turn == <<"archive", "clone", "stop", "destroy">>
               t == turn \o todo
    <3>1. turn \in Seq(AbsentSteps) /\ Len(turn) = 4
      BY DEF AbsentSteps
    <3> HIDE DEF turn
    <3>2. /\ t \in Seq(AbsentSteps) /\ Len(t) = 4 + Len(todo)
          /\ \A i \in 1..(4 + Len(todo)) : t[i] = IF i <= 4 THEN turn[i] ELSE todo[i - 4]
      <4>0. turn \in Seq(AbsentSteps) /\ todo \in Seq(AbsentSteps)
        BY <1>1, <3>1
      <4>1. /\ t \in Seq(AbsentSteps) /\ Len(t) = Len(turn) + Len(todo)
            /\ \A i \in 1..(Len(turn) + Len(todo)) : t[i] = IF i <= Len(turn) THEN turn[i] ELSE todo[i - Len(turn)]
        BY ONLY <4>0, ConcatProperties
      <4> HIDE DEF t
      <4> QED
        BY <3>1, <4>1
    <3>3. t[Len(t)] = "destroyed" /\ t # <<>>
      <4>1. Len(t) \in 1..(4 + Len(todo)) /\ ~(Len(t) <= 4) /\ Len(t) - 4 = Len(todo) /\ Len(t) # 0
        BY <1>1, <3>2
      <4> QED
        BY <1>1, <3>2, <4>1
    <3>4. lrun' = [lrun EXCEPT !.todo = t, !.tries = @ + 1]
      BY <2>4 DEF t, turn
    <3> HIDE DEF t
    <3>5. /\ RunRecord' /\ lrun'.op = lrun.op /\ lrun'.phase = "run" /\ ~lrun'.error
          /\ lrun'.todo = t
      BY <3>4 DEF RunRecord
    <3>6. <<>> \o t = t /\ t \in Seq(Plain)
      BY <1>2, <3>2, ConcatEmptySeq
    <3>7. Placed(<<>>)'
      BY <1>5, <2>1 DEF Placed, Clean
    <3>8. InMethod(<<>>, t)'
      BY <3>2, <3>3, <3>5 DEF InMethod, AbsentAt
    <3>9. Going'
      BY <1>5, <3>5, <3>6, <3>7, <3>8 DEF Going
    <3> QED
      BY <1>9, <2>1, <3>5, <3>9
  <2> QED
    BY <1>13, <2>2, <2>3, <2>4 DEF Destroyed
<1> QED
  <2>1. name \in {"archive", "clone", "stop", "destroy", "destroyed"} /\ Head(lrun.todo) = name /\ lrun.todo # <<>>
    BY <1>1 DEF AbsentSteps, name
  <2> QED
    BY <2>1, <1>10, <1>11, <1>12, <1>13 DEF LxcStep, Does, RunMethod, EnsureStarted, Frozen, Freeze, Startup,
       Command, Config, Sync, Snapshot, Mount, Tar, Unmount, Unsnapshot, Thaw, Copy, LxcFinish

(* The method of a run, once the container is there.                       *)
LEMMA MethodBegins ==
  ASSUME BoxRecord, RunRecord, lrun.phase = "run", ~lrun.error, Clean, lrun.todo = <<"method">>, LxcStep
  PROVE  /\ BoxRecord' /\ RunRecord' /\ lrun'.op = lrun.op
         /\ box'.lvm = box.lvm /\ box'.mounted = box.mounted /\ box'.snapshot = box.snapshot
         /\ \/ lrun'.phase = "failed" /\ ~lrun'.error /\ Clean'
            \/ lrun'.phase = "run" /\ ~lrun'.error /\ Going'
<1>1. RunMethod
  <2>1. lrun.todo # <<>> /\ Head(lrun.todo) = "method"
    OBVIOUS
  <2> QED
    BY <2>1 DEF LxcStep, Does, EnsureStarted, Frozen, Freeze, Stop, Startup, Destroyed, Destroy, Command,
       Config, Archive, Sync, Snapshot, Mount, Tar, Unmount, Unsnapshot, Thaw, Clone, Copy, LxcFinish
<1>2. <<>> \in Inserts /\ <<>> \notin Archives /\ <<>> # <<"copy">>
  BY WhereTheyLead
<1>3. CASE (Exists \/ lrun.op.state = "absent") /\ UNCHANGED box
           /\ lrun' = [lrun EXCEPT !.todo = Method[lrun.op.state], !.tries = 0]
  <2>0. PICK m : m = Method[lrun.op.state]
    OBVIOUS
  <2>1. /\ RunRecord' /\ lrun'.op = lrun.op /\ lrun'.phase = "run" /\ ~lrun'.error
        /\ lrun'.saved = lrun.saved /\ lrun'.todo = m
    <3>1. lrun' = [lrun EXCEPT !.todo = m, !.tries = 0]
      BY <1>3, <2>0
    <3> QED
      BY <3>1 DEF RunRecord
  <2>2. Placed(<<>>)'
    BY <1>2, <1>3 DEF Placed, Clean
  <2>3. m \in Seq(Plain) /\ InMethod(<<>>, m)'
    <3>1. CASE lrun.op.state = "absent"
      <4>1. m = <<"destroyed">>
        BY <2>0, <3>1 DEF Method
      <4>2. /\ m \in Seq(Plain) /\ m \in Seq(AbsentSteps) /\ m # <<>> /\ m[Len(m)] = "destroyed"
        BY <4>1 DEF Plain, AbsentSteps
      <4>3. AbsentAt(<<>>, m)'
        BY <4>2 DEF AbsentAt
      <4> QED
        BY <2>1, <3>1, <4>2, <4>3 DEF InMethod
    <3>2. CASE lrun.op.state # "absent"
      <4>1. lrun.op.state \in Kept
        BY <3>2 DEF RunRecord, LxcOptions, Kept
      <4>2. PICK st : st = lrun.op.state /\ m = Method[st]
        BY <2>0
      <4>3. /\ Method[st] \in Seq(Plain) /\ Len(Method[st]) \in 5..6 /\ SetAt[st] \in 1..4 /\ ConfigAt[st] \in 1..4
        BY <4>1, <4>2, MethodSteps
      <4>4. m = RestOf(st, 1)
        BY <4>2, <4>3, RestOfSequence DEF RestOf
      <4>5. box'.state \in Live /\ box'.state = box.state
        BY <1>3, <3>2 DEF BoxRecord, Exists
      <4>6. KeptAt(st, <<>>, 1, box.state)'
        BY <4>3, <4>5, WhereTheyLead DEF KeptAt
      <4> QED
        BY <2>1, <3>2, <4>2, <4>3, <4>4, <4>5, <4>6 DEF InMethod
    <3> QED
      BY <3>1, <3>2
  <2>4. <<>> \o m = m
    BY <2>3, ConcatEmptySeq
  <2>5. Going'
    BY <1>2, <2>1, <2>2, <2>3, <2>4 DEF Going
  <2> QED
    BY <1>3, <2>1, <2>5 DEF BoxRecord
<1>4. CASE Failed /\ UNCHANGED box
  BY <1>4, Ends DEF BoxRecord, Clean
<1>5. ASSUME lrun' = [lrun EXCEPT !.tries = @ + 1, !.changed = TRUE],
             NEW s \in {"stopped", "absent"}, box' = [Becomes(s) EXCEPT !.lines = <<>>]
      PROVE  /\ BoxRecord' /\ RunRecord' /\ lrun'.op = lrun.op
             /\ box'.lvm = box.lvm /\ box'.mounted = box.mounted /\ box'.snapshot = box.snapshot
             /\ lrun'.phase = "run" /\ ~lrun'.error /\ Going'
  <2>1. RunRecord' /\ lrun'.op = lrun.op /\ lrun'.phase = "run" /\ ~lrun'.error /\ lrun'.todo = <<"method">>
    BY <1>5 DEF RunRecord
  <2>2. s \in Live \cup {"absent"} /\ <<>> \in Seq(Settings)
    BY <1>5 DEF Live
  <2>3. /\ BoxRecord' /\ box'.lvm = box.lvm /\ box'.temp = box.temp
        /\ box'.mounted = box.mounted /\ box'.snapshot = box.snapshot
    <3> HIDE DEF Live
    <3> QED
      BY <1>5, <2>2, BoxBecomes DEF BoxRecord
  <2> QED
    BY <2>1, <2>3 DEF Going, Clean
<1> QED
  BY <1>1, <1>3, <1>4, <1>5 DEF RunMethod, Calls

-----------------------------------------------------------------------------
(* The invariant holds at first.                                           *)
LEMMA StateInitial == LxcInit => StateInv
<1> SUFFICES ASSUME LxcInit PROVE StateInv
  OBVIOUS
<1>1. BoxRecord
  <2>1. \A v \in Settings : <<v>> \in Seq(Settings)
    OBVIOUS
  <2>2. <<>> \in Seq(Settings)
    OBVIOUS
  <2>3. /\ box.lines \in Seq(Settings)
        /\ box \in [state : {"absent", "stopped", "running", "frozen"}, lines : {<<>>} \cup {<<v>> : v \in Settings},
              lvm : BOOLEAN, snapshot : {FALSE}, mounted : {FALSE}, temp : {FALSE}, cloned : {FALSE},
              touched : {FALSE}]
    <3>1. box.lines \in {<<>>} \cup {<<v>> : v \in Settings}
      BY DEF LxcInit, LxcContainers
    <3> QED
      BY <2>1, <2>2, <3>1 DEF LxcInit, LxcContainers
  <2> QED
    BY <2>3 DEF BoxRecord, Live
<1>2. RunRecord
  BY DEF LxcInit, LxcIdle, RunRecord
<1> QED
  BY <1>1, <1>2 DEF LxcInit, LxcIdle, LxcContainers, StateInv, Clean

(* A run begins.                                                           *)
LEMMA StateBegins ==
  ASSUME StateInv, NEW op \in LxcOptions, LxcBegin(op)
  PROVE  StateInv'
<1>1. /\ lrun'.op = op /\ lrun'.phase = "run" /\ lrun'.todo = <<"method">> /\ ~lrun'.error /\ RunRecord'
  <2>1. (lrun.phase = "done" /\ lrun.op = op) \in BOOLEAN
    OBVIOUS
  <2> QED
    BY <2>1 DEF LxcBegin, LxcIdle, RunRecord
<1>2. /\ BoxRecord' /\ box'.state = box.state /\ box'.lvm = box.lvm /\ box'.temp = box.temp
      /\ box'.mounted = box.mounted /\ box'.snapshot = box.snapshot
  <2> HIDE DEF Live
  <2> QED
    BY DEF LxcBegin, BoxRecord, StateInv
<1>3. Clean'
  BY <1>2 DEF LxcBegin, StateInv, Clean
<1> QED
  BY <1>1, <1>2, <1>3 DEF StateInv, Going

(* What was put before the rest of a method is done, or some of it.        *)
LEMMA StaysInMethod ==
  ASSUME lrun'.op = lrun.op, NEW p \in Inserts, p # <<>>, NEW rest \in Seq(Plain),
         InMethod(p, rest), Steadily(p, rest)
  PROVE  Going'
<1>1. PICK q \in Inserts :
        /\ lrun'.todo = q \o rest /\ Placed(q)'
        /\ box'.lines = box.lines /\ (box.cloned => box'.cloned) /\ (p = <<"copy">> => box'.cloned)
        /\ q = <<"copy">> => p = <<"copy">>
        /\ \A r \in Live :
             box.state \in Live /\ Leads(p, box.state, lrun.saved, r) =>
               box'.state \in Live /\ Leads(q, box'.state, lrun'.saved, r)
  BY DEF Steadily
<1>2. CASE lrun.op.state = "absent"
  <2>1. AbsentAt(p, rest) /\ rest # <<>>
    BY <1>2 DEF InMethod, AbsentAt
  <2>2. AbsentAt(q, rest)'
    BY <2>1 DEF AbsentAt
  <2>3. InMethod(q, rest)'
    BY <1>2, <2>2 DEF InMethod
  <2> QED
    BY <1>1, <2>3 DEF Going
<1>3. CASE lrun.op.state # "absent"
  <2>1. PICK k \in Nat, r \in Live : rest = RestOf(lrun.op.state, k) /\ KeptAt(lrun.op.state, p, k, r)
    BY <1>3 DEF InMethod
  <2>2. PICK st : st = lrun.op.state
    OBVIOUS
  <2>3. /\ k \in 1..(Len(Method[st]) + 1) /\ box'.state \in Live
        /\ Leads(q, box'.state, lrun'.saved, r)
        /\ k > SetAt[st] => r = Wanted[st]
    BY <1>1, <2>1, <2>2 DEF KeptAt
  <2>4. k > ConfigAt[st] => Configured'
    BY <1>1, <2>1, <2>2 DEF KeptAt, Configured
  <2>5. k > Len(Method[st]) => Cloned'
    BY <1>1, <2>1, <2>2 DEF KeptAt, Cloned
  <2>6. KeptAt(st, q, k, r)'
    BY <2>3, <2>4, <2>5 DEF KeptAt
  <2>7. rest = RestOf(st, k)
    BY <2>1, <2>2
  <2>8. InMethod(q, rest)'
    BY <1>3, <2>1, <2>2, <2>6, <2>7 DEF InMethod
  <2> QED
    BY <1>1, <2>8 DEF Going
<1> QED
  BY <1>2, <1>3

(* A step of the method itself, or the end of the run.                     *)
LEMMA StateMethod ==
  ASSUME Unreliables = {}, StateInv, lrun.phase = "run", ~lrun.error,
         NEW rest \in Seq(Plain), lrun.todo = rest, Clean, InMethod(<<>>, rest), LxcStep
  PROVE  StateInv'
<1>1. BoxRecord /\ RunRecord /\ (~box.lvm => ~box.mounted /\ ~box.snapshot)
  BY DEF StateInv
<1>2. ASSUME rest = <<>>, Accomplished PROVE StateInv'
  <2>1. lrun' = [lrun EXCEPT !.phase = "done"] /\ UNCHANGED box
    <3>1. lrun.todo = <<>>
      BY <1>2
    <3> QED
      BY <3>1 DEF LxcStep, Does, RunMethod, EnsureStarted, Frozen, Freeze, Stop, Startup, Destroyed, Destroy,
         Command, Config, Archive, Sync, Snapshot, Mount, Tar, Unmount, Unsnapshot, Thaw, Clone, Copy, LxcFinish
  <2>2. RunRecord' /\ lrun'.op = lrun.op /\ lrun'.phase = "done" /\ ~lrun'.error
    BY <1>1, <2>1 DEF RunRecord
  <2>3. BoxRecord' /\ Clean' /\ (~box'.lvm => ~box'.mounted /\ ~box'.snapshot)
    BY <1>1, <2>1 DEF BoxRecord, Clean
  <2>4. Accomplished'
    BY <1>2, <2>1, <2>2 DEF Accomplished, Configured, Cloned
  <2> QED
    BY <2>2, <2>3, <2>4 DEF StateInv
<1>3. ASSUME BoxRecord', RunRecord', box'.lvm = box.lvm, box'.mounted = box.mounted, box'.snapshot = box.snapshot,
             \/ lrun'.phase = "failed" /\ ~lrun'.error /\ Clean'
             \/ lrun'.phase = "run" /\ ~lrun'.error /\ Going'
      PROVE  StateInv'
  BY <1>1, <1>3 DEF StateInv
<1>4. CASE lrun.op.state = "absent"
  <2>1. AbsentAt(<<>>, rest)
    BY <1>4 DEF InMethod
  <2>2. CASE rest = <<>>
    <3>1. Accomplished
      BY <1>4, <2>1, <2>2 DEF AbsentAt, Accomplished, Wanted
    <3> QED
      BY <1>2, <2>2, <3>1
  <2>3. CASE rest # <<>>
    BY <1>1, <1>3, <1>4, <2>1, <2>3, AbsentStep
  <2> QED
    BY <2>2, <2>3
<1>5. CASE lrun.op.state # "absent"
  <2>1. PICK st : st = lrun.op.state
    OBVIOUS
  <2>2. st \in Kept
    BY <1>1, <1>5, <2>1 DEF RunRecord, LxcOptions, Kept
  <2>3. PICK k \in Nat, r \in Live : rest = RestOf(st, k) /\ KeptAt(st, <<>>, k, r)
    BY <1>5, <2>1 DEF InMethod
  <2>4. r = box.state /\ k \in 1..(Len(Method[st]) + 1)
    BY <2>3 DEF KeptAt, Leads
  <2>5. Method[st] \in Seq(Plain) /\ Len(Method[st]) \in 5..6 /\ SetAt[st] \in 1..4 /\ ConfigAt[st] \in 1..4
    BY <2>2, MethodSteps
  <2>6. CASE k \in 1..Len(Method[st])
    BY <1>1, <1>3, <2>1, <2>2, <2>3, <2>4, <2>6, MethodStep
  <2>7. CASE k = Len(Method[st]) + 1
    <3>1. rest = <<>>
      BY <2>3, <2>5, <2>7, RestOfSequence DEF RestOf
    <3>2. k > SetAt[st] /\ k > ConfigAt[st] /\ k > Len(Method[st])
      <4>1. \A n \in 5..6, a \in 1..4 : n + 1 > a /\ n + 1 > n
        OBVIOUS
      <4> QED
        BY <2>5, <2>7, <4>1
    <3>3. <<>> # <<"copy">>
      BY WhereTheyLead
    <3>4. Accomplished
      BY <2>1, <2>3, <2>4, <3>2, <3>3 DEF KeptAt, Accomplished
    <3> QED
      BY <1>2, <3>1, <3>4
  <2> QED
    BY <2>4, <2>5, <2>6, <2>7
<1> QED
  BY <1>4, <1>5

(* Each step keeps the invariant.                                          *)
LEMMA StateInductive ==
  ASSUME Unreliables = {}, StateInv, [LxcNext]_lvars
  PROVE  StateInv'
<1>1. CASE UNCHANGED lvars
  BY <1>1 DEF lvars, StateInv, BoxRecord, RunRecord, Going, Raised, Restored, Clean, Held, Placed, InMethod,
     AbsentAt, KeptAt, Configured, Cloned, Accomplished
<1>2. ASSUME NEW op \in LxcOptions, LxcBegin(op) PROVE StateInv'
  BY <1>2, StateBegins
<1>3. CASE LxcStep
  <2>1. lrun.phase = "run"
    BY <1>3 DEF LxcStep, Does, RunMethod, EnsureStarted, Frozen, Freeze, Stop, Startup, Destroyed, Destroy,
       Command, Config, Archive, Sync, Snapshot, Mount, Tar, Unmount, Unsnapshot, Thaw, Clone, Copy, LxcFinish
  <2>2. BoxRecord /\ RunRecord /\ (~box.lvm => ~box.mounted /\ ~box.snapshot)
    BY DEF StateInv
  <2>3. CASE lrun.error
    <3>1. Raised
      BY <2>1, <2>3 DEF StateInv
    <3> QED
      BY <1>3, <2>1, <2>2, <2>3, <3>1, ErrorStep DEF StateInv
  <2>4. CASE ~lrun.error
    <3>1. Going
      BY <2>1, <2>4 DEF StateInv
    <3>2. CASE lrun.todo = <<"method">> /\ Clean
      BY <1>3, <2>1, <2>2, <2>4, <3>2, MethodBegins DEF StateInv
    <3>3. ASSUME NEW p \in Inserts, NEW rest \in Seq(Plain), lrun.todo = p \o rest, Placed(p), InMethod(p, rest)
          PROVE  StateInv'
      <4>1. CASE p \in Archives
        <5>1. p # <<>>
          BY <4>1, ArchiveSteps
        <5> QED
          BY <1>3, <2>1, <2>2, <2>4, <3>3, <4>1, <5>1, ArchiveStep, StaysInMethod DEF StateInv
      <4>2. CASE p \in {<<"startup">>, <<"startup", "freeze">>, <<"freeze">>, <<"copy">>}
        <5>1. p # <<>>
          BY <4>2, OtherInserts
        <5> QED
          BY <1>3, <2>1, <2>2, <2>4, <3>3, <4>2, <5>1, OtherStep, StaysInMethod DEF StateInv
      <4>3. CASE p = <<>>
        <5>1. p \o rest = rest /\ Clean
          BY <3>3, <4>3, ConcatEmptySeq, WhereTheyLead DEF Placed
        <5> QED
          BY <1>3, <2>1, <2>4, <3>3, <4>3, <5>1, StateMethod
      <4> QED
        BY <3>3, <4>1, <4>2, <4>3 DEF Inserts
    <3> QED
      BY <3>1, <3>2, <3>3 DEF Going
  <2> QED
    BY <2>3, <2>4
<1> QED
  BY <1>1, <1>2, <1>3 DEF LxcNext

(* When it can be started, stopped, frozen and unfrozen, what is known of  *)
(* the container within a run holds in every state.                        *)
THEOREM LxcState == ASSUME StateCalls \cap Unreliable = {} PROVE LxcSpec => []StateInv
<1>1. LxcInit => StateInv
  BY StateInitial
<1>2. StateInv /\ [LxcNext]_lvars => StateInv'
  BY StateInductive DEF Unreliables
<1> QED
  BY <1>1, <1>2, PTL DEF LxcSpec

(* A step of the same run again: nothing is to be done.                    *)
LEMMA AgainStep ==
  ASSUME BoxRecord, RunRecord, lrun.phase = "run", IsAgain, Accomplished, Repeats(lrun.todo), LxcStep
  PROVE  /\ UNCHANGED box /\ lrun'.op = lrun.op /\ lrun'.changed = lrun.changed /\ lrun'.error = lrun.error
         /\ lrun'.phase \in {"run", "done"} => Repeats(lrun'.todo)
<1> DEFINE Goal ==
         /\ UNCHANGED box /\ lrun'.op = lrun.op /\ lrun'.changed = lrun.changed /\ lrun'.error = lrun.error
         /\ lrun'.phase \in {"run", "done"} => Repeats(lrun'.todo)
<1>1. CASE Failed /\ UNCHANGED box
  BY <1>1 DEF Failed, RunRecord
<1>2. ASSUME lrun.todo = <<>> PROVE Goal
  <2>1. lrun' = [lrun EXCEPT !.phase = "done"] /\ UNCHANGED box
    BY <1>2 DEF LxcStep, Does, RunMethod, EnsureStarted, Frozen, Freeze, Stop, Startup, Destroyed, Destroy,
       Command, Config, Archive, Sync, Snapshot, Mount, Tar, Unmount, Unsnapshot, Thaw, Clone, Copy, LxcFinish
  <2> QED
    BY <2>1 DEF RunRecord
<1>3. CASE lrun.todo = <<"method">>
  <2>0. lrun.todo # <<>> /\ Head(lrun.todo) = "method"
    BY <1>3
  <2>1. RunMethod
    BY <2>0 DEF LxcStep, Does, EnsureStarted, Frozen, Freeze, Stop, Startup, Destroyed, Destroy, Command,
       Config, Archive, Sync, Snapshot, Mount, Tar, Unmount, Unsnapshot, Thaw, Clone, Copy, LxcFinish
  <2>2. lrun.op.state \in Kept \cup {"absent"}
    BY DEF RunRecord, LxcOptions, Kept
  <2>3. Exists \/ lrun.op.state = "absent"
    <3>1. lrun.op.state \in Kept => Wanted[lrun.op.state] \in Live
      BY MethodSteps
    <3> QED
      BY <2>2, <3>1 DEF Accomplished, Exists, Live
  <2>4. PICK m : m = Method[lrun.op.state]
    OBVIOUS
  <2>5. lrun' = [lrun EXCEPT !.todo = m, !.tries = 0] /\ UNCHANGED box
    BY <2>1, <2>3, <2>4 DEF RunMethod
  <2>6. /\ lrun'.op = lrun.op /\ lrun'.changed = lrun.changed /\ lrun'.error = lrun.error
        /\ lrun'.todo = m
    BY <2>5 DEF RunRecord
  <2>7. Repeats(m)
    <3>1. CASE lrun.op.state = "absent"
      <4>1. m = <<"destroyed">>
        BY <2>4, <3>1 DEF Method
      <4> QED
        BY <3>1, <4>1 DEF Repeats
    <3>2. CASE lrun.op.state # "absent"
      <4>1. PICK st \in Kept : st = lrun.op.state /\ m = Method[st]
        BY <2>2, <2>4, <3>2
      <4>2. Method[st] \in Seq(Plain) /\ Len(Method[st]) \in 5..6
        BY MethodSteps
      <4>3. m = RestOf(st, 1) /\ 1 \in 1..(Len(Method[st]) + 1)
        BY <4>1, <4>2, RestOfSequence DEF RestOf
      <4> QED
        BY <3>2, <4>1, <4>3 DEF Repeats
    <3> QED
      BY <3>1, <3>2
  <2> QED
    BY <2>5, <2>6, <2>7
<1>4. CASE lrun.op.state = "absent" /\ lrun.todo \in {<<"destroyed">>, <<>>}
  <2>1. CASE lrun.todo = <<"destroyed">>
    <3>0. lrun.todo # <<>> /\ Head(lrun.todo) = "destroyed" /\ Tail(lrun.todo) = <<>>
      BY <2>1
    <3>1. Destroyed
      BY <3>0 DEF LxcStep, Does, RunMethod, EnsureStarted, Frozen, Freeze, Stop, Startup, Destroy, Command,
         Config, Archive, Sync, Snapshot, Mount, Tar, Unmount, Unsnapshot, Thaw, Clone, Copy, LxcFinish
    <3>2. ~Exists
      BY <1>4 DEF Accomplished, Exists, Wanted
    <3>3. UNCHANGED box /\ (Failed \/ Then(<<>>, FALSE))
      BY <3>1, <3>2 DEF Destroyed, After
    <3>4. CASE Then(<<>>, FALSE)
      <4>1. <<>> \o Tail(lrun.todo) = <<>>
        BY <3>0
      <4>2. /\ lrun'.op = lrun.op /\ lrun'.changed = lrun.changed /\ lrun'.error = lrun.error
            /\ lrun'.todo = <<>>
        BY <3>4, <4>1, GoesOn
      <4> QED
        BY <1>4, <3>3, <4>2 DEF Repeats
    <3> QED
      BY <1>1, <3>3, <3>4
  <2> QED
    BY <1>2, <1>4, <2>1
<1>5. ASSUME NEW st \in Kept, lrun.op.state = st, NEW k \in 1..(Len(Method[st]) + 1), lrun.todo = RestOf(st, k)
      PROVE  Goal
  <2>1. Method[st] \in Seq(Plain) /\ Len(Method[st]) \in 5..6
    BY MethodSteps
  <2>2. CASE k = Len(Method[st]) + 1
    BY <1>2, <1>5, <2>1, <2>2, RestOfSequence DEF RestOf
  <2>3. CASE k \in 1..Len(Method[st])
    <3> DEFINE name == Method[st][k]
    <3>1. /\ lrun.todo # <<>> /\ Head(lrun.todo) = name /\ Tail(lrun.todo) = RestOf(st, k + 1)
          /\ k + 1 \in 1..(Len(Method[st]) + 1)
      BY <1>5, <2>3, RestOfMethod
    <3>2. <<>> \o Tail(lrun.todo) = RestOf(st, k + 1)
      BY <2>3, <3>1, RestOfMethod
    <3>3. /\ name \in {"ensure", "command", "config", "stop", "frozen", "archive", "clone"}
          /\ name = "ensure" => Wanted[st] = "running"
          /\ name = "stop" => st = "stopped"
          /\ name = "frozen" => Wanted[st] = "frozen"
      BY <1>5, <2>3, MethodSteps DEF IsAgain
    <3>4. box.state = Wanted[st] /\ Configured /\ Cloned
      <4>1. st # "absent"
        BY DEF Kept
      <4> QED
        BY <1>5, <4>1 DEF Accomplished
    <3>5. CASE Then(<<>>, FALSE) /\ UNCHANGED box
      <4>1. /\ lrun'.op = lrun.op /\ lrun'.changed = lrun.changed /\ lrun'.error = lrun.error
            /\ lrun'.todo = RestOf(st, k + 1)
        BY <3>2, <3>5, GoesOn
      <4>2. Repeats(RestOf(st, k + 1))
        BY <1>5, <3>1 DEF Repeats, Kept
      <4> QED
        BY <3>5, <4>1, <4>2
    <3> HIDE DEF name
    <3>6. CASE name \in {"ensure", "command", "stop", "frozen", "archive", "clone"}
      <4>1. EnsureStarted \/ Command \/ Stop \/ Frozen \/ Archive \/ Clone
        BY <3>1, <3>6 DEF LxcStep, Does, RunMethod, Freeze, Startup, Destroyed, Destroy, Config,
           Sync, Snapshot, Mount, Tar, Unmount, Unsnapshot, Thaw, Copy, LxcFinish
      <4>2. CASE EnsureStarted
        <5>1. box.state = "running"
          BY <3>1, <3>3, <3>4, <4>2 DEF EnsureStarted, Does
        <5> QED
          BY <3>5, <4>2, <5>1 DEF EnsureStarted, After
      <4>3. CASE Command
        BY <3>5, <4>3 DEF Command, After, IsAgain
      <4>4. CASE Stop
        <5>1. box.state = "stopped"
          BY <3>1, <3>3, <3>4, <4>4 DEF Stop, Does, Wanted
        <5>2. UNCHANGED box /\ After(box.state # "stopped")
          BY <4>4, <5>1 DEF Stop
        <5>3. (box.state # "stopped") = FALSE
          BY <5>1
        <5>4. After(FALSE)
          BY <5>2, <5>3
        <5> QED
          BY <3>5, <5>2, <5>4 DEF After
      <4>5. CASE Frozen
        <5>1. box.state = "frozen"
          BY <3>1, <3>3, <3>4, <4>5 DEF Frozen, Does
        <5> QED
          BY <3>5, <4>5, <5>1 DEF Frozen, After
      <4>6. CASE Archive
        BY <3>5, <4>6 DEF Archive, After, IsAgain
      <4>7. CASE Clone
        BY <3>4, <3>5, <4>7 DEF Clone, After, Cloned
      <4> QED
        BY <4>1, <4>2, <4>3, <4>4, <4>5, <4>6, <4>7
    <3>7. CASE name = "config"
      <4>1. Config
        BY <3>1, <3>7 DEF LxcStep, Does, RunMethod, EnsureStarted, Command, Stop, Frozen, Archive, Clone,
           Freeze, Startup, Destroyed, Destroy, Sync, Snapshot, Mount, Tar, Unmount, Unsnapshot, Thaw,
           Copy, LxcFinish
      <4>2. lrun.op.config = "none" \/ WithSetting(box.lines, lrun.op.config) = box.lines
        <5>1. box.lines \in Seq(Settings) /\ lrun.op.config \in Settings \cup {"none"}
          BY DEF BoxRecord, RunRecord, LxcOptions
        <5> QED
          BY <3>4, <5>1, Settled DEF Configured
      <4>3. After(FALSE) /\ UNCHANGED box
        BY <4>1, <4>2 DEF Config
      <4> QED
        BY <3>5, <4>3 DEF After
    <3> QED
      BY <3>3, <3>6, <3>7
  <2> QED
    BY <1>5, <2>1, <2>2, <2>3
<1> QED
  <2>1. CASE lrun.op.state # "absent" /\ ~(lrun.todo = <<"method">>)
    <3>1. PICK st \in Kept : st = lrun.op.state
      BY <2>1 DEF RunRecord, LxcOptions, Kept
    <3> QED
      BY <1>5, <2>1, <3>1 DEF Repeats
  <2> QED
    BY <1>3, <1>4, <2>1 DEF Repeats

(* No step changes what the run is.                                        *)
LEMMA SameRun ==
  ASSUME RunRecord, LxcStep
  PROVE  lrun.phase = "run" /\ lrun'.op = lrun.op /\ lrun'.again = lrun.again
BY DEF LxcStep, Does, RunMethod, EnsureStarted, Frozen, Freeze, Stop, Startup, Destroyed, Destroy, Command,
   Config, Archive, Sync, Snapshot, Mount, Tar, Unmount, Unsnapshot, Thaw, Clone, Copy, LxcFinish, RunRecord,
   After, Then, Failed, Raise

(* Each step keeps what is known of a run that is made again.              *)
LEMMA AgainInductive ==
  ASSUME StateInv, AgainInv, [LxcNext]_lvars
  PROVE  AgainInv'
<1>1. CASE UNCHANGED lvars
  BY <1>1 DEF lvars, AgainInv, IsAgain, Accomplished, Configured, Cloned, Repeats
<1>2. ASSUME NEW op \in LxcOptions, LxcBegin(op) PROVE AgainInv'
  <2>1. /\ lrun'.op = op /\ lrun'.todo = <<"method">> /\ ~lrun'.error /\ ~lrun'.changed
        /\ lrun'.again => lrun.phase = "done" /\ lrun.op = op
    BY <1>2 DEF LxcBegin, LxcIdle
  <2>2. box'.state = box.state /\ box'.lines = box.lines /\ box'.cloned = box.cloned
    BY <1>2 DEF LxcBegin, StateInv, BoxRecord
  <2>3. lrun'.again => Accomplished'
    BY <2>1, <2>2 DEF StateInv, Accomplished, Configured, Cloned
  <2> QED
    BY <2>1, <2>3 DEF AgainInv, IsAgain, Repeats
<1>3. CASE LxcStep
  <2>1. lrun.phase = "run" /\ lrun'.op = lrun.op /\ lrun'.again = lrun.again /\ BoxRecord /\ RunRecord
    BY <1>3, SameRun DEF StateInv
  <2>2. CASE IsAgain
    <3>1. ~lrun.changed /\ ~lrun.error /\ Accomplished /\ Repeats(lrun.todo)
      BY <2>1, <2>2 DEF AgainInv, Repeats
    <3>2. /\ UNCHANGED box /\ lrun'.changed = lrun.changed /\ lrun'.error = lrun.error
          /\ lrun'.phase \in {"run", "done"} => Repeats(lrun'.todo)
      BY <1>3, <2>1, <2>2, <3>1, AgainStep
    <3>3. Accomplished'
      BY <2>1, <3>1, <3>2 DEF Accomplished, Configured, Cloned
    <3> QED
      BY <2>1, <3>1, <3>2, <3>3 DEF AgainInv, Repeats
  <2>3. CASE ~IsAgain
    <3>1. ~IsAgain'
      BY <2>1, <2>3 DEF IsAgain
    <3> QED
      BY <3>1 DEF AgainInv
  <2> QED
    BY <2>2, <2>3
<1> QED
  BY <1>1, <1>2, <1>3 DEF LxcNext

(* A run that is made again after a success reports no change.             *)
THEOREM LxcAgain == ASSUME StateCalls \cap Unreliable = {} PROVE LxcSpec => []AgainChangesNothing
<1>1. LxcInit => AgainInv
  BY DEF LxcInit, LxcIdle, AgainInv, IsAgain
<1>2. StateInv /\ AgainInv /\ [LxcNext]_lvars => AgainInv'
  BY AgainInductive
<1>3. AgainInv => AgainChangesNothing
  BY DEF AgainInv, IsAgain, AgainChangesNothing
<1> QED
  BY <1>1, <1>2, <1>3, LxcState, PTL DEF LxcSpec

(* A run that succeeds leaves the container in the state asked for, although*)
(* it has started, stopped or frozen it on the way.                        *)
THEOREM LxcSuccess == ASSUME StateCalls \cap Unreliable = {} PROVE LxcSpec => []SuccessIsState
<1>1. StateInv => SuccessIsState
  BY DEF StateInv, Accomplished, SuccessIsState
<1> QED
  BY <1>1, LxcState, PTL

(* An archive of a directory that fails leaves the container as it was.    *)
THEOREM LxcArchive == ASSUME StateCalls \cap Unreliable = {} PROVE LxcSpec => []DirectoryArchiveRestores
<1>1. StateInv => DirectoryArchiveRestores
  BY DEF StateInv, Restored, Clean, DirectoryArchiveRestores, ArchiveRestores
<1> QED
  BY <1>1, LxcState, PTL
=============================================================================

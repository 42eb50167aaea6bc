-------------------------- MODULE DeployHelperProofs --------------------------
(* Proofs about DeployHelper.  The link is never missing, whatever runs at *)
(* the same time; and when runs follow each other, what it leads to stays  *)
(* complete, a clean keeps what it is asked to, 'changed' is what a run    *)
(* changed, and check mode writes nothing.                                 *)
EXTENDS DeployHelper, FiniteSetTheorems, TLAPS

USE DeployAssumption

-----------------------------------------------------------------------------
(* The link 'current' is only replaced, or removed with the whole project, *)
(* for any number of runs at the same time, deaths and failures.           *)
THEOREM LinkStays == Spec => CurrentNeverVanishes
<1>1. ASSUME Next, current # None, current' = None PROVE Removing
  <2>1. ASSUME NEW p \in Runs, Step(p) PROVE Removing
    <3>1. CASE CreateLink(p)
      BY <1>1, <3>1 DEF CreateLink
    <3>2. CASE RenameTmp(p)
      BY <1>1, <3>2 DEF RenameTmp, Replace
    <3>3. CASE Absent(p)
      BY <3>3 DEF Absent, Removing
    <3> QED
      BY <1>1, <2>1, <3>1, <3>2, <3>3
         DEF Step, Start, Unmark, CheckLink, UnlinkTmp, SymlinkTmp, ListBuilds,
             RemoveUnfinished, ListReleases, SortReleases, RemoveOld, Present, disk
  <2>2. ASSUME NEW p \in Runs, Killed(p) PROVE FALSE
    BY <1>1, <2>2 DEF Killed, disk
  <2>3. ASSUME NewRelease \/ \E r \in Releases : Mark(r) \/ Build(r) PROVE FALSE
    BY <1>1, <2>3 DEF NewRelease, Mark, Build, Others
  <2> QED
    BY <1>1, <2>1, <2>2, <2>3 DEF Next
<1>2. UNCHANGED vars => ~(current # None /\ current' = None)
  BY DEF vars, disk
<1>3. [Next]_vars => [current # None /\ current' = None => Removing]_vars
  BY <1>1, <1>2
<1> QED
  BY <1>3, PTL DEF Spec, CurrentNeverVanishes

-----------------------------------------------------------------------------
(* Runs that follow each other, and play when no run is active.            *)

Sequential == "parallel" \notin Allowed

(* What a run has established when it is at a step.                        *)
Ready(p) ==
  /\ pc[p] # "idle" => task[p] \in Task
  /\ pc[p] \in Linking \cup {"unmark", "link"} => task[p].state = "finalize"
  /\ pc[p] \in Cleaning => task[p].state \in {"finalize", "clean"}
  /\ pc[p] \in Linking \cup {"link"} /\ ~Dry(p) => task[p].release \notin marked
  /\ pc[p] \in Linking \cup {"old"} => ~Dry(p)
  /\ pc[p] = "rename" => tmp = task[p].release
  /\ pc[p] \in Cleaning /\ ~Dry(p) /\ task[p].state = "finalize" => task[p].release = current
  /\ pc[p] \in {"sort", "old"} => task[p].release \notin todo[p]

Alone == \A p, q \in Runs : pc[p] # "idle" /\ pc[q] # "idle" => p = q

DeployInv == TypeOK /\ Alone /\ \A p \in Runs : Ready(p)

(* At first no run has done anything.                                      *)
LEMMA DeployInitHolds == Init => DeployInv
<1> SUFFICES ASSUME Init PROVE DeployInv
  OBVIOUS
<1> USE DEF Init
<1>1. TypeOK
  BY DEF TypeOK
<1>2. Alone
  BY DEF Alone
<1>3. ASSUME NEW p \in Runs PROVE Ready(p)
  <2>1. pc[p] = "idle"
    OBVIOUS
  <2> QED
    BY <2>1 DEF Ready, Linking, Cleaning
<1> QED
  BY <1>1, <1>2, <1>3 DEF DeployInv

(* Only the run whose turn it is moves.                                    *)
Moves(p) ==
  /\ TypeOK'
  /\ \A q \in Runs : q # p => pc'[q] = pc[q]

(* When a run follows another one, only one of them takes steps.           *)
LEMMA OthersIdle ==
  ASSUME Sequential, DeployInv, NEW p \in Runs, Step(p) \/ Killed(p)
  PROVE  \A q \in Runs : q # p => pc[q] = "idle"
<1>1. CASE pc[p] # "idle"
  BY <1>1 DEF DeployInv, Alone
<1>2. CASE pc[p] = "idle"
  <2>1. \E t \in Task : Start(p, t)
    BY <1>2 DEF Step, Unmark, CheckLink, CreateLink, UnlinkTmp, SymlinkTmp, RenameTmp,
                ListBuilds, RemoveUnfinished, ListReleases, SortReleases, RemoveOld,
                Present, Absent, Killed
  <2> QED
    BY <2>1 DEF Start, Sequential
<1> QED
  BY <1>1, <1>2

(* A step of a run keeps the invariant if that run is ready for its next   *)
(* step.                                                                   *)
LEMMA Preserved ==
  ASSUME Sequential, DeployInv, NEW p \in Runs, Step(p) \/ Killed(p), Moves(p), Ready(p)'
  PROVE  DeployInv'
<1>1. \A q \in Runs : q # p => pc'[q] = "idle"
  BY OthersIdle DEF Moves
<1>2. Alone'
  BY <1>1 DEF Alone
<1>3. ASSUME NEW q \in Runs, q # p PROVE Ready(q)'
  <2>1. pc'[q] = "idle"
    BY <1>1, <1>3
  <2> QED
    BY <2>1 DEF Ready, Linking, Cleaning
<1> QED
  BY <1>2, <1>3 DEF DeployInv, Moves

(* A run that has ended has nothing to be ready for.                       *)
LEMMA Ended ==
  ASSUME TypeOK, NEW p \in Runs, NEW o, End(p, o)
  PROVE  /\ pc' \in [Runs -> {"idle", "unmark", "link", "present", "absent"} \cup Linking \cup Cleaning]
         /\ task' \in [Runs -> Task \cup {None}]
         /\ \A q \in Runs : q # p => pc'[q] = pc[q]
         /\ Ready(p)'
<1>1. pc'[p] = "idle"
  BY DEF End, TypeOK
<1>2. Ready(p)'
  BY <1>1 DEF Ready, Linking, Cleaning
<1> QED
  BY <1>2 DEF End, TypeOK

(* A run that goes on is at its next step, with the same task.             *)
LEMMA GoneTo ==
  ASSUME TypeOK, NEW p \in Runs,
         NEW c \in {"unmark", "link"} \cup Linking \cup Cleaning, Goto(p, c)
  PROVE  /\ pc' \in [Runs -> {"idle", "unmark", "link", "present", "absent"} \cup Linking \cup Cleaning]
         /\ pc'[p] = c
         /\ task' = task
         /\ \A q \in Runs : q # p => pc'[q] = pc[q]
  BY DEF Goto, TypeOK, locals

(* A run starts with what its state asks for first.                        *)
LEMMA StartReady ==
  ASSUME Sequential, DeployInv, NEW p \in Runs, NEW t \in Task, Start(p, t)
  PROVE  Moves(p) /\ Ready(p)'
<1>1. UNCHANGED <<root, dirs, marked, built, current, tmp, born, todo>>
  BY DEF Start, disk, tree
<1>2. CASE t.state = "finalize" /\ t.keep = 0
  BY <1>1, <1>2, Ended DEF Start, Moves, DeployInv, TypeOK
<1>3. CASE ~(t.state = "finalize" /\ t.keep = 0)
  <2>1. /\ task' = [task EXCEPT ![p] = t]
        /\ pc' = [pc EXCEPT ![p] = CASE t.state = "finalize" -> "unmark"
                                     [] t.state = "clean" -> "list"
                                     [] OTHER -> t.state]
    BY <1>3 DEF Start
  <2>2. /\ t.state \in {"present", "finalize", "clean", "absent"}
    BY DEF Task
  <2>3. task'[p] = t /\ pc'[p] \in {"unmark", "list", "present", "absent"}
        /\ (pc'[p] = "unmark" => t.state = "finalize")
        /\ (pc'[p] = "list" => t.state = "clean")
    BY <2>1, <2>2 DEF DeployInv, TypeOK
  <2>4. Ready(p)'
    BY <1>1, <2>2, <2>3 DEF Ready, Linking, Cleaning
  <2>5. Moves(p)
    BY <1>1, <2>1, <2>2 DEF Moves, DeployInv, TypeOK, Cleaning
  <2> QED
    BY <2>4, <2>5
<1> QED
  BY <1>2, <1>3

(* What AfterLink leaves to do: to clean, with the link set, or nothing.   *)
LEMMA AfterLinkReady ==
  ASSUME TypeOK, NEW p \in Runs, AfterLink(p), task[p] \in Task, task[p].state = "finalize",
         ~Dry(p) => current' = task[p].release
  PROVE  /\ pc' \in [Runs -> {"idle", "unmark", "link", "present", "absent"} \cup Linking \cup Cleaning]
         /\ task' \in [Runs -> Task \cup {None}]
         /\ \A q \in Runs : q # p => pc'[q] = pc[q]
         /\ Ready(p)'
<1>1. CASE task[p].clean
  <2>1. pc' \in [Runs -> {"idle", "unmark", "link", "present", "absent"} \cup Linking \cup Cleaning]
        /\ pc'[p] = "list" /\ task' = task /\ \A q \in Runs : q # p => pc'[q] = pc[q]
    BY <1>1, GoneTo DEF AfterLink, Cleaning
  <2>2. Dry(p)' = Dry(p)
    BY <2>1 DEF Dry
  <2> QED
    BY <2>1, <2>2 DEF Ready, Linking, Cleaning, TypeOK
<1>2. CASE ~task[p].clean
  BY <1>2, Ended DEF AfterLink
<1> QED
  BY <1>1, <1>2

(* Through create_link the release stays unmarked, and the temporary link  *)
(* leads to it when it is renamed.                                         *)
LEMMA LinkReady ==
  ASSUME Sequential, DeployInv, NEW p \in Runs,
         Unmark(p) \/ CheckLink(p) \/ CreateLink(p) \/ UnlinkTmp(p) \/ SymlinkTmp(p) \/ RenameTmp(p)
  PROVE  Moves(p) /\ Ready(p)'
<1> USE DEF DeployInv
<1>0. TypeOK /\ Ready(p) /\ UNCHANGED <<root, born, dirs, built, todo>> /\ marked' \subseteq marked
  BY DEF Unmark, CheckLink, CreateLink, UnlinkTmp, SymlinkTmp, RenameTmp, disk, tree
<1>1. CASE Unmark(p)
  <2>1. pc[p] = "unmark" /\ Goto(p, "link")
    BY <1>1 DEF Unmark
  <2>2. task' = task /\ pc'[p] = "link" /\ Moves(p)
    BY <1>0, <2>1, GoneTo DEF Moves, TypeOK
  <2>3. ~Dry(p) => task[p].release \notin marked'
    BY <1>1 DEF Unmark, tree
  <2> QED
    BY <1>0, <2>1, <2>2, <2>3 DEF Ready, Linking, Cleaning, Dry
<1>2. CASE CheckLink(p)
  <2>1. pc[p] = "link" /\ task[p] \in Task /\ task[p].state = "finalize" /\ UNCHANGED <<current, marked>>
    BY <1>0, <1>2 DEF CheckLink, Ready, disk, tree
  <2>2. CASE AfterLink(p) /\ (~Dry(p) => current = task[p].release)
    BY <1>0, <2>1, <2>2, AfterLinkReady DEF Moves, TypeOK
  <2>3. CASE End(p, "failed")
    BY <1>0, <2>3, Ended DEF Moves, TypeOK
  <2>4. ASSUME NEW c \in {"create", "unlink"}, Goto(p, c), ~Dry(p)
        PROVE  Moves(p) /\ Ready(p)'
    <3>1. task' = task /\ pc'[p] = c /\ Moves(p)
      BY <1>0, <2>4, GoneTo DEF Moves, TypeOK, Linking
    <3> QED
      BY <1>0, <2>1, <2>4, <3>1 DEF Ready, Linking, Cleaning, Dry
  <2> QED
    BY <1>2, <2>2, <2>3, <2>4 DEF CheckLink
<1>3. CASE CreateLink(p)
  <2>1. pc[p] = "create" /\ task[p] \in Task /\ task[p].state = "finalize"
    BY <1>0, <1>3 DEF CreateLink, Ready, Linking
  <2>2. CASE current' = task[p].release /\ AfterLink(p)
    BY <1>0, <2>1, <2>2, AfterLinkReady DEF Moves, TypeOK
  <2>3. CASE End(p, "failed")
    BY <1>0, <2>3, Ended DEF Moves, TypeOK
  <2> QED
    BY <1>3, <2>2, <2>3 DEF CreateLink
<1>4. CASE UnlinkTmp(p)
  <2>1. pc[p] = "unlink" /\ Goto(p, "symlink") /\ UNCHANGED <<current, marked>>
    BY <1>4 DEF UnlinkTmp, tree
  <2>2. task' = task /\ pc'[p] = "symlink" /\ Moves(p)
    BY <1>0, <2>1, GoneTo DEF Moves, TypeOK, Linking
  <2> QED
    BY <1>0, <2>1, <2>2 DEF Ready, Linking, Cleaning, Dry
<1>5. CASE SymlinkTmp(p)
  <2>1. pc[p] = "symlink" /\ UNCHANGED <<current, marked>>
    BY <1>5 DEF SymlinkTmp, tree
  <2>2. CASE tmp' = task[p].release /\ Goto(p, "rename")
    <3>1. task' = task /\ pc'[p] = "rename" /\ Moves(p)
      BY <1>0, <2>2, GoneTo DEF Moves, TypeOK, Linking
    <3> QED
      BY <1>0, <2>1, <2>2, <3>1 DEF Ready, Linking, Cleaning, Dry
  <2>3. CASE End(p, "failed")
    BY <1>0, <2>3, Ended DEF Moves, TypeOK
  <2> QED
    BY <1>5, <2>2, <2>3 DEF SymlinkTmp
<1>6. CASE RenameTmp(p)
  <2>1. pc[p] = "rename" /\ task[p] \in Task /\ task[p].state = "finalize" /\ tmp = task[p].release
    BY <1>0, <1>6 DEF RenameTmp, Ready, Linking
  <2>2. CASE Replace /\ AfterLink(p)
    BY <1>0, <2>1, <2>2, AfterLinkReady DEF Moves, TypeOK, Replace
  <2>3. CASE End(p, "failed")
    BY <1>0, <2>3, Ended DEF Moves, TypeOK
  <2> QED
    BY <1>6, <2>2, <2>3 DEF RenameTmp
<1> QED
  BY <1>1, <1>2, <1>3, <1>4, <1>5, <1>6

(* Deleting a directory.                                                   *)
LEMMA DeleteTyped ==
  ASSUME TypeOK, NEW p \in Runs, NEW r, Delete(p, r), UNCHANGED <<root, born>>
  PROVE  /\ Moves(p)
         /\ built \ {r} \subseteq built'
         /\ marked' \subseteq marked
         /\ (pc' = pc /\ task' = task /\ todo' = [todo EXCEPT ![p] = @ \ {r}]) \/ Ready(p)'
<1>1. (Passed(p, r) \/ Break(p, "failed")) => todo' \in [Runs -> SUBSET Nat]
  BY DEF Passed, Break, TypeOK
<1>2. CASE r \in dirs /\ RemoveTree(r) /\ Passed(p, r)
  BY <1>1, <1>2 DEF Passed, RemoveTree, locals, Moves, TypeOK
<1>3. CASE r \in dirs /\ RemovePart(r) /\ Break(p, "failed")
  BY <1>1, <1>3, Ended DEF Break, RemovePart, Moves, TypeOK
<1>4. CASE Passed(p, r) /\ UNCHANGED tree
  BY <1>1, <1>4 DEF Passed, tree, locals, Moves, TypeOK
<1> QED
  BY <1>2, <1>3, <1>4 DEF Delete

(* Through a clean the current release is never on the list of those to    *)
(* remove.                                                                 *)
LEMMA CleanReady ==
  ASSUME Sequential, DeployInv, NEW p \in Runs,
         ListBuilds(p) \/ RemoveUnfinished(p) \/ ListReleases(p) \/ SortReleases(p) \/ RemoveOld(p)
  PROVE  Moves(p) /\ Ready(p)'
<1> USE DEF DeployInv
<1>0. TypeOK /\ Ready(p) /\ UNCHANGED <<root, born, current, tmp>>
  BY DEF ListBuilds, RemoveUnfinished, ListReleases, SortReleases, RemoveOld, disk
<1>1. CASE ListBuilds(p)
  <2>1. pc[p] = "list" /\ UNCHANGED <<dirs, built, marked>>
    BY <1>1 DEF ListBuilds, disk, tree
  <2>2. CASE todo' = [todo EXCEPT ![p] = dirs] /\ Goto(p, "unfinished")
    <3>1. task' = task /\ pc'[p] = "unfinished" /\ Moves(p)
      BY <1>0, <2>1, <2>2, GoneTo DEF Moves, TypeOK, Cleaning
    <3> QED
      BY <1>0, <2>1, <3>1 DEF Ready, Linking, Cleaning, Dry
  <2>3. CASE UNCHANGED todo /\ End(p, "failed")
    BY <1>0, <2>1, <2>3, Ended DEF Moves, TypeOK
  <2> QED
    BY <1>1, <2>2, <2>3 DEF ListBuilds
<1>2. CASE RemoveUnfinished(p)
  <2>1. pc[p] = "unfinished"
    BY <1>2 DEF RemoveUnfinished
  <2>2. ASSUME NEW r \in todo[p], Delete(p, r) PROVE Moves(p) /\ Ready(p)'
    <3>1. CASE pc' = pc /\ task' = task /\ todo' = [todo EXCEPT ![p] = @ \ {r}]
      BY <1>0, <2>1, <2>2, <3>1, DeleteTyped DEF Ready, Linking, Cleaning, Dry
    <3> QED
      BY <1>0, <2>2, <3>1, DeleteTyped
  <2>3. ASSUME NEW r \in todo[p], Passed(p, r), UNCHANGED tree
        PROVE  Moves(p) /\ Ready(p)'
    BY <1>0, <2>1, <2>3 DEF Passed, tree, locals, Moves, TypeOK, Ready, Linking, Cleaning, Dry
  <2> QED
    BY <1>2, <2>2, <2>3 DEF RemoveUnfinished
<1>3. CASE ListReleases(p)
  <2>1. pc[p] = "unfinished" /\ UNCHANGED <<dirs, built, marked>>
    BY <1>3 DEF ListReleases, disk, tree
  <2>2. CASE todo' = [todo EXCEPT ![p] = Candidates(p)] /\ Goto(p, "sort")
    <3>0. todo' \in [Runs -> SUBSET Nat]
      <4>1. Candidates(p) \in SUBSET Nat
        <5>1. \A r \in dirs : r \in Nat
          BY <1>0 DEF TypeOK
        <5> QED
          BY <5>1 DEF Candidates
      <4> QED
        BY <1>0, <2>2, <4>1 DEF TypeOK
    <3>1. task' = task /\ pc'[p] = "sort" /\ Moves(p)
      BY <1>0, <2>1, <2>2, <3>0, GoneTo DEF Moves, TypeOK, Cleaning
    <3>2. task[p].release \notin todo'[p]
      BY <1>0, <2>2 DEF TypeOK, Candidates
    <3> QED
      BY <1>0, <2>1, <3>1, <3>2 DEF Ready, Linking, Cleaning, Dry
  <2>3. CASE UNCHANGED todo /\ End(p, "ok")
    BY <1>0, <2>1, <2>3, Ended DEF Moves, TypeOK
  <2> QED
    BY <1>3, <2>2, <2>3 DEF ListReleases
<1>4. CASE SortReleases(p)
  <2>1. pc[p] = "sort" /\ UNCHANGED <<dirs, built, marked>>
    BY <1>4 DEF SortReleases, disk, tree
  <2>2. CASE ~Dry(p) /\ todo' = [todo EXCEPT ![p] = Old(todo[p], task[p].keep)] /\ Goto(p, "old")
    <3>1. todo'[p] \subseteq todo[p] /\ todo' \in [Runs -> SUBSET Nat]
      BY <1>0, <2>2 DEF TypeOK, Old
    <3>2. task' = task /\ pc'[p] = "old" /\ Moves(p)
      BY <1>0, <2>1, <2>2, <3>1, GoneTo DEF Moves, TypeOK, Cleaning
    <3> QED
      BY <1>0, <2>1, <2>2, <3>1, <3>2 DEF Ready, Linking, Cleaning, Dry
  <2>3. CASE \E o \in {"ok", "failed"} : Break(p, o)
    BY <1>0, <2>1, <2>3, Ended DEF Break, Moves, TypeOK
  <2> QED
    BY <1>4, <2>2, <2>3 DEF SortReleases
<1>5. CASE RemoveOld(p)
  <2>1. pc[p] = "old"
    BY <1>5 DEF RemoveOld
  <2>2. CASE End(p, "ok") /\ UNCHANGED <<tree, todo, changed>>
    BY <1>0, <2>2, Ended DEF tree, Moves, TypeOK
  <2>3. ASSUME NEW r \in todo[p], Delete(p, r) PROVE Moves(p) /\ Ready(p)'
    <3>1. CASE pc' = pc /\ task' = task /\ todo' = [todo EXCEPT ![p] = @ \ {r}]
      <4>1. task[p].release \notin todo'[p]
        BY <1>0, <2>1, <2>3, <3>1 DEF Ready, TypeOK
      <4> QED
        BY <1>0, <2>1, <2>3, <3>1, <4>1, DeleteTyped DEF Ready, Linking, Cleaning, Dry
    <3> QED
      BY <1>0, <2>3, <3>1, DeleteTyped
  <2> QED
    BY <1>5, <2>2, <2>3 DEF RemoveOld
<1> QED
  BY <1>1, <1>2, <1>3, <1>4, <1>5

(* The steps that end a run, or a kill, leave nothing to be ready for.     *)
LEMMA OtherReady ==
  ASSUME Sequential, DeployInv, NEW p \in Runs, Present(p) \/ Absent(p) \/ Killed(p)
  PROVE  Moves(p) /\ Ready(p)'
<1> USE DEF DeployInv
<1>1. PICK o \in {"ok", "failed", "killed"} : End(p, o)
  BY DEF Present, Absent, Killed, Break
<1>2. todo' \in [Runs -> SUBSET Nat] /\ UNCHANGED born /\ dirs' \subseteq dirs /\ marked' \subseteq dirs' /\ built' \subseteq dirs'
  BY DEF Present, Absent, Killed, Break, disk, tree, TypeOK
<1>3. root' \in BOOLEAN
  BY DEF Present, Absent, Killed, disk, tree, TypeOK
<1> QED
  BY <1>1, <1>2, <1>3, Ended DEF Moves, TypeOK

(* The tasks of a play work when no run does.                              *)
LEMMA PlayReady ==
  ASSUME Sequential, DeployInv, NewRelease \/ \E r \in Releases : Mark(r) \/ Build(r)
  PROVE  DeployInv'
<1> USE DEF DeployInv
<1>1. \A p \in Runs : pc[p] = "idle"
  BY DEF NewRelease, Mark, Build, Others, Sequential
<1>2. UNCHANGED <<root, pc, task, todo>>
  BY DEF NewRelease, Mark, Build, Others, locals
<1>3. TypeOK'
  <2>1. CASE NewRelease
    <3>1. born' = born + 1 /\ dirs' = dirs \cup {born'} /\ built' = built
          /\ marked' \subseteq marked \cup {born'}
      BY <2>1 DEF NewRelease
    <3> QED
      BY <1>2, <3>1 DEF TypeOK
  <2>2. ASSUME NEW r \in Releases, Mark(r) \/ Build(r)
        PROVE  TypeOK'
    BY <1>2, <2>2 DEF Mark, Build, TypeOK
  <2> QED
    BY <2>1, <2>2
<1>4. Alone' /\ \A p \in Runs : Ready(p)'
  BY <1>1, <1>2 DEF Alone, Ready, Linking, Cleaning
<1> QED
  BY <1>3, <1>4

(* Every step keeps the invariant.                                         *)
LEMMA NextKeeps == Sequential /\ DeployInv /\ [Next]_vars => DeployInv'
<1> SUFFICES ASSUME Sequential, DeployInv, [Next]_vars PROVE DeployInv'
  OBVIOUS
<1>1. ASSUME NEW p \in Runs, Step(p) \/ Killed(p) PROVE DeployInv'
  <2>1. Moves(p) /\ Ready(p)'
    BY <1>1, StartReady, LinkReady, CleanReady, OtherReady DEF Step
  <2> QED
    BY <1>1, <2>1, Preserved
<1>2. CASE UNCHANGED vars
  BY <1>2 DEF vars, disk, tree, locals, DeployInv, TypeOK, Alone, Ready, Linking,
              Cleaning, Dry
<1> QED
  BY <1>1, <1>2, PlayReady DEF Next

(* The inductive invariant: one run at a time, whose release is the link's *)
(* target by the time it cleans.                                           *)
THEOREM RunsAreReady == ASSUME Sequential PROVE Spec => []DeployInv
<1>1. DeployInv /\ [Next]_vars => DeployInv'
  BY NextKeeps
<1> QED
  BY <1>1, DeployInitHolds, PTL DEF Spec

(* What a step of a run does to a complete release that is served.         *)
LEMMA StepServes ==
  ASSUME Sequential, DeployInv, NEW p \in Runs, Step(p) \/ Killed(p), pc[p] # "idle" => WellTold(p)
  PROVE  /\ ~Removing /\ current \in Complete => current' \in Complete'
         /\ current' \notin {current, None} => current' \in Complete'
<1> USE DEF DeployInv, Complete
<1>0. TypeOK /\ Ready(p)
  OBVIOUS
<1>1. CASE Unmark(p)
  BY <1>1 DEF Unmark, tree
<1>2. CASE CreateLink(p)
  BY <1>0, <1>2 DEF CreateLink, tree, Ready, Linking, WellTold
<1>3. CASE RenameTmp(p)
  BY <1>0, <1>3 DEF RenameTmp, Replace, tree, Ready, Linking, WellTold
<1>4. CASE RemoveUnfinished(p)
  <2>1. current' = current
    BY <1>4 DEF RemoveUnfinished
  <2>2. ASSUME NEW r \in todo[p], r \in marked, Delete(p, r), current \in Complete
        PROVE  current \in Complete'
    BY <2>2 DEF Delete, RemoveTree, RemovePart, tree
  <2> QED
    BY <1>4, <2>1, <2>2 DEF RemoveUnfinished, Unfinished, tree
<1>5. CASE RemoveOld(p)
  <2>1. current' = current /\ task[p].release = current /\ current \notin todo[p]
    BY <1>0, <1>5 DEF RemoveOld, Ready, Linking, Cleaning, WellTold
  <2>2. ASSUME NEW r \in todo[p], Delete(p, r), current \in Complete
        PROVE  current \in Complete'
    BY <2>1, <2>2 DEF Delete, RemoveTree, RemovePart, tree
  <2> QED
    BY <1>5, <2>1, <2>2 DEF RemoveOld, tree
<1>6. CASE Absent(p)
  BY <1>6 DEF Absent, Removing, disk, tree
<1>7. CASE \/ CheckLink(p) \/ UnlinkTmp(p) \/ SymlinkTmp(p) \/ ListBuilds(p) \/ ListReleases(p)
           \/ SortReleases(p) \/ Present(p) \/ Killed(p) \/ \E t \in Task : Start(p, t)
  BY <1>7 DEF CheckLink, UnlinkTmp, SymlinkTmp, ListBuilds, ListReleases, SortReleases,
              Present, Killed, Start, disk, tree
<1> QED
  BY <1>1, <1>2, <1>3, <1>4, <1>5, <1>6, <1>7 DEF Step

(* The link is only set to a complete release, and that stays complete     *)
(* while it is served, for any number of releases and values of            *)
(* keep_releases, though runs are killed and removals fail half way: of    *)
(* runs that follow each other, in their steps that are well told.         *)
THEOREM ServedStays == ASSUME Sequential PROVE Spec => ServedUntilRemoved
<1> DEFINE Serves ==
      (\A p \in Runs : pc[p] # "idle" => WellTold(p)) =>
        /\ ~Removing /\ current \in Complete => current' \in Complete'
        /\ current' \notin {current, None} => current' \in Complete'
<1>1. DeployInv /\ [Next]_vars => [Serves]_vars
  <2> SUFFICES ASSUME DeployInv, Next PROVE Serves
    OBVIOUS
  <2>1. ASSUME NewRelease \/ \E r \in Releases : Mark(r) \/ Build(r) PROVE Serves
    <3>1. current' = current
      BY <2>1 DEF NewRelease, Mark, Build, Others
    <3>2. CASE NewRelease
      <4>1. built' = built /\ marked' \subseteq marked \cup {born + 1}
        BY <3>2 DEF NewRelease
      <4>2. born + 1 \notin built
        BY DEF DeployInv, TypeOK
      <4> QED
        BY <3>1, <4>1, <4>2 DEF Complete
    <3>3. ASSUME NEW r \in Releases, Mark(r) \/ Build(r) PROVE Complete \subseteq Complete'
      BY <3>3 DEF Mark, Build, Complete
    <3> QED
      BY <2>1, <3>1, <3>2, <3>3
  <2> QED
    BY <2>1, StepServes DEF Next
<1> QED
  BY <1>1, RunsAreReady, PTL DEF Spec, ServedUntilRemoved

(* A run in check mode leaves the releases and the link alone.             *)
THEOREM CheckModeSafe == ASSUME Sequential PROVE Spec => CheckModeIsReadOnly
<1> DEFINE Checked == \E p \in Runs : pc[p] # "idle" /\ task[p].check
<1>1. DeployInv /\ [Next]_vars => [Checked => UNCHANGED disk]_vars
  <2> SUFFICES ASSUME DeployInv, Next, NEW p \in Runs, pc[p] # "idle", task[p].check
               PROVE  UNCHANGED disk
    OBVIOUS
  <2>1. Ready(p) /\ Dry(p) /\ root \in BOOLEAN
    BY DEF DeployInv, TypeOK, Dry
  <2>2. PICK q \in Runs : Step(q) \/ Killed(q)
    BY DEF Next, NewRelease, Mark, Build, Others, Sequential
  <2>3. q = p
    BY <2>2, OthersIdle
  <2>4. CASE Unmark(p)
    BY <2>1, <2>4 DEF Unmark, disk
  <2>5. CASE RemoveUnfinished(p)
    BY <2>1, <2>5 DEF RemoveUnfinished, disk
  <2>6. CASE Present(p)
    BY <2>1, <2>6 DEF Present, disk
  <2>7. CASE Absent(p)
    BY <2>1, <2>7 DEF Absent
  <2>8. pc[p] \notin Linking \cup {"old"} /\ ~\E t \in Task : Start(p, t)
    BY <2>1 DEF Ready, Start
  <2>9. CASE CheckLink(p) \/ ListBuilds(p) \/ ListReleases(p) \/ SortReleases(p) \/ Killed(p)
    BY <2>9 DEF CheckLink, ListBuilds, ListReleases, SortReleases, Killed
  <2> QED
    BY <2>2, <2>3, <2>4, <2>5, <2>6, <2>7, <2>8, <2>9
       DEF Step, CreateLink, UnlinkTmp, SymlinkTmp, RenameTmp, RemoveOld, Linking
<1> QED
  BY <1>1, RunsAreReady, PTL DEF Spec, CheckModeIsReadOnly

-----------------------------------------------------------------------------
(* Which releases a clean keeps.                                           *)

(* A strict order of some directories.                                     *)
Orders(rel, of) ==
  /\ \A r \in of : <<r, r>> \notin rel
  /\ \A r, s, t \in of : <<r, s>> \in rel /\ <<s, t>> \in rel => <<r, t>> \in rel
  /\ \A r, s \in of : r = s \/ <<r, s>> \in rel \/ <<s, r>> \in rel

(* It has a least element.                                                 *)
LEMMA Least ==
  ASSUME NEW of, IsFiniteSet(of), NEW rel, Orders(rel, of), NEW some \in SUBSET of, some # {}
  PROVE  \E x \in some : \A y \in some : y = x \/ <<x, y>> \in rel
<1> DEFINE Before(r) == {s \in of : <<s, r>> \in rel}
           sets == {Before(r) : r \in some}
<1>1. \A r : Before(r) \in FiniteSubsetsOf(of)
  BY FS_Subset DEF FiniteSubsetsOf
<1>2. IsWellFoundedOn(StrictSubsetOrdering(of), FiniteSubsetsOf(of))
  BY FS_StrictSubsetOrderingWellFounded
<1>3. sets \subseteq FiniteSubsetsOf(of) /\ sets # {}
  <2>1. sets \subseteq FiniteSubsetsOf(of)
    BY <1>1
  <2>2. PICK r \in some : Before(r) \in sets
    OBVIOUS
  <2> QED
    BY <2>1, <2>2
<1> HIDE DEF sets
<1>4. PICK b \in sets : \A c \in sets : <<c, b>> \notin StrictSubsetOrdering(of)
  BY <1>2, <1>3, WFMin
<1>5. PICK x \in some : b = Before(x)
  BY <1>4 DEF sets
<1>6. ASSUME NEW y \in some, <<y, x>> \in rel PROVE FALSE
  <2>1. x \in of /\ y \in of
    OBVIOUS
  <2>2. Before(y) \subseteq Before(x) /\ y \in Before(x) /\ y \notin Before(y)
    BY <1>6, <2>1 DEF Orders
  <2>3. Before(y) \in sets /\ <<Before(y), Before(x)>> \notin StrictSubsetOrdering(of)
    BY <1>4, <1>5 DEF sets
  <2>4. Before(y) \in SUBSET of /\ Before(x) \in SUBSET of
    OBVIOUS
  <2> QED
    BY <2>2, <2>3, <2>4 DEF StrictSubsetOrdering
<1> QED
  BY <1>6 DEF Orders

(* cleanup keeps as many releases as it is told to, or all.                *)
LEMMA Slice ==
  ASSUME NEW of, IsFiniteSet(of), Orders(older, of), NEW keep \in Nat
  PROVE  LET kept == of \ Old(of, keep)
         IN  /\ IsFiniteSet(kept) /\ Cardinality(kept) <= keep
             /\ Cardinality(kept) >= keep \/ kept = of
<1> DEFINE After(r) == {s \in of : <<r, s>> \in older}
           kept == of \ Old(of, keep)
<1>1. \A r : IsFiniteSet(After(r)) /\ Cardinality(After(r)) \in Nat
  BY FS_Subset, FS_CardinalityType
<1>2. kept \in SUBSET of /\ IsFiniteSet(kept) /\ Cardinality(kept) \in Nat
  BY FS_Subset, FS_CardinalityType
<1>3. \A r \in of : (r \in Old(of, keep) <=> Cardinality(After(r)) >= keep)
  BY DEF Old, Newer
<1>4. Cardinality(kept) <= keep
  <2>1. CASE kept = {}
    BY <2>1, FS_EmptySet
  <2>2. CASE kept # {}
    <3>1. PICK x \in kept : \A y \in kept : y = x \/ <<x, y>> \in older
      BY <1>2, <2>2, Least
    <3>2. kept \ {x} \subseteq After(x)
      BY <1>2, <3>1
    <3>3. Cardinality(kept \ {x}) <= Cardinality(After(x))
      BY <1>1, <3>2, FS_Subset
    <3>4. Cardinality(kept \ {x}) = Cardinality(kept) - 1
      BY <1>2, <3>1, FS_RemoveElement
    <3>5. ~(Cardinality(After(x)) >= keep)
      BY <1>3, <3>1
    <3>6. Cardinality(After(x)) \in Nat
      BY <1>1
    <3> HIDE DEF kept, After
    <3> QED
      BY <1>2, <3>3, <3>4, <3>5, <3>6
  <2> QED
    BY <2>1, <2>2
<1>5. Cardinality(kept) >= keep \/ kept = of
  <2>1. CASE Old(of, keep) = {}
    BY <2>1
  <2>2. CASE Old(of, keep) # {}
    <3> DEFINE back == {e \in of \X of : <<e[2], e[1]>> \in older}
    <3>1. \A r, s \in of : <<r, s>> \in back <=> <<s, r>> \in older
      OBVIOUS
    <3> HIDE DEF back
    <3>2. Orders(back, of)
      BY <3>1 DEF Orders
    <3>3. Old(of, keep) \in SUBSET of
      BY DEF Old
    <3>4. PICK x \in Old(of, keep) : \A y \in Old(of, keep) : y = x \/ <<x, y>> \in back
      BY <2>2, <3>2, <3>3, Least
    <3>5. After(x) \subseteq kept
      BY <3>1, <3>3, <3>4 DEF Orders
    <3>6. Cardinality(After(x)) <= Cardinality(kept)
      BY <1>2, <3>5, FS_Subset
    <3>7. Cardinality(After(x)) >= keep
      BY <1>3, <3>3, <3>4
    <3>8. Cardinality(After(x)) \in Nat
      BY <1>1
    <3> HIDE DEF kept, After
    <3> QED
      BY <1>2, <3>6, <3>7, <3>8
  <2> QED
    BY <2>1, <2>2
<1> QED
  BY <1>2, <1>4, <1>5

(* What a run has noted and pruned when it is at a step.                   *)
Ordered == older \subseteq dirs \X dirs /\ Orders(older, dirs)

Working == {"unmark", "link"} \cup Linking \cup Cleaning

RunTyped ==
  /\ status \in [Runs -> {"none", "ok", "failed", "killed"}]
  /\ changed \in [Runs -> BOOLEAN]
  /\ seen = [p \in Runs |-> seen[p]]
  /\ \A p \in Runs : pc[p] \in Working => task[p].state \in {"finalize", "clean"}
  /\ \A p \in Runs : pc[p] \in {"present", "absent"} => task[p].state = pc[p]

Works(p) == pc[p] \in Working /\ ~Dry(p)

(* The releases or the link are not as the run found them.                 *)
Differs(p) == marked # seen[p].marked \/ dirs # seen[p].dirs \/ current # seen[p].current

(* It has noted a change, unless the link is still to be set.              *)
Noted(p) ==
  /\ dirs \subseteq seen[p].dirs /\ marked \subseteq seen[p].marked
  /\ ~changed[p] => seen[p] = Snapshot
  /\ changed[p] => pc[p] \in Linking \/ Differs(p)
  /\ pc[p] \in Linking \cup {"unmark", "link"} => current = seen[p].current
  /\ pc[p] \in Linking => changed[p] /\ current # task[p].release

(* It found no ruin of an interrupted removal.                             *)
Sound(p) == seen[p].dirs \subseteq seen[p].marked \cup seen[p].complete

(* The releases that it will keep.                                         *)
Kept(p) == (dirs \ {task[p].release}) \ todo[p]

Pruned(p) ==
  /\ pc[p] = "unfinished" => marked \subseteq todo[p]
  /\ pc[p] \in {"sort", "old"} => marked = {}
  /\ pc[p] = "sort" => todo[p] = dirs \ {task[p].release}
  /\ pc[p] = "old" => todo[p] \subseteq dirs /\ Cardinality(Kept(p)) <= task[p].keep
  /\ Sound(p) =>
       /\ dirs \ {task[p].release} \subseteq marked \cup Complete
       /\ pc[p] # "old" => seen[p].complete \subseteq Complete
       /\ pc[p] = "old" => AtLeast(Kept(p), seen[p].complete \ {task[p].release}, task[p].keep)

(* The inductive invariant.                                                *)
CleanInv == Ordered /\ RunTyped /\ \A p \in Runs : Works(p) => Noted(p) /\ Pruned(p)

(* The order after a directory is removed, or changed.                     *)
LEMMA OrderStays ==
  ASSUME Ordered
  PROVE  /\ older' = Among(dirs') /\ dirs' \subseteq dirs => Ordered'
         /\ \A r : older' = ChangedNow(r) /\ dirs' = dirs \cup {r} => Ordered'
         /\ UNCHANGED tree => Ordered'
<1>1. older' = Among(dirs') /\ dirs' \subseteq dirs => Ordered'
  BY DEF Ordered, Orders, Among
<1>2. ASSUME NEW r, older' = ChangedNow(r), dirs' = dirs \cup {r} PROVE Ordered'
  <2>1. \A a, b : <<a, b>> \in older' <=>
          a \in dirs \ {r} /\ (b = r \/ (b \in dirs \ {r} /\ <<a, b>> \in older))
    BY <1>2 DEF ChangedNow, Among
  <2>2. older' \subseteq dirs' \X dirs'
    BY <1>2 DEF ChangedNow, Among
  <2> QED
    BY <1>2, <2>1, <2>2 DEF Ordered, Orders
<1>3. UNCHANGED tree => Ordered'
  BY DEF tree, Ordered, Orders
<1> QED
  BY <1>1, <1>2, <1>3

(* The order after some directories are removed, and one more in part.     *)
LEMMA RuinOrdered ==
  ASSUME Ordered, NEW gone, NEW ruin \in {{}} \cup {{r} : r \in dirs \ gone}, dirs' = dirs \ gone,
         older' = Among(dirs' \ ruin) \cup ((dirs' \ ruin) \X ruin)
  PROVE  Ordered'
<1>1. \A a, b : <<a, b>> \in older' <=>
        a \in dirs' \ ruin /\ (b \in ruin \/ (b \in dirs' \ ruin /\ <<a, b>> \in older))
  BY DEF Among
<1>2. ruin \subseteq dirs' /\ \A a, b \in ruin : a = b
  OBVIOUS
<1>3. older' \subseteq dirs' \X dirs'
  BY <1>2 DEF Among
<1>4. dirs' \subseteq dirs
  OBVIOUS
<1> QED
  BY ONLY <1>1, <1>2, <1>3, <1>4, Ordered DEF Ordered, Orders

(* Removing a directory, or a part of it.                                  *)
LEMMA DeleteOrdered ==
  ASSUME Ordered, NEW p, NEW r, Delete(p, r)
  PROVE  Ordered'
<1>1. CASE r \in dirs /\ RemoveTree(r)
  <2>1. dirs' = dirs \ {r} /\ older' = Among(dirs')
    BY <1>1 DEF RemoveTree
  <2> QED
    BY <2>1, OrderStays
<1>2. CASE r \in dirs /\ RemovePart(r)
  <2>1. older' = ChangedNow(r) /\ dirs' = dirs \cup {r}
    BY <1>2 DEF RemovePart
  <2> QED
    BY <2>1, OrderStays
<1>3. CASE UNCHANGED tree
  BY <1>3, OrderStays
<1> QED
  BY <1>1, <1>2, <1>3 DEF Delete

(* Each step keeps the order.                                              *)
LEMMA StepOrdered ==
  ASSUME TypeOK, Ordered, NEW p \in Runs, Step(p) \/ Killed(p)
  PROVE  Ordered'
<1>1. CASE Unmark(p)
  <2>1. CASE UNCHANGED tree
    BY <2>1, OrderStays
  <2>2. ASSUME NEW r, r \in marked, older' = ChangedNow(r), UNCHANGED <<dirs, built>> PROVE Ordered'
    <3>1. dirs' = dirs \cup {r}
      BY <2>2 DEF TypeOK
    <3> QED
      BY <2>2, <3>1, OrderStays
  <2> QED
    BY <1>1, <2>1, <2>2 DEF Unmark
<1>2. CASE RemoveUnfinished(p)
  BY <1>2, DeleteOrdered, OrderStays DEF RemoveUnfinished
<1>3. CASE RemoveOld(p)
  BY <1>3, DeleteOrdered, OrderStays DEF RemoveOld
<1>4. CASE Absent(p)
  <2>1. CASE UNCHANGED disk
    BY <2>1, OrderStays DEF disk
  <2>2. CASE dirs' = {} /\ older' = {}
    BY <2>2 DEF Ordered, Orders
  <2>3. ASSUME NEW gone \in SUBSET dirs, NEW ruin \in {{}} \cup {{r} : r \in dirs \ gone}, dirs' = dirs \ gone,
               older' = Among(dirs' \ ruin) \cup ((dirs' \ ruin) \X ruin)
        PROVE  Ordered'
    BY <2>3, RuinOrdered
  <2> QED
    BY <1>4, <2>1, <2>2, <2>3 DEF Absent
<1>5. CASE \/ CheckLink(p) \/ CreateLink(p) \/ UnlinkTmp(p) \/ SymlinkTmp(p) \/ RenameTmp(p) \/ ListBuilds(p)
           \/ ListReleases(p) \/ SortReleases(p) \/ Present(p) \/ Killed(p) \/ \E t \in Task : Start(p, t)
  <2>1. UNCHANGED tree
    BY <1>5 DEF CheckLink, CreateLink, UnlinkTmp, SymlinkTmp, RenameTmp, ListBuilds, ListReleases,
                SortReleases, Present, Killed, Start, disk
  <2> QED
    BY <2>1, OrderStays
<1> QED
  BY <1>1, <1>2, <1>3, <1>4, <1>5 DEF Step

(* The end of a run, or its next step.                                     *)
LEMMA EndNotes ==
  ASSUME TypeOK, RunTyped, NEW p \in Runs, NEW o \in {"ok", "failed", "killed"}, End(p, o),
         changed' \in [Runs -> BOOLEAN]
  PROVE  RunTyped' /\ ~Works(p)'
<1>1. pc'[p] = "idle" /\ \A q \in Runs : q # p => pc'[q] = pc[q] /\ task'[q] = task[q]
  BY DEF End, TypeOK
<1>2. "idle" \notin Working /\ "idle" \notin {"present", "absent"}
  BY DEF Working, Linking, Cleaning
<1>3. status' \in [Runs -> {"none", "ok", "failed", "killed"}]
  BY DEF End, RunTyped
<1>4. seen' = [q \in Runs |-> seen'[q]]
  BY DEF End, RunTyped
<1> QED
  BY <1>1, <1>2, <1>3, <1>4 DEF RunTyped, Works

(* A run that goes on keeps its task and what it has seen.                 *)
LEMMA GoNotes ==
  ASSUME TypeOK, RunTyped, NEW p \in Runs, pc[p] \in Working, NEW c \in Working, Goto(p, c),
         changed' \in [Runs -> BOOLEAN]
  PROVE  /\ RunTyped' /\ pc'[p] = c /\ task' = task /\ seen' = seen
         /\ Works(p)' => Works(p)
<1>1. pc'[p] = c /\ task' = task /\ seen' = seen /\ status' = status
      /\ \A q \in Runs : q # p => pc'[q] = pc[q]
  BY DEF Goto, TypeOK, locals
<1>2. Working \cap {"present", "absent"} = {}
  BY DEF Working, Linking, Cleaning
<1> QED
  BY <1>1, <1>2 DEF RunTyped, Works, Dry

(* So it does after create_link.                                           *)
LEMMA AfterLinkNotes ==
  ASSUME TypeOK, RunTyped, NEW p \in Runs, pc[p] \in Working, AfterLink(p),
         changed' \in [Runs -> BOOLEAN]
  PROVE  /\ RunTyped'
         /\ Works(p)' => Works(p) /\ pc'[p] = "list" /\ task' = task /\ seen' = seen
<1>1. CASE Goto(p, "list")
  <2>1. "list" \in Working
    BY DEF Working, Cleaning
  <2> QED
    BY <1>1, <2>1, GoNotes
<1>2. CASE End(p, "ok")
  BY <1>2, EndNotes
<1> QED
  BY <1>1, <1>2 DEF AfterLink

(* What a run has noted, and pruned, after its next step.                  *)
Advances(p) == RunTyped' /\ (Works(p)' => Noted(p)' /\ Pruned(p)')

(* It starts with what it finds.                                           *)
LEMMA StartAdvances ==
  ASSUME History, Sequential, DeployInv, CleanInv, NEW p \in Runs, NEW t \in Task, Start(p, t)
  PROVE  Advances(p)
<1>1. TypeOK /\ RunTyped /\ UNCHANGED disk /\ changed' \in [Runs -> BOOLEAN] /\ ~changed'[p]
  BY DEF DeployInv, CleanInv, Start, RunTyped
<1>2. CASE End(p, "failed")
  BY <1>1, <1>2, EndNotes DEF Advances
<1>3. CASE ~(t.state = "finalize" /\ t.keep = 0)
  <2>1. /\ task' = [task EXCEPT ![p] = t]
        /\ seen' = [seen EXCEPT ![p] = Snapshot]
        /\ pc' = [pc EXCEPT ![p] = CASE t.state = "finalize" -> "unmark"
                                     [] t.state = "clean" -> "list"
                                     [] OTHER -> t.state]
        /\ status' = [status EXCEPT ![p] = "none"]
    BY <1>3 DEF Start
  <2>2. t.state \in {"present", "finalize", "clean", "absent"}
    BY DEF Task
  <2>3. /\ task'[p] = t /\ pc'[p] \in {"unmark", "list", "present", "absent"} /\ seen'[p] = Snapshot
        /\ (pc'[p] \in {"unmark", "list"} => t.state \in {"finalize", "clean"})
        /\ (pc'[p] \in {"present", "absent"} => t.state = pc'[p])
        /\ \A q \in Runs : q # p => pc'[q] = pc[q] /\ task'[q] = task[q]
        /\ seen' = [q \in Runs |-> seen'[q]]
    <3>1. pc'[p] = CASE t.state = "finalize" -> "unmark" [] t.state = "clean" -> "list" [] OTHER -> t.state
      BY <1>1, <2>1 DEF TypeOK
    <3>2. /\ pc'[p] \in {"unmark", "list", "present", "absent"}
          /\ (pc'[p] \in {"unmark", "list"} => t.state \in {"finalize", "clean"})
          /\ (pc'[p] \in {"present", "absent"} => t.state = pc'[p])
      BY <2>2, <3>1
    <3>3. task'[p] = t /\ seen'[p] = Snapshot /\ seen' = [q \in Runs |-> seen'[q]]
      BY <1>1, <2>1 DEF TypeOK, RunTyped
    <3>4. \A q \in Runs : q # p => pc'[q] = pc[q] /\ task'[q] = task[q]
      BY <1>1, <2>1 DEF TypeOK
    <3> QED
      BY <3>2, <3>3, <3>4
  <2>4. {"present", "absent"} \cap Working = {} /\ {"unmark", "list"} \cap Linking = {}
    BY DEF Working, Linking, Cleaning
  <2>5. RunTyped'
    <3>1. \A q \in Runs : /\ pc'[q] \in Working => task'[q].state \in {"finalize", "clean"}
                          /\ pc'[q] \in {"present", "absent"} => task'[q].state = pc'[q]
      BY <1>1, <2>3, <2>4 DEF RunTyped
    <3>2. status' \in [Runs -> {"none", "ok", "failed", "killed"}]
      BY <1>1, <2>1 DEF RunTyped
    <3> QED
      BY <1>1, <2>3, <3>1, <3>2 DEF RunTyped
  <2>6. /\ seen'[p].dirs = dirs /\ seen'[p].marked = marked /\ seen'[p].complete = Complete
        /\ seen'[p].current = current
    BY <2>3 DEF Snapshot
  <2>7. UNCHANGED <<dirs, marked, built, current>> /\ Complete' = Complete /\ Snapshot' = Snapshot
    BY <1>1 DEF disk, tree, Complete, Snapshot
  <2>8. Works(p)' => Noted(p)'
    BY <1>1, <2>3, <2>4, <2>6, <2>7 DEF Noted, Works
  <2>9. Works(p)' => Pruned(p)'
    BY <2>3, <2>4, <2>6, <2>7 DEF Pruned, Works, Sound
  <2> QED
    BY <2>5, <2>8, <2>9 DEF Advances
<1> QED
  BY <1>2, <1>3 DEF Start

(* Through create_link.                                                    *)
LEMMA LinkAdvances ==
  ASSUME Sequential, DeployInv, CleanInv, NEW p \in Runs,
         Unmark(p) \/ CheckLink(p) \/ CreateLink(p) \/ UnlinkTmp(p) \/ SymlinkTmp(p) \/ RenameTmp(p)
  PROVE  Advances(p)
<1>1. /\ TypeOK /\ Ready(p) /\ RunTyped /\ pc[p] \in Linking \cup {"unmark", "link"}
      /\ pc[p] \in Working /\ changed' \in [Runs -> BOOLEAN]
      /\ task[p] \in Task
  <2>1. TypeOK /\ Ready(p) /\ RunTyped
    BY DEF DeployInv, CleanInv
  <2>2. pc[p] \in Linking \cup {"unmark", "link"}
    BY DEF Unmark, CheckLink, CreateLink, UnlinkTmp, SymlinkTmp, RenameTmp, Linking
  <2>3. changed' \in [Runs -> BOOLEAN]
    BY <2>1 DEF RunTyped, Unmark, CheckLink, CreateLink, UnlinkTmp, SymlinkTmp, RenameTmp, Change
  <2> QED
    BY <2>1, <2>2, <2>3 DEF Ready, Working, Linking
<1>2. Works(p) => Noted(p) /\ Pruned(p)
  BY DEF CleanInv
<1>3. /\ {"unmark", "link"} \cup Linking \subseteq Working /\ Linking \cap {"unmark", "link", "list"} = {}
      /\ {"create", "unlink", "symlink", "rename"} = Linking
  BY DEF Working, Linking, Cleaning
<1>4. \A o \in {"ok", "failed"} : End(p, o) => Advances(p)
  BY <1>1, EndNotes DEF Advances
<1>5. CASE Unmark(p)
  <2>1. pc[p] = "unmark" /\ Goto(p, "link")
    BY <1>5 DEF Unmark
  <2>2. RunTyped' /\ pc'[p] = "link" /\ task' = task /\ seen' = seen /\ (Works(p)' => Works(p))
    BY <1>1, <1>3, <2>1, GoNotes
  <2> SUFFICES ASSUME Works(p)' PROVE Noted(p)' /\ Pruned(p)'
    BY <2>2 DEF Advances
  <2>3. Noted(p) /\ Pruned(p) /\ ~Dry(p)
    BY <1>1, <1>2, <2>1, <2>2 DEF Works
  <2>4. CASE UNCHANGED <<changed, tree>>
    <3>1. UNCHANGED <<dirs, marked, built, current, changed>> /\ Complete' = Complete /\ Snapshot' = Snapshot
      BY <1>5, <2>4 DEF Unmark, tree, Complete, Snapshot
    <3> QED
      BY <1>3, <2>1, <2>2, <2>3, <3>1 DEF Noted, Pruned, Sound, Differs
  <2>5. CASE task[p].release \in marked /\ Change(p) /\ marked' = marked \ {task[p].release} /\ UNCHANGED <<dirs, built>>
    <3>1. current' = current /\ changed'[p] /\ marked' # seen[p].marked /\ marked' \subseteq marked
      BY <1>1, <1>5, <2>3, <2>5 DEF Unmark, Change, RunTyped, Noted
    <3>2. Noted(p)'
      BY <1>3, <2>1, <2>2, <2>3, <2>5, <3>1 DEF Noted, Differs
    <3>3. /\ Complete \subseteq Complete'
          /\ (marked \cup Complete) \ {task[p].release} \subseteq marked' \cup Complete'
      BY <2>5 DEF Complete
    <3>4. Pruned(p)'
      BY <2>1, <2>2, <2>3, <2>5, <3>3 DEF Pruned, Sound
    <3> QED
      BY <3>2, <3>4
  <2> QED
    BY <1>5, <2>3, <2>4, <2>5 DEF Unmark
<1>6. ASSUME UNCHANGED <<dirs, marked, built>>,
             task' = task, seen' = seen, pc'[p] \in Linking \cup {"list"}, Works(p),
             pc'[p] = "list" => /\ changed' = changed /\ current' = task[p].release
                                /\ current' = current \/ pc[p] \in Linking,
             pc'[p] \in Linking => changed'[p] /\ current' = current /\ current # task[p].release
      PROVE  Noted(p)' /\ Pruned(p)'
  <2>1. Noted(p) /\ Pruned(p) /\ Complete' = Complete
    BY <1>2, <1>6 DEF Complete
  <2>2. Pruned(p)'
    <3>1. pc'[p] \notin {"unfinished", "sort", "old"} /\ pc[p] # "old"
      BY <1>1, <1>6 DEF Linking
    <3> QED
      BY <1>6, <2>1, <3>1 DEF Pruned, Sound
  <2>3. CASE pc'[p] \in Linking
    BY <1>1, <1>3, <1>6, <2>1, <2>2, <2>3 DEF Noted
  <2>4. CASE pc'[p] = "list" /\ pc[p] \in Linking
    <3>1. changed'[p] /\ current' # seen'[p].current
      BY <1>6, <2>1, <2>4 DEF Noted
    <3> QED
      BY <1>3, <1>6, <2>1, <2>2, <2>4, <3>1 DEF Noted, Differs
  <2>5. CASE pc'[p] = "list" /\ current' = current /\ pc[p] \notin Linking
    <3>1. Snapshot' = Snapshot
      BY <1>6, <2>1, <2>5 DEF Snapshot
    <3> QED
      BY <1>3, <1>6, <2>1, <2>2, <2>5, <3>1 DEF Noted, Differs
  <2> QED
    BY <1>6, <2>2, <2>3, <2>4, <2>5
<1>7. CASE CheckLink(p)
  <2>1. pc[p] = "link" /\ UNCHANGED <<dirs, marked, built, current>>
    BY <1>7 DEF CheckLink, disk, tree
  <2>2. CASE AfterLink(p) /\ (Dry(p) \/ (UNCHANGED changed /\ current = task[p].release))
    <3>1. RunTyped' /\ (Works(p)' => Works(p) /\ pc'[p] = "list" /\ task' = task /\ seen' = seen)
      BY <1>1, <2>2, AfterLinkNotes
    <3>2. ASSUME Works(p)' PROVE Noted(p)' /\ Pruned(p)'
      BY <1>6, <1>3, <2>1, <2>2, <3>1, <3>2 DEF Works
    <3> QED
      BY <3>1, <3>2 DEF Advances
  <2>3. ASSUME NEW c \in {"create", "unlink"}, Goto(p, c), current # task[p].release, Change(p) PROVE Advances(p)
    <3>1. RunTyped' /\ pc'[p] = c /\ task' = task /\ seen' = seen /\ (Works(p)' => Works(p))
      BY <1>1, <1>3, <2>3, GoNotes
    <3>2. changed'[p]
      BY <1>1, <2>3 DEF Change, RunTyped
    <3>3. c \in Linking /\ c # "list"
      BY <1>3
    <3>4. ASSUME Works(p)' PROVE Noted(p)' /\ Pruned(p)'
      BY <1>6, <2>1, <2>3, <3>1, <3>2, <3>3, <3>4
    <3> QED
      BY <3>1, <3>4 DEF Advances
  <2> QED
    BY <1>4, <1>7, <2>2, <2>3 DEF CheckLink
<1>8. CASE CreateLink(p) \/ RenameTmp(p)
  <2>1. pc[p] \in Linking /\ UNCHANGED <<dirs, marked, built, changed>>
    BY <1>8 DEF CreateLink, RenameTmp, Linking, tree
  <2>2. CASE current' = task[p].release /\ AfterLink(p)
    <3>1. RunTyped' /\ (Works(p)' => Works(p) /\ pc'[p] = "list" /\ task' = task /\ seen' = seen)
      BY <1>1, <2>2, AfterLinkNotes
    <3>2. ASSUME Works(p)' PROVE Noted(p)' /\ Pruned(p)'
      BY <1>3, <1>6, <2>1, <2>2, <3>1, <3>2
    <3> QED
      BY <3>1, <3>2 DEF Advances
  <2>3. RenameTmp(p) => tmp = task[p].release
    BY <1>1 DEF RenameTmp, Ready
  <2> QED
    BY <1>4, <1>8, <2>2, <2>3 DEF CreateLink, RenameTmp, Replace
<1>9. CASE UnlinkTmp(p) \/ SymlinkTmp(p)
  <2>1. pc[p] \in Linking /\ UNCHANGED <<dirs, marked, built, changed, current>>
    BY <1>9 DEF UnlinkTmp, SymlinkTmp, Linking, tree
  <2>2. ASSUME NEW c \in Linking, Goto(p, c) PROVE Advances(p)
    <3>1. RunTyped' /\ pc'[p] = c /\ task' = task /\ seen' = seen /\ (Works(p)' => Works(p))
      BY <1>1, <1>3, <2>2, GoNotes
    <3>2. ASSUME Works(p)' PROVE Noted(p)' /\ Pruned(p)'
      <4>1. changed[p] /\ current # task[p].release
        BY <1>2, <2>1, <3>1, <3>2 DEF Noted
      <4>2. c # "list"
        BY <1>3
      <4> QED
        BY <1>6, <2>1, <2>2, <3>1, <3>2, <4>1, <4>2
    <3> QED
      BY <3>1, <3>2 DEF Advances
  <2>3. End(p, "failed") \/ \E c \in Linking : Goto(p, c)
    BY <1>3, <1>9 DEF UnlinkTmp, SymlinkTmp
  <2> QED
    BY <1>4, <2>2, <2>3
<1> QED
  BY <1>5, <1>7, <1>8, <1>9

(* Removing a directory that is to go.                                     *)
LEMMA DeleteAdvances ==
  ASSUME DeployInv, CleanInv, NEW p \in Runs, Works(p), pc[p] \in {"unfinished", "old"},
         NEW r \in todo[p], UNCHANGED current, Delete(p, r),
         pc[p] = "unfinished" => r \in marked
  PROVE  Advances(p)
<1>1. TypeOK /\ RunTyped /\ Noted(p) /\ Pruned(p)
      /\ changed' \in [Runs -> BOOLEAN]
  BY DEF DeployInv, CleanInv, TypeOK, Delete, Change, RunTyped
<1>2. CASE Break(p, "failed")
  BY <1>1, <1>2, EndNotes DEF Advances, Break
<1>3. CASE Passed(p, r) /\ dirs' = dirs \ {r} /\ marked' = marked \ {r} /\ built' = built \ {r}
           /\ (r \in dirs => changed'[p]) /\ (r \notin dirs => UNCHANGED <<tree, changed>>)
  <2>0. UNCHANGED <<pc, status, task, seen>> /\ todo'[p] = todo[p] \ {r}
    BY <1>1, <1>3 DEF Passed, locals, TypeOK
  <2>1. RunTyped' /\ UNCHANGED <<pc, task, seen>> /\ pc[p] \notin Linking \cup {"unmark", "link", "sort"}
    BY <1>1, <1>3, <2>0 DEF RunTyped, Linking
  <2>2. Noted(p)'
    <3>1. CASE r \in dirs
      <4>1. Differs(p)' /\ changed'[p]
        BY <1>1, <1>3, <2>1, <3>1 DEF Noted, Differs
      <4> QED
        BY <1>1, <1>3, <2>1, <4>1 DEF Noted
    <3>2. CASE r \notin dirs
      <4>1. UNCHANGED <<changed, dirs, marked, built, current>> /\ Snapshot' = Snapshot
        BY <1>3, <3>2 DEF tree, Snapshot, Complete
      <4> QED
        BY <1>1, <2>1, <4>1 DEF Noted, Differs
    <3> QED
      BY <3>1, <3>2
  <2>3. CASE pc[p] = "unfinished"
    <3>1. Complete' = Complete
      BY <1>3, <2>3 DEF Complete
    <3>2. Pruned(p)'
      BY <1>1, <1>3, <2>0, <2>1, <2>3, <3>1 DEF Pruned, Sound
    <3> QED
      BY <2>1, <2>2, <3>2 DEF Advances
  <2>4. CASE pc[p] = "old"
    <3>1. Kept(p)' = Kept(p)
      BY <1>1, <1>3, <2>0 DEF Kept
    <3>2. Sound(p) => dirs' \ {task[p].release} \subseteq marked' \cup Complete'
      BY <1>1, <1>3, <2>4 DEF Pruned, Complete
    <3>3. marked' = {} /\ todo'[p] \subseteq dirs'
      BY <1>1, <1>3, <2>0, <2>4 DEF Pruned
    <3>4. Pruned(p)'
      BY <1>1, <2>1, <2>4, <3>1, <3>2, <3>3 DEF Pruned, Sound
    <3> QED
      BY <2>1, <2>2, <3>4 DEF Advances
  <2> QED
    BY <2>3, <2>4
<1>4. (r \notin dirs) => r \notin marked /\ r \notin built
  BY <1>1 DEF TypeOK
<1>5. CASE r \in dirs /\ RemoveTree(r) /\ Change(p) /\ Passed(p, r)
  <2>1. changed'[p]
    BY <1>1, <1>5 DEF Change, RunTyped
  <2> QED
    BY <1>3, <1>5, <2>1 DEF RemoveTree
<1>6. CASE r \notin dirs /\ Passed(p, r) /\ UNCHANGED <<tree, changed>>
  <2>1. dirs' = dirs \ {r} /\ marked' = marked \ {r} /\ built' = built \ {r}
    BY <1>4, <1>6 DEF tree
  <2> QED
    BY <1>3, <1>6, <2>1
<1> QED
  BY <1>2, <1>5, <1>6 DEF Delete

(* Through a clean.                                                        *)
LEMMA CleanAdvances ==
  ASSUME Sequential, DeployInv, CleanInv, NEW p \in Runs,
         ListBuilds(p) \/ RemoveUnfinished(p) \/ ListReleases(p) \/ SortReleases(p) \/ RemoveOld(p)
  PROVE  Advances(p)
<1>1. /\ TypeOK /\ Ready(p) /\ RunTyped /\ UNCHANGED current /\ pc[p] \in Cleaning
      /\ pc[p] \in Working /\ changed' \in [Runs -> BOOLEAN]
      /\ task[p] \in Task
  <2>1. TypeOK /\ Ready(p) /\ RunTyped
    BY DEF DeployInv, CleanInv
  <2>2. pc[p] \in Cleaning /\ UNCHANGED current
    BY DEF ListBuilds, RemoveUnfinished, ListReleases, SortReleases, RemoveOld, Cleaning, disk
  <2>3. changed' \in [Runs -> BOOLEAN]
    BY <2>1 DEF RunTyped, ListBuilds, RemoveUnfinished, ListReleases, SortReleases, RemoveOld, Delete, Change
  <2> QED
    BY <2>1, <2>2, <2>3 DEF Ready, Working, Cleaning
<1>2. Works(p) => Noted(p) /\ Pruned(p)
  BY DEF CleanInv
<1>3. /\ Cleaning \subseteq Working /\ Cleaning \cap (Linking \cup {"unmark", "link"}) = {}
      /\ Cleaning = {"list", "unfinished", "sort", "old"}
  BY DEF Working, Linking, Cleaning
<1>4. \A o \in {"ok", "failed"} : End(p, o) => Advances(p)
  BY <1>1, EndNotes DEF Advances
<1>4a. \A o \in {"ok", "failed"} : Break(p, o) => Advances(p)
  BY <1>4 DEF Break
<1>5. ASSUME UNCHANGED <<dirs, marked, built, changed>>, pc'[p] \in Cleaning, task' = task, seen' = seen, Works(p)
      PROVE  Noted(p)'
  <2>1. Noted(p) /\ Snapshot' = Snapshot
    BY <1>1, <1>2, <1>5 DEF Snapshot, Complete
  <2> QED
    BY <1>1, <1>3, <1>5, <2>1 DEF Noted, Differs
<1>6. CASE ListBuilds(p)
  <2>1. pc[p] = "list" /\ UNCHANGED <<dirs, marked, built, changed>>
    BY <1>6 DEF ListBuilds, disk, tree
  <2>2. CASE todo' = [todo EXCEPT ![p] = dirs] /\ Goto(p, "unfinished")
    <3>1. RunTyped' /\ pc'[p] = "unfinished" /\ task' = task /\ seen' = seen /\ (Works(p)' => Works(p))
      BY <1>1, <1>3, <2>2, GoNotes
    <3>2. marked' \subseteq todo'[p] /\ Complete' = Complete
      BY <1>1, <2>1, <2>2 DEF TypeOK, Complete
    <3>3. Works(p) => Pruned(p)'
      BY <1>2, <2>1, <3>1, <3>2 DEF Pruned, Sound
    <3> QED
      BY <1>3, <1>5, <2>1, <3>1, <3>3 DEF Advances
  <2> QED
    BY <1>4, <1>6, <2>2 DEF ListBuilds
<1>7. CASE RemoveUnfinished(p)
  <2>1. PICK r \in todo[p] :
          IF Unfinished(r) /\ ~Dry(p) THEN Delete(p, r)
          ELSE /\ Passed(p, r)
               /\ changed' = [changed EXCEPT ![p] = @ \/ Unfinished(r)]
               /\ UNCHANGED tree
    BY <1>7 DEF RemoveUnfinished
  <2>2. pc[p] = "unfinished"
    BY <1>7 DEF RemoveUnfinished
  <2>3. CASE Unfinished(r) /\ ~Dry(p)
    BY <1>1, <2>1, <2>2, <2>3, DeleteAdvances DEF Works, Unfinished
  <2>4. CASE ~(Unfinished(r) /\ ~Dry(p))
    <3>1. RunTyped' /\ UNCHANGED <<pc, task, seen, dirs, marked, built>>
      BY <1>1, <2>1, <2>4 DEF RunTyped, Passed, tree, locals
    <3>2. ASSUME Works(p)' PROVE Noted(p)' /\ Pruned(p)'
      <4>1. Works(p) /\ r \notin marked
        BY <2>4, <3>1, <3>2 DEF Works, Dry, Unfinished
      <4>2. changed' = changed
        BY <1>1, <2>1, <2>4, <4>1 DEF RunTyped, Unfinished
      <4>3. Noted(p)'
        BY <1>1, <1>5, <3>1, <4>1, <4>2
      <4>4. todo'[p] = todo[p] \ {r} /\ Complete' = Complete
        BY <1>1, <2>1, <2>4, <3>1 DEF TypeOK, Passed, Complete
      <4>5. Pruned(p)'
        BY <1>2, <2>2, <3>1, <4>1, <4>4 DEF Pruned, Sound
      <4> QED
        BY <4>3, <4>5
    <3> QED
      BY <3>1, <3>2 DEF Advances
  <2> QED
    BY <2>3, <2>4
<1>8. CASE ListReleases(p)
  <2>1. pc[p] = "unfinished" /\ todo[p] = {} /\ UNCHANGED <<dirs, marked, built, changed>>
    BY <1>8 DEF ListReleases, disk, tree
  <2>2. CASE todo' = [todo EXCEPT ![p] = Candidates(p)] /\ Goto(p, "sort")
    <3>1. RunTyped' /\ pc'[p] = "sort" /\ task' = task /\ seen' = seen /\ (Works(p)' => Works(p))
      BY <1>1, <1>3, <2>2, GoNotes
    <3>2. todo'[p] = dirs \ {task[p].release} /\ Complete' = Complete
      BY <1>1, <2>1, <2>2 DEF TypeOK, Complete, Candidates
    <3>3. Works(p) => marked = {}
      BY <1>2, <2>1 DEF Pruned
    <3>4. Works(p) => Pruned(p)'
      BY <1>2, <2>1, <3>1, <3>2, <3>3 DEF Pruned, Sound
    <3> QED
      BY <1>3, <1>5, <2>1, <3>1, <3>4 DEF Advances
  <2> QED
    BY <1>4, <1>8, <2>2 DEF ListReleases
<1>9. CASE SortReleases(p)
  <2>1. pc[p] = "sort" /\ UNCHANGED <<dirs, marked, built>>
    BY <1>9 DEF SortReleases, disk, tree
  <2>2. CASE ~Dry(p) /\ todo' = [todo EXCEPT ![p] = Old(todo[p], task[p].keep)] /\ Goto(p, "old") /\ UNCHANGED changed
    <3> DEFINE of == dirs \ {task[p].release}
               kept == of \ Old(of, task[p].keep)
    <3>1. RunTyped' /\ pc'[p] = "old" /\ task' = task /\ seen' = seen /\ (Works(p)' => Works(p))
      BY <1>1, <1>3, <2>2, GoNotes
    <3>2. Works(p) /\ Noted(p) /\ Pruned(p)
      BY <1>1, <1>2, <2>2 DEF Works
    <3>3. todo[p] = of /\ marked = {} /\ todo'[p] = Old(of, task[p].keep) /\ Complete' = Complete
      BY <1>1, <2>1, <2>2, <3>2 DEF Pruned, TypeOK, Complete
    <3>4. IsFiniteSet(of) /\ IsFiniteSet(dirs)
      <4>1. born \in Nat /\ dirs \in SUBSET (1 .. born) /\ of \in SUBSET dirs
        BY <1>1 DEF TypeOK
      <4>2. IsFiniteSet(1 .. born)
        BY <4>1, FS_Interval
      <4> QED
        BY <4>1, <4>2, FS_Subset
    <3>5. Orders(older, of) /\ task[p].keep \in Nat
      <4>1. Orders(older, dirs) /\ of \subseteq dirs
        BY DEF CleanInv, Ordered
      <4>2. Orders(older, of)
        BY <4>1 DEF Orders
      <4> QED
        BY <1>1, <4>2, DeployAssumption DEF Task
    <3>6. /\ IsFiniteSet(kept) /\ Cardinality(kept) <= task[p].keep
          /\ Cardinality(kept) >= task[p].keep \/ kept = of
      BY <3>4, <3>5, Slice
    <3>7. Kept(p)' = kept
      BY <2>1, <3>1, <3>3 DEF Kept
    <3>8. Sound(p) => AtLeast(kept, seen[p].complete \ {task[p].release}, task[p].keep)
      <4>1. CASE kept = of /\ Sound(p)
        <5>1. seen[p].complete \ {task[p].release} \in SUBSET of
          BY <1>1, <2>1, <3>2, <4>1 DEF Pruned, Complete, TypeOK
        <5>2. Cardinality(of) >= Cardinality(seen[p].complete \ {task[p].release})
          <6>1. IsFiniteSet(seen[p].complete \ {task[p].release}) /\ Cardinality(seen[p].complete \ {task[p].release}) <= Cardinality(of)
            BY <3>4, <5>1, FS_Subset
          <6>2. Cardinality(of) \in Nat /\ Cardinality(seen[p].complete \ {task[p].release}) \in Nat
            BY <3>4, <6>1, FS_CardinalityType
          <6> HIDE DEF of
          <6> QED
            BY <6>1, <6>2
        <5> QED
          BY <4>1, <5>2 DEF AtLeast
      <4> QED
        BY <3>6, <4>1 DEF AtLeast
    <3>9. todo'[p] \subseteq dirs
      BY <3>3 DEF Old
    <3> HIDE DEF kept, of
    <3>10. Pruned(p)'
      BY <2>1, <3>1, <3>2, <3>3, <3>6, <3>7, <3>8, <3>9 DEF Pruned, Sound
    <3> QED
      BY <1>3, <1>5, <2>1, <2>2, <3>1, <3>2, <3>10 DEF Advances
  <2> QED
    BY <1>4a, <1>9, <2>2 DEF SortReleases
<1>10. CASE RemoveOld(p)
  <2>1. pc[p] = "old" /\ Works(p)
    BY <1>1, <1>10 DEF RemoveOld, Ready, Works
  <2>2. End(p, "ok") \/ \E r \in todo[p] : Delete(p, r)
    BY <1>10 DEF RemoveOld
  <2> QED
    BY <1>1, <1>4, <2>1, <2>2, DeleteAdvances
<1> QED
  BY <1>6, <1>7, <1>8, <1>9, <1>10

(* The tasks of a play, between the runs.                                  *)
LEMMA PlayPrunes ==
  ASSUME Sequential, DeployInv, CleanInv, NewRelease \/ \E r \in Releases : Mark(r) \/ Build(r)
  PROVE  CleanInv'
<1>1. \A p \in Runs : pc[p] = "idle"
  BY DEF NewRelease, Mark, Build, Others, Sequential
<1>2. UNCHANGED <<pc, task, seen, changed, status>>
  BY DEF NewRelease, Mark, Build, Others, locals
<1>3. "idle" \notin Working
  BY DEF Working, Linking, Cleaning
<1>4. RunTyped' /\ \A p \in Runs : ~Works(p)'
  BY <1>1, <1>2, <1>3 DEF RunTyped, Works, CleanInv
<1>5. Ordered'
  <2>1. CASE NewRelease
    <3>1. PICK r : r = born' /\ older' = ChangedNow(r) /\ dirs' = dirs \cup {r}
      BY <2>1 DEF NewRelease
    <3> QED
      BY <3>1, OrderStays DEF CleanInv
  <2>2. ASSUME NEW r \in Releases, Mark(r) \/ Build(r) PROVE Ordered'
    <3>1. older' = ChangedNow(r) /\ dirs' = dirs \cup {r}
      BY <2>2 DEF Mark, Build, DeployInv, TypeOK
    <3> QED
      BY <3>1, OrderStays DEF CleanInv
  <2> QED
    BY <2>1, <2>2
<1> QED
  BY <1>4, <1>5 DEF CleanInv

(* Every step keeps the invariant.                                         *)
LEMMA NextPrunes == History /\ Sequential /\ DeployInv /\ CleanInv /\ [Next]_vars => CleanInv'
<1> SUFFICES ASSUME History, Sequential, DeployInv, CleanInv, [Next]_vars PROVE CleanInv'
  OBVIOUS
<1>1. ASSUME NEW p \in Runs, Step(p) \/ Killed(p) PROVE CleanInv'
  <2>1. TypeOK /\ Ordered /\ RunTyped
    BY DEF DeployInv, CleanInv
  <2>2. Ordered'
    BY <1>1, <2>1, StepOrdered
  <2>3. Advances(p)
    <3>1. CASE Present(p) \/ Absent(p) \/ Killed(p)
      <4>1. PICK o \in {"ok", "failed", "killed"} : End(p, o)
        BY <3>1 DEF Present, Absent, Killed, Break
      <4>2. changed' \in [Runs -> BOOLEAN]
        BY <2>1, <3>1 DEF Present, Absent, Killed, Change, RunTyped
      <4> QED
        BY <2>1, <4>1, <4>2, EndNotes DEF Advances
    <3> QED
      BY <1>1, <3>1, StartAdvances, LinkAdvances, CleanAdvances DEF Step
  <2>4. \A q \in Runs : q # p => pc'[q] = "idle"
    <3>1. Moves(p)
      BY <1>1, StartReady, LinkReady, CleanReady, OtherReady DEF Step
    <3> QED
      BY <1>1, <3>1, OthersIdle DEF Moves
  <2>5. "idle" \notin Working
    BY DEF Working, Linking, Cleaning
  <2>6. \A q \in Runs : q # p => ~Works(q)'
    BY <2>4, <2>5 DEF Works
  <2> QED
    BY <2>2, <2>3, <2>6 DEF CleanInv, Advances
<1>2. CASE UNCHANGED vars
  <2>1. UNCHANGED <<dirs, marked, built, older, current, pc, task, seen, todo, changed, status>>
    BY <1>2 DEF vars, disk, tree, locals
  <2>2. Ordered'
    BY <2>1, OrderStays DEF CleanInv, tree
  <2>3. RunTyped'
    BY <2>1 DEF RunTyped, CleanInv
  <2>4. ASSUME NEW p \in Runs, Works(p)' PROVE Noted(p)' /\ Pruned(p)'
    <3>1. Works(p) /\ Snapshot' = Snapshot /\ Complete' = Complete /\ Kept(p)' = Kept(p)
      BY <2>1, <2>4 DEF Works, Dry, Snapshot, Complete, Kept
    <3>2. Noted(p) /\ Pruned(p)
      BY <3>1 DEF CleanInv
    <3> QED
      BY <2>1, <3>1, <3>2 DEF Noted, Pruned, Differs, Sound
  <2> QED
    BY <2>2, <2>3, <2>4 DEF CleanInv
<1> QED
  BY <1>1, <1>2, PlayPrunes DEF Next

(* It holds at first.                                                      *)
LEMMA CleanInitial == Init => CleanInv
<1> SUFFICES ASSUME Init PROVE CleanInv
  OBVIOUS
<1>1. Ordered
  BY DEF Init, Ordered, Orders
<1>2. "idle" \notin Working
  BY DEF Working, Linking, Cleaning
<1>3. RunTyped /\ \A p \in Runs : ~Works(p)
  BY <1>2 DEF Init, RunTyped, Works
<1> QED
  BY <1>1, <1>3 DEF CleanInv

(* What a run knows when it is at a step, until the end of a clean.        *)
THEOREM Pruning == ASSUME Sequential, History PROVE Spec => []CleanInv
<1>1. DeployInv /\ CleanInv /\ [Next]_vars => CleanInv'
  BY NextPrunes
<1> QED
  BY <1>1, CleanInitial, RunsAreReady, PTL DEF Spec

(* How a run ends.                                                         *)
LEMMA HowItEnds ==
  ASSUME Sequential, DeployInv, CleanInv, [Next]_vars, NEW p \in Runs,
         pc[p] # "idle", pc'[p] = "idle", status'[p] = "ok"
  PROVE  /\ Step(p) /\ (pc[p] = "old" => RemoveOld(p) /\ UNCHANGED tree /\ UNCHANGED current /\ todo[p] = {})
         /\ TypeOK /\ Ready(p) /\ RunTyped /\ (Works(p) => Noted(p) /\ Pruned(p))
<1>1. TypeOK /\ Ready(p) /\ RunTyped /\ (Works(p) => Noted(p) /\ Pruned(p))
  BY DEF DeployInv, CleanInv
<1>2. \A o : End(p, o) => o = "ok"
  BY <1>1 DEF End, RunTyped
<1>3. PICK q \in Runs : Step(q) \/ Killed(q)
  BY DEF Next, NewRelease, Mark, Build, Others, vars
<1>4. q = p
  BY <1>3, OthersIdle
<1>5. Step(p)
  BY <1>2, <1>3, <1>4 DEF Killed, Break
<1>6. ASSUME pc[p] = "old" PROVE RemoveOld(p) /\ UNCHANGED tree /\ UNCHANGED current /\ todo[p] = {}
  <2>1. RemoveOld(p)
    BY <1>5, <1>6 DEF Step, Start, Unmark, CheckLink, CreateLink, UnlinkTmp, SymlinkTmp, RenameTmp,
       ListBuilds, RemoveUnfinished, ListReleases, SortReleases, Present, Absent
  <2>2. ASSUME NEW r, Delete(p, r) PROVE FALSE
    BY <1>2, <1>6, <2>2 DEF Delete, Break, Passed
  <2> QED
    BY <2>1, <2>2 DEF RemoveOld
<1> QED
  BY <1>1, <1>5, <1>6

(* A clean leaves no unfinished build, at most keep_releases next to the   *)
(* release that it is told, and, if that is the one that is served, no     *)
(* fewer complete ones if there were as many: for any number of releases   *)
(* and any value of keep_releases.                                         *)
THEOREM CleanKeeps == ASSUME Sequential, History PROVE Spec => CleanKeepsWhatIsAsked
<1> DEFINE Asked ==
      \A p \in Runs : Cleaned(p) =>
       /\ marked' = {}
       /\ Cardinality(dirs' \ {task[p].release}) <= task[p].keep
       /\ /\ task[p].release = current'
          /\ seen[p].dirs \subseteq seen[p].marked \cup seen[p].complete
          => AtLeast(Complete' \ {current'}, seen[p].complete \ {current'}, task[p].keep)
<1>1. DeployInv /\ CleanInv /\ [Next]_vars => [Asked]_vars
  <2> SUFFICES ASSUME DeployInv, CleanInv, [Next]_vars, NEW p \in Runs, Cleaned(p)
               PROVE  /\ marked' = {}
                      /\ Cardinality(dirs' \ {task[p].release}) <= task[p].keep
                      /\ /\ task[p].release = current'
                         /\ seen[p].dirs \subseteq seen[p].marked \cup seen[p].complete
                         => AtLeast(Complete' \ {current'}, seen[p].complete \ {current'}, task[p].keep)
    OBVIOUS
  <2>1. /\ pc[p] = "old" /\ RemoveOld(p) /\ UNCHANGED tree /\ UNCHANGED current /\ todo[p] = {}
        /\ TypeOK /\ Ready(p) /\ RunTyped /\ (Works(p) => Noted(p) /\ Pruned(p))
    BY HowItEnds DEF Cleaned
  <2>2. Works(p)
    BY <2>1 DEF Works, Ready, Working, Cleaning
  <2>3. Kept(p) = dirs \ {task[p].release} /\ dirs' = dirs /\ marked' = marked /\ built' = built
    BY <2>1 DEF Kept, tree
  <2>4. Pruned(p) /\ marked = {}
    BY <2>1, <2>2 DEF Pruned
  <2>5. Sound(p) /\ task[p].release = current' => Complete' \ {current'} = Kept(p)
    BY <2>1, <2>2, <2>3, <2>4 DEF Pruned, Complete, TypeOK
  <2> QED
    BY <2>1, <2>2, <2>3, <2>4, <2>5 DEF Pruned, Sound
<1> QED
  BY <1>1, Pruning, RunsAreReady, PTL DEF Spec, CleanKeepsWhatIsAsked

(* A run that ends well reports a change when it made one, and only then.  *)
THEOREM Truthful == ASSUME Sequential, History PROVE Spec => ChangedIsTruthful
<1> DEFINE Ends(p) ==
             /\ pc[p] # "idle" /\ pc'[p] = "idle" /\ status'[p] = "ok"
             /\ task[p].state \in {"finalize", "clean"} /\ ~task[p].check
           Tells == \A p \in Runs : Ends(p) => (changed'[p] <=> Snapshot' # seen[p])
<1>1. DeployInv /\ CleanInv /\ [Next]_vars => [Tells]_vars
  <2> SUFFICES ASSUME DeployInv, CleanInv, [Next]_vars, NEW p \in Runs, Ends(p)
               PROVE  changed'[p] <=> Snapshot' # seen[p]
    OBVIOUS
  <2>1. /\ Step(p) /\ (pc[p] = "old" => RemoveOld(p) /\ UNCHANGED tree /\ UNCHANGED current /\ todo[p] = {})
        /\ TypeOK /\ Ready(p) /\ RunTyped /\ (Works(p) => Noted(p) /\ Pruned(p))
    BY HowItEnds
  <2>2. Works(p) /\ Noted(p)
    <3>1. pc[p] \in {"unmark", "link", "present", "absent"} \cup Linking \cup Cleaning
      BY <2>1 DEF TypeOK
    <3>2. pc[p] \notin {"present", "absent"}
      BY <2>1 DEF RunTyped
    <3> QED
      BY <2>1, <3>1, <3>2 DEF Works, Working, Dry
  <2>3. ASSUME UNCHANGED <<dirs, marked, built, current, changed>>, pc[p] \notin Linking
        PROVE  changed'[p] <=> Snapshot' # seen[p]
    <3>1. Snapshot' = Snapshot
      BY <2>3 DEF Snapshot, Complete
    <3>2. Differs(p) => Snapshot # seen[p]
      BY DEF Snapshot, Differs
    <3> QED
      BY <2>2, <2>3, <3>1, <3>2 DEF Noted
  <2>4. Cleaning \cap Linking = {} /\ "link" \notin Linking
    BY DEF Linking, Cleaning
  <2>5. CASE CheckLink(p)
    <3>1. UNCHANGED changed
      BY <2>1, <2>2, <2>5 DEF CheckLink, Goto, End, Works, TypeOK, RunTyped
    <3> QED
      BY <2>3, <2>4, <2>5, <3>1 DEF CheckLink, disk, tree
  <2>6. CASE CreateLink(p) \/ RenameTmp(p)
    <3>1. pc[p] \in Linking /\ changed' = changed
      BY <2>6 DEF CreateLink, RenameTmp, Linking
    <3>2. current' = task[p].release
      BY <2>1, <2>2, <2>6 DEF CreateLink, RenameTmp, Replace, Ready, End, TypeOK, RunTyped
    <3>3. changed[p] /\ current' # seen[p].current
      BY <2>2, <3>1, <3>2 DEF Noted
    <3> QED
      BY <3>1, <3>3 DEF Snapshot
  <2>7. CASE ListReleases(p)
    BY <2>3, <2>4, <2>7 DEF ListReleases, disk, tree, Cleaning
  <2>8. CASE pc[p] = "old"
    <3>1. UNCHANGED changed
      BY <2>1, <2>8 DEF RemoveOld, Delete, End, Break, Passed, TypeOK
    <3> QED
      BY <2>1, <2>3, <2>4, <2>8, <3>1 DEF tree, Cleaning
  <2> QED
    <3>1. ~End(p, "failed") /\ \A c \in Working : ~Goto(p, c)
      <4>1. "idle" \notin Working
        BY DEF Working, Linking, Cleaning
      <4> QED
        BY <2>1, <4>1 DEF End, Goto, TypeOK, RunTyped
    <3>2. {"link", "symlink", "rename", "unfinished", "old"} \subseteq Working
      BY DEF Working, Linking, Cleaning
    <3>3. ~Unmark(p) /\ ~UnlinkTmp(p) /\ ~SymlinkTmp(p) /\ ~ListBuilds(p)
      BY <3>1, <3>2 DEF Unmark, UnlinkTmp, SymlinkTmp, ListBuilds
    <3>4. ~SortReleases(p)
      BY <2>2, <3>1, <3>2 DEF SortReleases, Break, Works
    <3>5. ~RemoveUnfinished(p)
      BY <2>1, <3>1 DEF RemoveUnfinished, Delete, Break, Passed
    <3>6. ~Present(p) /\ ~Absent(p) /\ ~\E t \in Task : Start(p, t)
      BY <2>2 DEF Present, Absent, Start, Works, Working, Linking, Cleaning
    <3>7. RemoveOld(p) => pc[p] = "old"
      BY DEF RemoveOld
    <3> QED
      BY <2>1, <2>5, <2>6, <2>7, <2>8, <3>3, <3>4, <3>5, <3>6, <3>7 DEF Step
<1> QED
  BY <1>1, Pruning, RunsAreReady, PTL DEF Spec, ChangedIsTruthful
=============================================================================

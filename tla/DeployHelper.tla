----------------------------- MODULE DeployHelper -----------------------------
(***************************************************************************)
(* The deploy_helper module (plugins/modules/deploy_helper.py): the        *)
(* releases of a project, each a directory, and the symbolic link          *)
(* 'current' to the one that is served.  Runs of the module (state         *)
(* present, finalize, clean, absent) work on the same directory tree, at   *)
(* the same time if several deployments do, and each step is one of their  *)
(* operations on the file system.                                          *)
(*                                                                         *)
(* Around them (external) the tasks of a play create the directory of a    *)
(* release, mark it with the unfinished file and build it.                 *)
(***************************************************************************)
EXTENDS Naturals, FiniteSets

CONSTANTS
  Runs,         \* the runs that may be active at the same time
  MaxReleases,  \* bound: the releases ever created
  Keeps,        \* the values of keep_releases
  CheckModes,   \* those of check mode
  History,      \* is the history variable kept
  None,         \* no release, no link
  Allowed       \* what is allowed to happen, out of Circumstances

Circumstances ==
  {"crash",      \* a run is killed, or a removal fails half way
   "parallel",   \* several runs, or a run and other tasks, at the same time
   "unmarked",   \* a new directory stays without the unfinished file a while
   "unknown",    \* finalize is given a release that was not built
   "unnamed"}    \* clean is not given the current release

Releases == 1 .. MaxReleases   \* in the order of their creation

ASSUME DeployAssumption ==
  /\ MaxReleases \in Nat
  /\ Keeps \subseteq Nat /\ CheckModes \subseteq BOOLEAN
  /\ History \in BOOLEAN
  /\ None \notin Releases
  /\ Allowed \subseteq Circumstances

VARIABLES
  root,     \* do the project and its releases_path exist
  dirs,     \* the directories under releases_path
  marked,   \* those that contain the unfinished file
  built,    \* those whose content is complete
  older,    \* the pairs of dirs of which the first has the older ctime
  born,     \* the last release created
  current,  \* target of the link current_path
  tmp,      \* target of the link current_path.unfinished_filename
  pc,       \* where each run is
  task,     \* its options
  todo,     \* the directories it still has to look at, or to remove
  changed,  \* does it have changes to report
  status,   \* how it ended
  seen      \* history: the directories and the link when it started

tree == <<dirs, marked, built, older>>
disk == <<root, tree, current, tmp>>
locals == <<task, seen>>
vars == <<disk, born, pc, locals, todo, changed, status>>

Complete == built \ marked
Snapshot == [marked |-> marked, dirs |-> dirs, complete |-> Complete,
             current |-> current]

Task ==
  {t \in [state : {"present", "finalize", "clean", "absent"},
          release : Releases \cup {None},
          clean : BOOLEAN, keep : Keeps, check : CheckModes] :
     /\ t.state = "finalize" => t.release # None
     /\ t.state # "finalize" => t.clean
     /\ t.state \in {"present", "absent"} => t.release = None}

Linking == {"create", "unlink", "symlink", "rename"}
Cleaning == {"list", "unfinished", "sort", "old"}

TypeOK ==
  /\ root \in BOOLEAN
  /\ born \in Nat
  /\ dirs \subseteq 1 .. born
  /\ marked \subseteq dirs /\ built \subseteq dirs
  /\ pc \in [Runs -> {"idle", "unmark", "link", "present", "absent"} \cup Linking \cup Cleaning]
  /\ task \in [Runs -> Task \cup {None}]
  /\ todo \in [Runs -> SUBSET Nat]

Init ==
  /\ root = FALSE /\ dirs = {} /\ marked = {} /\ built = {} /\ older = {}
  /\ born = 0 /\ current = None /\ tmp = None
  /\ pc = [p \in Runs |-> "idle"]
  /\ task = [p \in Runs |-> None]
  /\ todo = [p \in Runs |-> {}]
  /\ changed = [p \in Runs |-> FALSE]
  /\ status = [p \in Runs |-> "none"]
  /\ seen = [p \in Runs |-> None]

-----------------------------------------------------------------------------
(* The file system.                                                        *)

Among(of) == older \cap (of \X of)
ChangedNow(r) == Among(dirs \ {r}) \cup ((dirs \ {r}) \X {r})

(* shutil.rmtree.                                                          *)
RemoveTree(r) ==
  /\ dirs' = dirs \ {r} /\ marked' = marked \ {r} /\ built' = built \ {r}
  /\ older' = Among(dirs \ {r})

(* An rmtree that is interrupted: some of the entries are gone, perhaps    *)
(* the unfinished file, but not the directory.                             *)
RemovePart(r) ==
  /\ built' = built \ {r}
  /\ marked' \in {marked, marked \ {r}}
  /\ older' = ChangedNow(r)
  /\ UNCHANGED dirs

-----------------------------------------------------------------------------
(* A run.                                                                  *)

Goto(p, label) ==
  /\ pc' = [pc EXCEPT ![p] = label]
  /\ UNCHANGED <<status, locals>>
(* Mutant: a change is forgotten.                                          *)
ChangeNot(p) == UNCHANGED changed
Change(p) == changed' = [changed EXCEPT ![p] = TRUE]

Dry(p) == task[p].check

End(p, outcome) ==
  /\ pc' = [pc EXCEPT ![p] = "idle"]
  /\ status' = [status EXCEPT ![p] = outcome]
  /\ task' = [task EXCEPT ![p] = None]
  /\ seen' = [seen EXCEPT ![p] = None]

(* The end of a run that still had directories to look at.                 *)
Break(p, outcome) == End(p, outcome) /\ todo' = [todo EXCEPT ![p] = {}]

AfterLink(p) == IF task[p].clean THEN Goto(p, "list") ELSE End(p, "ok")

Start(p, t) ==
  /\ pc[p] = "idle"
  /\ "parallel" \in Allowed \/ \A q \in Runs : pc[q] = "idle"
  /\ t.state = "finalize" => t.release \in built \/ "unknown" \in Allowed
  /\ t.state = "clean" => t.release = current \/ "unnamed" \in Allowed
  /\ changed' = [changed EXCEPT ![p] = FALSE]
  /\ IF t.state = "finalize" /\ t.keep = 0
       THEN End(p, "failed")
       ELSE /\ task' = [task EXCEPT ![p] = t]
            /\ seen' = [seen EXCEPT ![p] = IF History THEN Snapshot ELSE None]
            /\ pc' = [pc EXCEPT ![p] = CASE t.state = "finalize" -> "unmark"
                                         [] t.state = "clean" -> "list"
                                         [] OTHER -> t.state]
            /\ status' = [status EXCEPT ![p] = "none"]
  /\ UNCHANGED <<disk, born, todo>>

(* remove_unfinished_file.                                                 *)
Unmark(p) ==
  /\ pc[p] = "unmark"
  /\ LET r == task[p].release IN
       IF r \in marked
         THEN /\ Change(p)
              /\ IF Dry(p) THEN UNCHANGED tree
                 ELSE /\ marked' = marked \ {r}
                      /\ older' = ChangedNow(r)
                      /\ UNCHANGED <<dirs, built>>
         ELSE UNCHANGED <<changed, tree>>
  /\ Goto(p, "link")
  /\ UNCHANGED <<root, current, tmp, born, todo>>

(* create_link, up to the tests on the link and on its target.  The target *)
(* is only looked for if a link is already there.                          *)
CheckLink(p) ==
  /\ pc[p] = "link"
  /\ LET r == task[p].release IN
       IF current = r THEN AfterLink(p) /\ UNCHANGED changed
       ELSE /\ Change(p)
            /\ IF Dry(p) THEN AfterLink(p)
               ELSE IF current = None THEN Goto(p, "create")
               ELSE IF r \notin dirs THEN End(p, "failed")
               ELSE Goto(p, "unlink")
  /\ UNCHANGED <<disk, born, todo>>

CreateLink(p) ==
  /\ pc[p] = "create"
  /\ IF root /\ current = None
       THEN current' = task[p].release /\ AfterLink(p)
       ELSE End(p, "failed") /\ UNCHANGED current
  /\ UNCHANGED <<root, tree, tmp, born, todo, changed>>

UnlinkTmp(p) ==
  /\ pc[p] = "unlink"
  /\ tmp' = None
  /\ Goto(p, "symlink")
  /\ UNCHANGED <<root, tree, current, born, todo, changed>>

SymlinkTmp(p) ==
  /\ pc[p] = "symlink"
  /\ IF root /\ tmp = None
       THEN tmp' = task[p].release /\ Goto(p, "rename")
       ELSE End(p, "failed") /\ UNCHANGED tmp
  /\ UNCHANGED <<root, tree, current, born, todo, changed>>

(* os.rename replaces the link in one step.  Mutant: it is removed first.  *)
ReplaceNot == current' = None
Replace == current' = tmp

RenameTmp(p) ==
  /\ pc[p] = "rename"
  /\ IF tmp = None
       THEN End(p, "failed") /\ UNCHANGED current
       ELSE Replace /\ AfterLink(p)
  /\ tmp' = None
  /\ UNCHANGED <<root, tree, born, todo, changed>>

(* remove_unfinished_link looks for a name create_link never uses.  Then   *)
(* the directories are listed for remove_unfinished_builds.                *)
ListBuilds(p) ==
  /\ pc[p] = "list"
  /\ IF root
       THEN todo' = [todo EXCEPT ![p] = dirs] /\ Goto(p, "unfinished")
       ELSE UNCHANGED todo /\ End(p, "failed")
  /\ UNCHANGED <<disk, born, changed>>

Passed(p, r) ==
  /\ todo' = [todo EXCEPT ![p] = @ \ {r}]
  /\ UNCHANGED <<pc, status, locals>>

(* delete_path of a directory that is to go.  A removal that fails ends    *)
(* the run.                                                                *)
Delete(p, r) ==
  IF r \in dirs
    THEN \/ RemoveTree(r) /\ Change(p) /\ Passed(p, r)
         \/ "crash" \in Allowed /\ RemovePart(r) /\ Break(p, "failed") /\ UNCHANGED changed
    ELSE Passed(p, r) /\ UNCHANGED <<tree, changed>>

Unfinished(r) == r \in marked

RemoveUnfinished(p) ==
  /\ pc[p] = "unfinished"
  /\ \E r \in todo[p] :
       IF Unfinished(r) /\ ~Dry(p) THEN Delete(p, r)
       ELSE /\ Passed(p, r)
            /\ changed' = [changed EXCEPT ![p] = @ \/ Unfinished(r)]
            /\ UNCHANGED tree
  /\ UNCHANGED <<root, current, tmp, born>>

(* cleanup: first the directories are listed, all but the reserved one.    *)
(* Mutant: none is reserved.                                               *)
CandidatesUnreserved(p) == dirs
Candidates(p) == dirs \ {task[p].release}

ListReleases(p) ==
  /\ pc[p] = "unfinished" /\ todo[p] = {}
  /\ IF root
       THEN todo' = [todo EXCEPT ![p] = Candidates(p)] /\ Goto(p, "sort")
       ELSE UNCHANGED todo /\ End(p, "ok")
  /\ UNCHANGED <<disk, born, changed>>

(* Of a set of directories, all but the most recently changed ones.        *)
(* Mutant: the slice is off by one.                                        *)
Newer(of, r) == Cardinality({s \in of : <<r, s>> \in older})
OldAndOneMore(of, keep) == {r \in of : Newer(of, r) > keep}
Old(of, keep) == {r \in of : Newer(of, r) >= keep}

(* Then they are sorted by ctime, which fails if one is gone; check mode   *)
(* only counts them.                                                       *)
SortReleases(p) ==
  /\ pc[p] = "sort"
  /\ IF Dry(p)
       THEN /\ changed' = [changed EXCEPT ![p] = @ \/ Cardinality(todo[p]) > task[p].keep]
            /\ Break(p, "ok")
       ELSE /\ IF todo[p] \subseteq dirs
                 THEN todo' = [todo EXCEPT ![p] = Old(todo[p], task[p].keep)] /\ Goto(p, "old")
                 ELSE Break(p, "failed")
            /\ UNCHANGED changed
  /\ UNCHANGED <<disk, born>>

RemoveOld(p) ==
  /\ pc[p] = "old"
  /\ IF todo[p] = {}
       THEN End(p, "ok") /\ UNCHANGED <<tree, todo, changed>>
       ELSE \E r \in todo[p] : Delete(p, r)
  /\ UNCHANGED <<root, current, tmp, born>>

(* state=present: check_link and create_path.                              *)
Present(p) ==
  /\ pc[p] = "present"
  /\ IF root THEN UNCHANGED changed ELSE Change(p)
  /\ root' = (root \/ ~Dry(p))
  /\ End(p, "ok")
  /\ UNCHANGED <<tree, current, tmp, born, todo>>

(* state=absent: the whole project is removed, the link and all.  An rmtree *)
(* that fails half way leaves some of the releases, perhaps one in ruins.  *)
Absent(p) ==
  /\ pc[p] = "absent"
  /\ \/ /\ IF root THEN Change(p) ELSE UNCHANGED changed
        /\ IF Dry(p) THEN UNCHANGED disk
           ELSE /\ root' = FALSE
                /\ dirs' = {} /\ marked' = {} /\ built' = {} /\ older' = {}
                /\ current' = None /\ tmp' = None
        /\ End(p, "ok")
     \/ /\ "crash" \in Allowed /\ root /\ ~Dry(p)
        /\ \E gone \in SUBSET dirs : \E ruin \in {{}} \cup {{r} : r \in dirs \ gone} :
             /\ dirs' = dirs \ gone
             /\ built' = built \ (gone \cup ruin)
             /\ marked' \in {marked \ gone, marked \ (gone \cup ruin)}
             /\ older' = Among(dirs' \ ruin) \cup ((dirs' \ ruin) \X ruin)
        /\ current' \in {current, None} /\ tmp' \in {tmp, None}
        /\ End(p, "failed")
        /\ UNCHANGED <<root, changed>>
  /\ UNCHANGED <<born, todo>>

Step(p) ==
  \/ \E t \in Task : Start(p, t)
  \/ Unmark(p)
  \/ CheckLink(p)
  \/ CreateLink(p)
  \/ UnlinkTmp(p)
  \/ SymlinkTmp(p)
  \/ RenameTmp(p)
  \/ ListBuilds(p)
  \/ RemoveUnfinished(p)
  \/ ListReleases(p)
  \/ SortReleases(p)
  \/ RemoveOld(p)
  \/ Present(p)
  \/ Absent(p)

(* External: the run is killed between two operations.                     *)
Killed(p) ==
  /\ "crash" \in Allowed /\ pc[p] # "idle"
  /\ Break(p, "killed")
  /\ UNCHANGED <<disk, born, changed>>

-----------------------------------------------------------------------------
(* External: the other tasks of a play.                                    *)

Others ==
  /\ "parallel" \in Allowed \/ \A p \in Runs : pc[p] = "idle"
  /\ UNCHANGED <<root, current, tmp, pc, locals, todo, changed, status>>

NewRelease ==
  /\ Others
  /\ root /\ born < MaxReleases
  /\ born' = born + 1
  /\ dirs' = dirs \cup {born'}
  /\ older' = ChangedNow(born')
  /\ \/ marked' = marked \cup {born'}
     \/ "unmarked" \in Allowed /\ UNCHANGED marked
  /\ UNCHANGED built

Mark(r) ==
  /\ Others
  /\ r \in dirs \ (built \cup marked)
  /\ marked' = marked \cup {r}
  /\ older' = ChangedNow(r)
  /\ UNCHANGED <<dirs, built, born>>

Build(r) ==
  /\ Others
  /\ r \in marked \ built
  /\ built' = built \cup {r}
  /\ older' = ChangedNow(r)
  /\ UNCHANGED <<dirs, marked, born>>

Next ==
  \/ \E p \in Runs : Step(p) \/ Killed(p)
  \/ NewRelease
  \/ \E r \in Releases : Mark(r) \/ Build(r)

Spec == Init /\ [][Next]_vars

-----------------------------------------------------------------------------
(* Properties.                                                             *)

Removing == \E p \in Runs : pc[p] = "absent"

(* Replacing the link leaves no moment without one (lines 143-144).        *)
CurrentNeverVanishes ==
  [][current # None /\ current' = None => Removing]_vars

(* A run is told a release that was built or, to clean, the one served.    *)
WellTold(p) ==
  /\ task[p].state = "finalize" => task[p].release \in built
  /\ task[p].state = "clean" => task[p].release = current

(* "The 'current' symlink points to one of the releases" (line 142): runs  *)
(* that follow each other set it to a complete release only, and keep that *)
(* release complete for as long as it is linked, be a run killed or a      *)
(* removal interrupted, until the project is removed.  This is of the steps*)
(* of runs that are well told: a clean without the release that is served  *)
(* may remove it (lines 220-239), and a finalize links what it is given.   *)
ServedUntilRemoved ==
  [][(\A p \in Runs : pc[p] # "idle" => WellTold(p)) =>
       /\ ~Removing /\ current \in Complete => current' \in Complete'
       /\ current' \notin {current, None} => current' \in Complete']_vars

(* The last step of a run that cleans.                                     *)
Cleaned(p) ==
  pc[p] = "old" /\ pc'[p] = "idle" /\ status'[p] = "ok"

AtLeast(a, b, keep) == Cardinality(a) >= keep \/ Cardinality(a) >= Cardinality(b)

(* "Any unfinished builds will be deleted first, so only correct releases  *)
(* will count. The current version will not count" (lines 97-98): a run    *)
(* that cleans leaves no unfinished build and, next to the release that is *)
(* named, no more than keep_releases; and no fewer complete ones, if there *)
(* were as many, unless it found the ruin of an interrupted removal, which *)
(* nothing tells from a release, or was not told the one that is served.   *)
CleanKeepsWhatIsAsked ==
  [][\A p \in Runs : Cleaned(p) =>
       /\ marked' = {}
       /\ Cardinality(dirs' \ {task[p].release}) <= task[p].keep
       /\ /\ task[p].release = current'
          /\ seen[p].dirs \subseteq seen[p].marked \cup seen[p].complete
          => AtLeast(Complete' \ {current'}, seen[p].complete \ {current'}, task[p].keep)]_vars

(* 'changed' is reported when the run changed the releases or the link,    *)
(* and only then.                                                          *)
ChangedIsTruthful ==
  [][\A p \in Runs :
       /\ pc[p] # "idle" /\ pc'[p] = "idle" /\ status'[p] = "ok"
       /\ task[p].state \in {"finalize", "clean"} /\ ~task[p].check
       => (changed'[p] <=> Snapshot' # seen[p])]_vars

(* A run in check mode changes nothing.                                    *)
CheckModeIsReadOnly ==
  [][(\E p \in Runs : pc[p] # "idle" /\ task[p].check) => UNCHANGED disk]_vars
=============================================================================

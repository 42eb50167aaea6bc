--------------------------- MODULE IptablesRollback ---------------------------
(***************************************************************************)
(* The "go ahead or rollback" protocol of iptables_state, played with      *)
(* async > 0 and poll = 0.  Three parties: the action plugin on the        *)
(* controller (plugins/action/iptables_state.py), the asynchronous job it  *)
(* leaves on the host (plugins/modules/iptables_state.py), and two files   *)
(* of the host they synchronise with, at a path that is the same for all   *)
(* runs: 'back' holds the rules to go back to, and removing it confirms    *)
(* the new ones; 'starter' tells the job it may apply them.                *)
(*                                                                         *)
(* Time is in seconds.  A party that is neither idle nor waiting for the   *)
(* starter has a countdown: a sleep lasts until it is 0, any other step    *)
(* happens at the latest when it is 0.                                     *)
(***************************************************************************)
EXTENDS Integers

CONSTANTS
  Rules,       \* the rulesets
  Bad,         \* those under which the host accepts no new connection
  Stateful,    \* those of Bad that leave the open connections alone
  NoFile,      \* the file does not exist
  MaxTimeout,  \* ansible_timeout (max_timeout in the source)
  Async,       \* the task attribute async (task_async, _timeout)
  MaxStart,    \* longest time from the launch of the job to its wait
  MaxApply,    \* longest time a run of iptables-restore takes
  MaxNet,      \* longest time a command takes to reach a reachable host
  MaxJobs,     \* bound: the runs of the task
  Faults       \* what may go wrong

AllFaults == {"early",       \* the job fails before it waits for the starter
              "lock",        \* iptables-restore finds the xtables lock held
              "save",        \* SAVECOMMAND fails
              "controller",  \* the controller dies
              "overlap"}     \* a run starts while the job of another lives

ASSUME RollbackAssumption ==
  /\ NoFile \notin Rules
  /\ Bad \subseteq Rules /\ Stateful \subseteq Bad
  /\ MaxTimeout \in Nat \ {0} /\ Async \in Nat \ {0}
  /\ MaxStart \in Nat /\ MaxApply \in Nat /\ MaxNet \in Nat
  /\ MaxJobs \in Nat \ {0}
  /\ Faults \subseteq AllFaults

VARIABLES
  fw,         \* the rules in force on the host
  back,       \* the backup file
  starter,    \* does the starter file exist
  jpc,        \* where each job is
  jtimer,     \* its countdown
  left,       \* its remaining looks at the backup
  target,     \* the rules it is to restore
  prior,      \* history: the rules when it took its backup
  res,        \* its result
  cur,        \* the job of the current (or last) run of the controller
  cpc,        \* where the controller is
  ctimer,     \* its countdown
  conn,       \* the controller holds an open connection to the host
  hang,       \* its current command gets no answer, connecting or rejected
  finished,   \* what the early status query said
  tries,      \* iterations of the confirmation loop
  polls,      \* remaining iterations of _async_result
  verdict     \* the outcome of the run for the user

files == <<back, starter>>
host == <<fw, back, starter>>
jobs == <<jpc, jtimer, left, prior, res>>
control == <<cur, cpc, ctimer, conn, hang, finished, tries, polls,
             verdict, target>>
vars == <<host, jobs, control>>

Jobs == 1 .. MaxJobs
Good == Rules \ Bad
Later(a, b) == IF a > b THEN a ELSE b
Sooner(a, b) == IF a < b THEN a ELSE b
Longest == Later(Async, MaxTimeout)
Window == 0 .. Later(Later(MaxTimeout, MaxNet), 1)

JobStates == {"none", "starting", "waiting", "seen", "applying", "polling",
              "rollback", "removing", "done"}
Commands == {"early", "touch", "confirm", "poll", "cleanup"}
Verdicts == {"none", "ok", "failed", "unfinished", "unreachable", "lost"}

TypeOK ==
  /\ fw \in Rules /\ back \in Rules \cup {NoFile} /\ starter \in BOOLEAN
  /\ jpc \in [Jobs -> JobStates]
  /\ jtimer \in [Jobs -> 0 .. Later(Later(MaxStart, MaxApply), 1)]
  /\ left \in [Jobs -> 0 .. Async]
  /\ target \in [Jobs -> Rules] /\ prior \in [Jobs -> Rules]
  /\ res \in [Jobs -> {"none", "ok", "failed", "rolledback"}]
  /\ cur \in 0 .. MaxJobs
  /\ cpc \in Commands \cup {"idle", "sleep", "pollsleep"}
  /\ cpc # "idle" => cur \in Jobs
  /\ ctimer \in Window
  /\ conn \in BOOLEAN /\ hang \in BOOLEAN /\ finished \in BOOLEAN
  /\ tries \in 0 .. MaxTimeout
  /\ (cpc \in {"early", "touch"} => tries = 0)
  /\ (cpc = "sleep" => tries < MaxTimeout)
  /\ polls \in 0 .. Longest
  /\ (cpc = "poll" => polls > 0)
  /\ verdict \in Verdicts

Init ==
  /\ fw \in Good
  /\ back = NoFile /\ starter = FALSE
  /\ jpc = [j \in Jobs |-> "none"]
  /\ jtimer = [j \in Jobs |-> 0]
  /\ left = [j \in Jobs |-> 0]
  /\ target = [j \in Jobs |-> fw] /\ prior = [j \in Jobs |-> fw]
  /\ res = [j \in Jobs |-> "none"]
  /\ cur = 0
  /\ cpc = "idle" /\ ctimer = 0
  /\ conn = FALSE /\ hang = FALSE /\ finished = FALSE
  /\ tries = 0 /\ polls = 0
  /\ verdict = "none"

-----------------------------------------------------------------------------
(* The job on the host.                                                    *)

Step(j, pc, time) ==
  /\ jpc' = [jpc EXCEPT ![j] = pc]
  /\ jtimer' = [jtimer EXCEPT ![j] = time]

End(j, outcome) ==
  /\ Step(j, "done", 0)
  /\ res' = [res EXCEPT ![j] = outcome]
  /\ UNCHANGED <<left, prior>>

(* The job waits for the starter.                                          *)
Wait(j) == Step(j, "waiting", 0)

(* Options, tests of the source, and the backup of the rules in force.     *)
Prepare(j) ==
  /\ jpc[j] = "starting"
  /\ \/ /\ back' = fw
        /\ prior' = [prior EXCEPT ![j] = fw]
        /\ Wait(j)
        /\ UNCHANGED <<left, res>>
     \/ /\ "early" \in Faults
        /\ back' \in {back, fw}
        /\ End(j, "failed")
  /\ UNCHANGED <<fw, starter, control>>

(* The loop on os.path.exists(b_starter) ...                               *)
SeeStarter(j) ==
  /\ jpc[j] = "waiting"
  /\ starter
  /\ Step(j, "seen", 0)
  /\ UNCHANGED <<host, left, prior, res, control>>

(* ... and os.remove(b_starter), which raises when it is gone.             *)
RemoveStarter(j) ==
  /\ jpc[j] = "seen"
  /\ starter' = FALSE
  /\ IF starter THEN /\ Step(j, "applying", MaxApply)
                     /\ UNCHANGED <<left, prior, res>>
                ELSE End(j, "failed")
  /\ UNCHANGED <<fw, back, control>>

(* MAINCOMMAND, SAVECOMMAND, and into the loop on the backup.  A job that  *)
(* fails on the busy lock may have restored the rules (see IptablesState). *)
Apply(j) ==
  /\ jpc[j] = "applying"
  /\ \/ /\ fw' = target[j]
        /\ \/ /\ Step(j, "polling", 0)
              /\ left' = [left EXCEPT ![j] = Async]
              /\ UNCHANGED <<prior, res>>
           \/ Faults \cap {"lock", "save"} # {} /\ End(j, "failed")
     \/ "lock" \in Faults /\ End(j, "failed") /\ UNCHANGED fw
  /\ UNCHANGED <<files, control>>

(* The loop is over range(_timeout).  Mutant: it never ends.               *)
CountLookNot(j) == UNCHANGED left
CountLook(j) == left' = [left EXCEPT ![j] = left[j] - 1]

LooksRemain(j) == left[j] > 0

(* One look at the backup: confirmed if it is gone, else sleep a second.   *)
LookAtBackup(j) ==
  /\ jpc[j] = "polling" /\ jtimer[j] = 0 /\ LooksRemain(j)
  /\ IF back = NoFile
       THEN End(j, "ok")
       ELSE /\ Step(j, "polling", 1)
            /\ CountLook(j)
            /\ UNCHANGED <<prior, res>>
  /\ UNCHANGED <<host, control>>

(* The loop is over; the backup is not looked at again.                    *)
GiveUp(j) ==
  /\ jpc[j] = "polling" /\ jtimer[j] = 0 /\ ~LooksRemain(j)
  /\ Step(j, "rollback", MaxApply)
  /\ UNCHANGED <<host, left, prior, res, control>>

(* BACKCOMMAND, with check_rc.  Mutant: it restores nothing.               *)
BackCommandNot == UNCHANGED fw
BackCommand == fw' = back

RestoreBackup(j) ==
  /\ jpc[j] = "rollback"
  /\ \/ /\ back # NoFile
        /\ BackCommand
        /\ Step(j, "removing", 0)
        /\ UNCHANGED <<left, prior, res>>
     \/ /\ back # NoFile /\ "lock" \in Faults
        /\ BackCommand \/ UNCHANGED fw
        /\ End(j, "failed")
     \/ /\ back = NoFile
        /\ End(j, "failed")
        /\ UNCHANGED fw
  /\ UNCHANGED <<files, control>>

(* os.remove(b_back), which raises when it is gone; SAVECOMMAND; fail_json. *)
RemoveBackup(j) ==
  /\ jpc[j] = "removing"
  /\ back' = NoFile
  /\ \/ back # NoFile /\ End(j, "rolledback")
     \/ (back = NoFile \/ "save" \in Faults) /\ End(j, "failed")
  /\ UNCHANGED <<fw, starter, control>>

JobStep(j) ==
  \/ Prepare(j)
  \/ SeeStarter(j)
  \/ RemoveStarter(j)
  \/ Apply(j)
  \/ LookAtBackup(j)
  \/ GiveUp(j)
  \/ RestoreBackup(j)
  \/ RemoveBackup(j)

Live(j) == jpc[j] \notin {"none", "done"}

-----------------------------------------------------------------------------
(* The controller.                                                         *)

(* A command gets through on an open connection, or on a new one.          *)
Usable == fw \in Good \/ (conn /\ fw \in Stateful)

Answered(command) ==
  /\ cpc = command
  /\ Usable
  /\ hang' = FALSE
  /\ UNCHANGED <<host, jobs, target, cur>>

(* AnsibleConnectionFailure: at once, or when the connection times out.    *)
Refused(command) ==
  /\ cpc = command
  /\ IF hang THEN ctimer = 0 ELSE ~Usable
  /\ hang' = FALSE
  /\ conn' = FALSE
  /\ UNCHANGED <<host, jobs, target, cur>>

Goto(pc, time) == cpc' = pc /\ ctimer' = time

(* The job is started; Ansible had to reach the host for that.             *)
Launch(r) ==
  /\ cpc = "idle" /\ cur < MaxJobs /\ fw \in Good
  /\ "overlap" \in Faults \/ \A j \in Jobs : ~Live(j)
  /\ cur' = cur + 1
  /\ jpc' = [jpc EXCEPT ![cur + 1] = "starting"]
  /\ jtimer' = [jtimer EXCEPT ![cur + 1] = MaxStart]
  /\ target' = [target EXCEPT ![cur + 1] = r]
  /\ Goto("early", MaxNet)
  /\ conn' = TRUE /\ hang' = FALSE /\ finished' = FALSE
  /\ tries' = 0 /\ polls' = 0
  /\ verdict' = "none"
  /\ UNCHANGED <<host, left, prior, res>>

(* The early status: one query, to catch a job that failed already.        *)
QueryEarly ==
  /\ Answered("early")
  /\ finished' = (jpc[cur] = "done")
  /\ Goto("touch", MaxNet)
  /\ UNCHANGED <<conn, tries, polls, verdict>>

(* Mutant: a rollback is not reported as a failure.                        *)
OutcomeOfRollback == IF res[cur] = "failed" THEN "failed" ELSE "ok"
Outcome == IF res[cur] = "ok" THEN "ok" ELSE "failed"

(* starter_cmd, the reset, and confirm_cmd: rm -f of the backup, which     *)
(* succeeds whether or not the file is there.  Mutants: one is forgotten.  *)
StarterCmd == starter' = TRUE

ResetNot == UNCHANGED conn
Reset == conn' = FALSE

ConfirmCmdNot == UNCHANGED back
ConfirmCmd == back' = NoFile

(* The starter is touched whatever the early status said.  If the job is   *)
(* still there the connection is reset and the confirmation loop entered.  *)
TouchStarter ==
  /\ cpc = "touch" /\ Usable
  /\ StarterCmd
  /\ hang' = FALSE
  /\ IF finished
       THEN /\ Goto("cleanup", MaxNet)
            /\ verdict' = Outcome
            /\ UNCHANGED conn
       ELSE /\ Goto("sleep", 1)
            /\ Reset
            /\ UNCHANGED verdict
  /\ UNCHANGED <<fw, back, jobs, target, cur, finished, tries, polls>>

Sleep ==
  /\ cpc = "sleep" /\ ctimer = 0
  /\ Goto("confirm", MaxNet)
  /\ tries' = tries + 1
  /\ UNCHANGED <<host, jobs, target, cur, conn, hang, finished, polls, verdict>>

(* remaining_time: each iteration takes a second of it.                    *)
Remaining == Longest - tries

StartPolling ==
  /\ Goto("poll", MaxNet)
  /\ polls' = Later(1, Remaining)

Confirm ==
  /\ cpc = "confirm" /\ Usable
  /\ ConfirmCmd
  /\ conn' = TRUE /\ hang' = FALSE
  /\ StartPolling
  /\ UNCHANGED <<fw, starter, jobs, target, cur, finished, tries,
                 verdict>>

(* The next iteration, or the end of the loop.                             *)
NotConfirmed ==
  /\ Refused("confirm")
  /\ IF tries < MaxTimeout
       THEN Goto("sleep", 1) /\ UNCHANGED polls
       ELSE StartPolling
  /\ UNCHANGED <<finished, tries, verdict>>

(* The loop of _async_result.  Mutant: it never ends.                      *)
CountPollNot == UNCHANGED polls
CountPoll == polls' = polls - 1

(* _async_result: a job that is not finished when the iterations are over  *)
(* has its last status returned all the same.                              *)
QueryStatus ==
  /\ Answered("poll")
  /\ conn' = TRUE
  /\ IF jpc[cur] = "done"
       THEN /\ verdict' = Outcome
            /\ Goto("cleanup", MaxNet)
            /\ UNCHANGED polls
       ELSE /\ CountPoll
            /\ Goto("pollsleep", Sooner(1, Remaining))
            /\ UNCHANGED verdict
  /\ UNCHANGED <<finished, tries>>

PollAgain ==
  /\ cpc = "pollsleep" /\ ctimer = 0
  /\ IF polls > 0
       THEN Goto("poll", MaxNet) /\ UNCHANGED verdict
       ELSE Goto("cleanup", MaxNet) /\ verdict' = "unfinished"
  /\ UNCHANGED <<host, jobs, target, cur, conn, hang, finished, tries,
                 polls>>

Cleanup ==
  /\ Answered("cleanup")
  /\ Goto("idle", 0)
  /\ UNCHANGED <<conn, finished, tries, polls, verdict>>

(* Nothing catches the connection failure of the other commands.           *)
Unreachable ==
  /\ \E command \in Commands \ {"confirm"} : Refused(command)
  /\ Goto("idle", 0)
  /\ verdict' = "unreachable"
  /\ UNCHANGED <<finished, tries, polls>>

(* External: with dropped packets a command may hang instead, for as long  *)
(* as ansible_timeout, and get through if the host is freed meanwhile.     *)
Hang ==
  /\ cpc \in Commands /\ ~Usable /\ ~hang
  /\ hang' = TRUE
  /\ ctimer' = MaxTimeout
  /\ UNCHANGED <<host, jobs, target, cur, cpc, conn, finished, tries,
                 polls, verdict>>

ControllerStep ==
  \/ QueryEarly
  \/ TouchStarter
  \/ Sleep
  \/ Confirm
  \/ NotConfirmed
  \/ QueryStatus
  \/ PollAgain
  \/ Cleanup
  \/ Unreachable
  \/ Hang

(* External: the controller is interrupted.                                *)
ControllerDies ==
  /\ "controller" \in Faults
  /\ cpc # "idle"
  /\ Goto("idle", 0)
  /\ verdict' = "lost"
  /\ conn' = FALSE /\ hang' = FALSE
  /\ UNCHANGED <<host, jobs, target, cur, finished, tries, polls>>

-----------------------------------------------------------------------------
(* The clock.                                                              *)

(* A job or a controller whose countdown is at 0 steps before time passes; *)
(* the job looks for the starter every 10 ms.                              *)
JobWaits(j) == ~Live(j) \/ (jpc[j] = "waiting" /\ ~starter)

Down(t) == IF t > 0 THEN t - 1 ELSE 0

Tick ==
  /\ \A j \in Jobs : JobWaits(j) \/ jtimer[j] > 0
  /\ cpc = "idle" \/ ctimer > 0
  /\ ctimer > 0 \/ \E j \in Jobs : jtimer[j] > 0
  /\ ctimer' = Down(ctimer)
  /\ jtimer' = [j \in Jobs |-> Down(jtimer[j])]
  /\ UNCHANGED <<host, jpc, left, prior, res, target, cur, cpc, conn, hang,
                 finished, tries, polls, verdict>>

Next ==
  \/ \E j \in Jobs : JobStep(j)
  \/ \E r \in Rules : Launch(r)
  \/ ControllerStep
  \/ ControllerDies
  \/ Tick

Spec == Init /\ [][Next]_vars

(* A live process makes its next step and time passes; nothing is assumed  *)
(* of new runs or of faults.                                               *)
Fairness ==
  /\ \A j \in Jobs : WF_vars(JobStep(j))
  /\ WF_vars(ControllerStep)
  /\ WF_vars(Tick)

FairSpec == Spec /\ Fairness

-----------------------------------------------------------------------------
(* Properties.                                                             *)

(* "This module embeds a rollback feature to avoid" the loss of access     *)
(* (module, lines 24-26): whenever no new connection can be made, some job *)
(* is still to look at the backup or restores it, and the backup holds     *)
(* rules that give access again.                                           *)
NeverLockedOut ==
  fw \in Bad => /\ \E j \in Jobs : jpc[j] \in {"polling", "rollback"}
               /\ back \in Good

(* "test existence of the backup file, exit with success if it doesn't     *)
(* exist [...], otherwise, restore iptables from this file and return      *)
(* failure" (module, lines 602-603): when a run is over, a failure means   *)
(* that the rules are again those found, a success that they are the       *)
(* wanted ones.                                                            *)
OutcomeIsTruthful ==
  cpc = "idle" /\ cur > 0 /\ ~Live(cur) =>
    /\ verdict = "failed" => fw = prior[cur]
    /\ verdict = "ok" => fw = target[cur]

(* The rollback is for rules that cut the controller off: rules under      *)
(* which it could reach the host all along are not undone.                 *)
GoodRulesAreKept ==
  \A j \in Jobs : jpc[j] \in {"rollback", "removing"} => target[j] \in Bad

(* "try to remove this cookie on the host through a new connection": the   *)
(* controller never removes a backup from a host that would refuse it one  *)
(* (the purpose of the reset of the connection).                           *)
ConfirmationNeedsAccess ==
  [][cpc = "confirm" /\ cpc' = "poll" /\ back' # back => fw \in Good]_vars

(* A host that lost its access gets it back.                               *)
AccessIsRegained == fw \in Bad ~> fw \in Good

(* A run of the controller ends, whatever the rules did to it.             *)
EveryRunEnds == cpc # "idle" ~> cpc = "idle"

(* The job of a run that was told to go ahead ends.                        *)
ReleasedJobsEnd ==
  \A j \in Jobs : jpc[j] \in {"applying", "polling"} ~> jpc[j] = "done"

(* The protocol implements the guarded change.                             *)
OnProbation ==
  \E j \in Jobs : jpc[j] \in {"polling", "rollback"}

Fallback == IF OnProbation THEN back ELSE NoFile

Guarded == INSTANCE GuardedChange
  WITH rules <- fw, fallback <- Fallback, Nothing <- NoFile

ImplementsGuardedChange == Guarded!Spec

-----------------------------------------------------------------------------
(* Why nobody is locked out of a host that is prompt: the job needs less   *)
(* than a second to get to its wait, and to run iptables-restore, and at   *)
(* worst fails early.                                                      *)
Prompt == MaxStart = 0 /\ MaxApply = 0 /\ Faults \subseteq {"early"}

BeforeMain == {"starting", "waiting", "seen", "applying"}

(* The first second of the confirmation loop is over.                      *)
LoopEntered ==
  \/ cpc = "sleep" /\ (ctimer = 0 \/ tries > 0)
  \/ cpc \in {"confirm", "poll", "pollsleep"}

OneJob == \A j \in Jobs : j # cur => ~Live(j)

BackupIsGood ==
  /\ back \notin Bad
  /\ \A j \in Jobs : jpc[j] \in BeforeMain => fw \in Good /\ jtimer[j] = 0
  /\ \A j \in Jobs : jpc[j] \in BeforeMain \ {"starting"} => back = fw

ReleasedInTime ==
  /\ cpc = "sleep" =>
       \A j \in Jobs : jpc[j] \in {"starting", "waiting", "seen"} => starter
  /\ LoopEntered => \A j \in Jobs : jpc[j] \notin BeforeMain

NewConnection == cpc \in {"sleep", "confirm"} => ~conn

(* The inductive invariant: by the time the controller may confirm, the    *)
(* job is past MAINCOMMAND; until then its backup holds the rules in       *)
(* force, which are good.                                                  *)
Protected ==
  OneJob /\ BackupIsGood /\ ReleasedInTime /\ NewConnection /\ NeverLockedOut
=============================================================================

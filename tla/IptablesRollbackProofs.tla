------------------------ MODULE IptablesRollbackProofs ------------------------
(* Proofs about IptablesRollback.                                          *)
EXTENDS IptablesRollback, TLAPS

USE RollbackAssumption

(* A step of a job keeps the types of what it moves.                       *)
LEMMA StepTyped ==
  ASSUME TypeOK, NEW j \in Jobs, NEW pc \in JobStates,
         NEW time \in 0 .. Later(Later(MaxStart, MaxApply), 1), Step(j, pc, time)
  PROVE  /\ jpc' \in [Jobs -> JobStates]
         /\ jtimer' \in [Jobs -> 0 .. Later(Later(MaxStart, MaxApply), 1)]
BY DEF Step, TypeOK

(* So does the end of a job.                                               *)
LEMMA EndTyped ==
  ASSUME TypeOK, NEW j \in Jobs, NEW outcome \in {"ok", "failed", "rolledback"},
         End(j, outcome)
  PROVE  /\ jpc' \in [Jobs -> JobStates]
         /\ jtimer' \in [Jobs -> 0 .. Later(Later(MaxStart, MaxApply), 1)]
         /\ res' \in [Jobs -> {"none", "ok", "failed", "rolledback"}]
         /\ left' = left /\ prior' = prior
BY DEF End, Step, TypeOK, JobStates, Later

(* The longest countdowns are in the windows that bound them.              *)
LEMMA Windows ==
  /\ {0, 1, MaxStart, MaxApply} \subseteq 0 .. Later(Later(MaxStart, MaxApply), 1)
  /\ {0, 1, MaxNet, MaxTimeout} \subseteq Window
  /\ Window \subseteq Nat /\ Longest \in Nat /\ Longest >= MaxTimeout /\ Longest >= Async
BY DEF Later, Window, Longest

(* The iterations of _async_result, and the sleep between two of them.     *)
LEMMA PollsTyped ==
  ASSUME NEW t \in 0 .. MaxTimeout
  PROVE  /\ Later(1, Longest - t) \in 0 .. Longest
         /\ Later(1, Longest - t) > 0
         /\ Sooner(1, Longest - t) \in {0, 1}
<1>1. Longest - t \in 0 .. Longest /\ Longest >= 1
  BY Windows
<1> QED
  BY <1>1 DEF Later, Sooner

(* What a job does leaves every variable with its type.                    *)
LEMMA JobTyped ==
  ASSUME TypeOK, NEW j \in Jobs, JobStep(j)
  PROVE  TypeOK'
<1> USE Windows, StepTyped, EndTyped DEF JobStates
<1>1. CASE Prepare(j)
  BY <1>1 DEF Prepare, Wait, TypeOK, control
<1>2. CASE SeeStarter(j)
  BY <1>2 DEF SeeStarter, TypeOK, host, control
<1>3. CASE RemoveStarter(j)
  BY <1>3 DEF RemoveStarter, TypeOK, control
<1>4. CASE Apply(j)
  BY <1>4 DEF Apply, TypeOK, files, control
<1>5. CASE LookAtBackup(j)
  BY <1>5 DEF LookAtBackup, LooksRemain, CountLook, TypeOK, host, control
<1>6. CASE GiveUp(j)
  BY <1>6 DEF GiveUp, TypeOK, host, control
<1>7. CASE RestoreBackup(j)
  BY <1>7 DEF RestoreBackup, BackCommand, TypeOK, files, control
<1>8. CASE RemoveBackup(j)
  BY <1>8 DEF RemoveBackup, TypeOK, control
<1> QED
  BY <1>1, <1>2, <1>3, <1>4, <1>5, <1>6, <1>7, <1>8 DEF JobStep

(* So does what the controller does.                                       *)
LEMMA ControllerTyped ==
  ASSUME TypeOK, ControllerStep
  PROVE  TypeOK'
<1> USE Windows DEF Goto, Commands, Verdicts
<1>1. CASE QueryEarly
  BY <1>1 DEF QueryEarly, Answered, TypeOK, host, jobs
<1>2. CASE TouchStarter
  <2>1. CASE finished
    BY <1>2, <2>1 DEF TouchStarter, StarterCmd, Outcome, TypeOK, jobs
  <2>2. CASE ~finished
    <3>1. tries = 0 /\ tries < MaxTimeout
      BY <1>2 DEF TouchStarter, TypeOK
    <3>2. cpc' = "sleep" /\ ctimer' = 1 /\ conn' = FALSE /\ verdict' = verdict
      BY <1>2, <2>2 DEF TouchStarter, Reset
    <3> QED
      BY <1>2, <3>1, <3>2 DEF TouchStarter, StarterCmd, TypeOK, jobs
  <2> QED
    BY <2>1, <2>2
<1>3. CASE Sleep
  BY <1>3 DEF Sleep, TypeOK, host, jobs
<1>4. CASE Confirm
  BY <1>4, PollsTyped DEF Confirm, ConfirmCmd, StartPolling, Remaining, TypeOK, jobs
<1>5. CASE NotConfirmed
  BY <1>5, PollsTyped
     DEF NotConfirmed, Refused, StartPolling, Remaining, TypeOK, host, jobs
<1>6. CASE QueryStatus
  <2>1. polls - 1 \in 0 .. Longest
    BY <1>6 DEF QueryStatus, Answered, TypeOK
  <2>2. Sooner(1, Remaining) \in Window
    BY PollsTyped DEF Remaining, TypeOK
  <2> QED
    BY <1>6, <2>1, <2>2 DEF QueryStatus, Answered, CountPoll, Outcome, TypeOK, host, jobs
<1>7. CASE PollAgain
  BY <1>7 DEF PollAgain, TypeOK, host, jobs
<1>8. CASE Cleanup
  BY <1>8 DEF Cleanup, Answered, TypeOK, host, jobs
<1>9. CASE Unreachable
  BY <1>9 DEF Unreachable, Refused, TypeOK, host, jobs
<1>10. CASE Hang
  BY <1>10 DEF Hang, TypeOK, host, jobs
<1> QED
  BY <1>1, <1>2, <1>3, <1>4, <1>5, <1>6, <1>7, <1>8, <1>9, <1>10
     DEF ControllerStep

(* TypeOK is inductive: no countdown, loop counter or file leaves its      *)
(* range, for any delays, any number of runs and any faults.               *)
THEOREM TypeCorrect == Spec => []TypeOK
<1>1. Init => TypeOK
  <2> SUFFICES ASSUME Init PROVE TypeOK
    OBVIOUS
  <2>1. /\ jpc \in [Jobs -> JobStates]
        /\ jtimer \in [Jobs -> 0 .. Later(Later(MaxStart, MaxApply), 1)]
        /\ left \in [Jobs -> 0 .. Async]
        /\ target \in [Jobs -> Rules] /\ prior \in [Jobs -> Rules]
        /\ res \in [Jobs -> {"none", "ok", "failed", "rolledback"}]
    BY Windows DEF Init, Good, JobStates
  <2>2. /\ fw \in Rules /\ back \in Rules \cup {NoFile} /\ starter \in BOOLEAN
        /\ conn \in BOOLEAN /\ hang \in BOOLEAN /\ finished \in BOOLEAN
    BY DEF Init, Good
  <2>3. /\ cur \in 0 .. MaxJobs /\ ctimer \in Window
        /\ tries \in 0 .. MaxTimeout /\ polls \in 0 .. Longest
        /\ cpc = "idle" /\ verdict \in Verdicts
    BY Windows DEF Init, Verdicts
  <2> QED
    BY <2>1, <2>2, <2>3 DEF Init, TypeOK, Commands
<1>2. TypeOK /\ [Next]_vars => TypeOK'
  <2> SUFFICES ASSUME TypeOK, [Next]_vars PROVE TypeOK'
    OBVIOUS
  <2> USE Windows
  <2>1. CASE \E j \in Jobs : JobStep(j)
    BY <2>1, JobTyped
  <2>2. ASSUME NEW r \in Rules, Launch(r) PROVE TypeOK'
    <3>1. cur + 1 \in Jobs
      BY <2>2 DEF Launch, TypeOK, Jobs
    <3>2. /\ cur' \in 0 .. MaxJobs /\ cur' \in Jobs /\ cpc' = "early"
          /\ ctimer' \in Window /\ tries' = 0 /\ polls' = 0 /\ verdict' = "none"
      BY <2>2, <3>1 DEF Launch, Goto, Jobs
    <3>3. /\ jpc' \in [Jobs -> JobStates]
          /\ jtimer' \in [Jobs -> 0 .. Later(Later(MaxStart, MaxApply), 1)]
          /\ target' \in [Jobs -> Rules]
      BY <2>2, <3>1 DEF Launch, TypeOK, JobStates
    <3> QED
      <4>1. conn' \in BOOLEAN /\ hang' \in BOOLEAN /\ finished' \in BOOLEAN
        BY <2>2 DEF Launch
      <4> QED
        BY <2>2, <3>2, <3>3, <4>1 DEF Launch, TypeOK, Commands, Verdicts, host
  <2>3. CASE ControllerStep
    BY <2>3, ControllerTyped
  <2>4. CASE ControllerDies
    BY <2>4 DEF ControllerDies, Goto, TypeOK, Verdicts, host, jobs
  <2>5. CASE Tick
    BY <2>5 DEF Tick, Down, TypeOK, host, Window, Later
  <2>6. CASE UNCHANGED vars
    BY <2>6 DEF TypeOK, vars, host, jobs, control
  <2> QED
    BY <2>1, <2>2, <2>3, <2>4, <2>5, <2>6 DEF Next
<1> QED
  BY <1>1, <1>2, PTL DEF Spec

-----------------------------------------------------------------------------
(* The job that steps is the live one, of the current run.                 *)
LEMMA OthersRest ==
  ASSUME TypeOK, Protected, NEW j \in Jobs, JobStep(j)
  PROVE  /\ Live(j) /\ j = cur
         /\ \A k \in Jobs : k # j => jpc[k] \in {"none", "done"}
<1>1. Live(j)
  BY DEF JobStep, Prepare, SeeStarter, RemoveStarter, Apply, LookAtBackup, GiveUp,
         RestoreBackup, RemoveBackup, Live
<1> QED
  BY <1>1 DEF Protected, OneJob, Live

(* A step of the job moves its own counter only.                           *)
LEMMA StepMoves ==
  ASSUME TypeOK, NEW j \in Jobs, NEW pc, NEW time, Step(j, pc, time)
  PROVE  /\ jpc'[j] = pc /\ jtimer'[j] = time
         /\ \A k \in Jobs : k # j => jpc'[k] = jpc[k]
BY DEF Step, TypeOK

(* The steps of the job keep the protection.                               *)
LEMMA JobProtected ==
  ASSUME Prompt, TypeOK, Protected, NEW j \in Jobs, JobStep(j)
  PROVE  Protected'
<1> USE OthersRest, StepMoves DEF Protected, Live, BeforeMain
<1> DEFINE Same == UNCHANGED <<cur, cpc, ctimer, tries, conn>>
<1>0. Same
  BY DEF JobStep, Prepare, SeeStarter, RemoveStarter, Apply, LookAtBackup, GiveUp,
         RestoreBackup, RemoveBackup, control
<1> USE <1>0
<1>1. CASE Prepare(j)
  BY <1>1 DEF Prepare, Wait, End, OneJob, BackupIsGood, Good, ReleasedInTime,
              LoopEntered, NewConnection, NeverLockedOut
<1>2. CASE SeeStarter(j)
  BY <1>2 DEF SeeStarter, host, OneJob, BackupIsGood, Good, ReleasedInTime,
              LoopEntered, NewConnection, NeverLockedOut
<1>3. CASE RemoveStarter(j)
  BY <1>3 DEF RemoveStarter, End, OneJob, BackupIsGood, Good, ReleasedInTime,
              LoopEntered, NewConnection, NeverLockedOut, Prompt
<1>4. CASE Apply(j)
  BY <1>4 DEF Apply, End, files, OneJob, BackupIsGood, Good, ReleasedInTime,
              LoopEntered, NewConnection, NeverLockedOut, Prompt
<1>5. CASE LookAtBackup(j)
  BY <1>5 DEF LookAtBackup, End, host, OneJob, BackupIsGood, Good, ReleasedInTime,
              LoopEntered, NewConnection, NeverLockedOut
<1>6. CASE GiveUp(j)
  BY <1>6 DEF GiveUp, host, OneJob, BackupIsGood, Good, ReleasedInTime,
              LoopEntered, NewConnection, NeverLockedOut
<1>7. CASE RestoreBackup(j)
  BY <1>7 DEF RestoreBackup, BackCommand, End, files, OneJob, BackupIsGood, Good,
              ReleasedInTime, LoopEntered, NewConnection, NeverLockedOut, Prompt,
              TypeOK
<1>8. CASE RemoveBackup(j)
  BY <1>8 DEF RemoveBackup, End, OneJob, BackupIsGood, Good, ReleasedInTime,
              LoopEntered, NewConnection, NeverLockedOut
<1> QED
  BY <1>1, <1>2, <1>3, <1>4, <1>5, <1>6, <1>7, <1>8 DEF JobStep

(* The controller is a party to the protection in three steps: touching    *)
(* the starter, which starts the clock of the confirmation; Sleep, which   *)
(* lets it confirm; and Confirm.                                           *)
LEMMA ControllerProtected ==
  ASSUME TypeOK, Protected, ControllerStep
  PROVE  Protected'
<1> USE DEF Protected, Goto
<1>0. jobs' = jobs /\ cur' = cur /\ fw' = fw
  BY DEF ControllerStep, QueryEarly, Answered, TouchStarter, Sleep, Confirm,
         NotConfirmed, Refused, QueryStatus, PollAgain, Cleanup, Unreachable, Hang,
         host
<1>1. OneJob'
  BY <1>0 DEF OneJob, Live, jobs
<1>2. CASE TouchStarter
  <2>1. (tries = 0 /\ tries' = tries /\ ctimer' # 0) \/ cpc' = "cleanup"
    BY <1>2 DEF TouchStarter, TypeOK
  <2>2. BackupIsGood' /\ NeverLockedOut'
    BY <1>0, <1>2 DEF TouchStarter, BackupIsGood, NeverLockedOut, jobs
  <2>3. starter' /\ cpc' \in {"sleep", "cleanup"} /\ (cpc' = "sleep" => ~conn')
    BY <1>2 DEF TouchStarter, StarterCmd, Reset
  <2>4. ~LoopEntered'
    BY <2>1, <2>3, <1>2 DEF LoopEntered, TouchStarter, TypeOK
  <2> QED
    BY <1>1, <2>2, <2>3, <2>4 DEF ReleasedInTime, NewConnection
<1>3. CASE Confirm
  <2>1. fw \in Good /\ LoopEntered
    BY <1>3 DEF Confirm, Usable, NewConnection, LoopEntered
  <2>2. \A j \in Jobs : jpc'[j] \notin BeforeMain
    BY <1>0, <2>1 DEF ReleasedInTime, jobs
  <2>3. back' = NoFile /\ cpc' = "poll"
    BY <1>3 DEF Confirm, ConfirmCmd, StartPolling
  <2> QED
    BY <1>0, <1>1, <2>1, <2>2, <2>3
       DEF BackupIsGood, NeverLockedOut, ReleasedInTime, NewConnection, Good
<1>4. CASE ~TouchStarter /\ ~Confirm
  <2>1. UNCHANGED <<back, starter>>
    BY <1>4 DEF ControllerStep, QueryEarly, Answered, Sleep, NotConfirmed, Refused,
                QueryStatus, PollAgain, Cleanup, Unreachable, Hang, host
  <2>2. BackupIsGood' /\ NeverLockedOut'
    BY <1>0, <2>1 DEF BackupIsGood, NeverLockedOut, jobs
  <2>3. /\ LoopEntered' => LoopEntered
        /\ cpc' = "sleep" => LoopEntered
        /\ NewConnection'
    BY <1>4 DEF ControllerStep, QueryEarly, Answered, Sleep, NotConfirmed, Refused,
                StartPolling, QueryStatus, PollAgain, Cleanup, Unreachable, Hang,
                LoopEntered, NewConnection, Commands
  <2> QED
    BY <1>0, <1>1, <2>1, <2>2, <2>3 DEF ReleasedInTime, BeforeMain, jobs
<1> QED
  BY <1>2, <1>3, <1>4

(* Time passes only once a released job is past MAINCOMMAND.               *)
LEMMA TickProtected ==
  ASSUME TypeOK, Protected, Tick
  PROVE  Protected'
<1> USE DEF Protected
<1>1. UNCHANGED <<fw, back, starter, jpc, cur, cpc, conn, tries>>
  BY DEF Tick, host
<1>2. \A j \in Jobs : jpc[j] \in BeforeMain => jpc[j] = "waiting" /\ ~starter
  BY DEF Tick, JobWaits, Live, BackupIsGood, BeforeMain
<1>3. BackupIsGood'
  BY <1>1 DEF BackupIsGood, Tick, Down, BeforeMain
<1>4. ReleasedInTime'
  BY <1>1, <1>2 DEF ReleasedInTime, LoopEntered, BeforeMain
<1> QED
  BY <1>1, <1>3, <1>4 DEF OneJob, Live, NewConnection, NeverLockedOut

(* Nobody is locked out of a prompt host: for any rules, timeouts, delays  *)
(* of the network and number of runs, with the connection of the           *)
(* controller surviving or not, rules that refuse it are always about to   *)
(* be replaced by rules that do not.                                       *)
THEOREM Protection == ASSUME Prompt PROVE Spec => []Protected
<1>1. Init => Protected
  <2> SUFFICES ASSUME Init PROVE Protected
    OBVIOUS
  <2> QED
    BY DEF Init, Protected, OneJob, BackupIsGood, ReleasedInTime, NewConnection,
           NeverLockedOut, LoopEntered, BeforeMain, Live, Good
<1>2. TypeOK /\ Protected /\ [Next]_vars => Protected'
  <2> SUFFICES ASSUME TypeOK, Protected, [Next]_vars PROVE Protected'
    OBVIOUS
  <2>1. ASSUME NEW r \in Rules, Launch(r) PROVE Protected'
    <3>1. fw \in Good /\ \A j \in Jobs : ~Live(j)
      BY <2>1 DEF Launch, Prompt
    <3>2. /\ cur + 1 \in Jobs /\ cur' = cur + 1 /\ cpc' = "early"
          /\ jpc' = [jpc EXCEPT ![cur + 1] = "starting"]
          /\ jtimer' = [jtimer EXCEPT ![cur + 1] = 0]
          /\ UNCHANGED <<fw, back, starter>>
      BY <2>1 DEF Launch, Goto, host, Prompt, TypeOK, Jobs
    <3>3. OneJob' /\ \A j \in Jobs : jpc'[j] \in {"starting", "none", "done"}
      BY <3>1, <3>2 DEF OneJob, Live, TypeOK
    <3>4. BackupIsGood'
      BY <3>1, <3>2, <3>3 DEF BackupIsGood, Protected, BeforeMain, TypeOK, Live
    <3> QED
      BY <3>1, <3>2, <3>3, <3>4
         DEF Protected, ReleasedInTime, NewConnection, LoopEntered, NeverLockedOut,
             Good
  <2>2. CASE ControllerDies
    BY <2>2 DEF ControllerDies, Prompt
  <2>3. CASE UNCHANGED vars
    BY <2>3 DEF vars, host, jobs, control, Protected, OneJob, Live, BackupIsGood,
                ReleasedInTime, LoopEntered, NewConnection, NeverLockedOut
  <2> QED
    BY <2>1, <2>2, <2>3, JobProtected, ControllerProtected, TickProtected DEF Next
<1> QED
  BY <1>1, <1>2, TypeCorrect, PTL DEF Spec

(* Rules that cut the controller off are in force only while a job is there*)
(* that will put good ones back.                                           *)
THEOREM NobodyLockedOut == ASSUME Prompt PROVE Spec => []NeverLockedOut
<1>1. Protected => NeverLockedOut
  BY DEF Protected
<1> QED
  BY <1>1, Protection, PTL

-----------------------------------------------------------------------------
(* The steps of the job are tries, withdrawals and stuttering.             *)
LEMMA JobRefines ==
  ASSUME Prompt, TypeOK, Protected, NEW j \in Jobs, JobStep(j)
  PROVE  [Guarded!Next]_Guarded!gvars
<1> USE OthersRest, StepMoves DEF Live
<1> DEFINE Stutter == fw' = fw /\ Fallback' = Fallback
<1>0. Stutter => [Guarded!Next]_Guarded!gvars
  BY DEF Guarded!gvars
<1>1. CASE Prepare(j)
  BY <1>0, <1>1 DEF Prepare, Wait, End, Fallback, OnProbation
<1>2. CASE SeeStarter(j)
  BY <1>0, <1>2 DEF SeeStarter, host, Fallback, OnProbation
<1>3. CASE RemoveStarter(j)
  BY <1>0, <1>3 DEF RemoveStarter, End, Fallback, OnProbation
<1>4. CASE Apply(j)
  <2>1. /\ fw' = target[j] /\ jpc'[j] = "polling" /\ back' = back
    BY <1>4 DEF Apply, files, Prompt
  <2>2. back = fw /\ ~OnProbation
    BY <1>4 DEF Apply, Protected, BackupIsGood, BeforeMain, OnProbation
  <2>3. OnProbation'
    BY <2>1 DEF OnProbation
  <2>4. Guarded!Try(target[j]) /\ target[j] \in Rules
    BY <2>1, <2>2, <2>3 DEF Guarded!Try, Fallback, TypeOK
  <2> QED
    BY <2>4 DEF Guarded!Next
<1>5. CASE LookAtBackup(j)
  BY <1>0, <1>5 DEF LookAtBackup, End, host, Fallback, OnProbation
<1>6. CASE GiveUp(j)
  BY <1>0, <1>6 DEF GiveUp, host, Fallback, OnProbation
<1>7. CASE RestoreBackup(j)
  <2>1. OnProbation /\ ~OnProbation'
    BY <1>7 DEF RestoreBackup, End, OnProbation
  <2>2. CASE back = NoFile
    BY <1>0, <1>7, <2>1, <2>2 DEF RestoreBackup, Fallback
  <2>3. CASE back # NoFile
    <3>1. fw' = back
      BY <1>7, <2>3 DEF RestoreBackup, BackCommand, Prompt
    <3>2. Guarded!Undo
      BY <2>1, <2>3, <3>1 DEF Guarded!Undo, Fallback
    <3> QED
      BY <3>2 DEF Guarded!Next
  <2> QED
    BY <2>2, <2>3
<1>8. CASE RemoveBackup(j)
  BY <1>0, <1>8 DEF RemoveBackup, End, Fallback, OnProbation
<1> QED
  BY <1>1, <1>2, <1>3, <1>4, <1>5, <1>6, <1>7, <1>8 DEF JobStep

(* The confirmation of the controller keeps the rules on probation, if any. *)
LEMMA ControllerRefines ==
  ASSUME TypeOK, Protected, ControllerStep
  PROVE  [Guarded!Next]_Guarded!gvars
<1>1. jpc' = jpc /\ fw' = fw
  BY DEF ControllerStep, QueryEarly, Answered, TouchStarter, Sleep, Confirm,
         NotConfirmed, Refused, QueryStatus, PollAgain, Cleanup, Unreachable, Hang,
         host, jobs
<1>2. CASE Confirm
  <2>1. fw \in Good /\ back' = NoFile
    BY <1>2 DEF Confirm, Usable, ConfirmCmd, Protected, NewConnection
  <2>2. CASE Fallback = NoFile
    BY <1>1, <2>1, <2>2 DEF Fallback, OnProbation, Guarded!gvars
  <2>3. CASE Fallback # NoFile
    BY <1>1, <2>1, <2>3 DEF Fallback, OnProbation, Guarded!Keep, Guarded!Next, Good
  <2> QED
    BY <2>2, <2>3
<1>3. CASE ~Confirm
  <2>1. back' = back
    BY <1>3 DEF ControllerStep, QueryEarly, Answered, TouchStarter, Sleep,
                NotConfirmed, Refused, QueryStatus, PollAgain, Cleanup, Unreachable,
                Hang, host
  <2> QED
    BY <1>1, <2>1 DEF Fallback, OnProbation, Guarded!gvars
<1> QED
  BY <1>2, <1>3

(* The protocol on a prompt host is a guarded change: rules are tried,     *)
(* kept only if the host accepts connections under them, or undone.        *)
THEOREM Implementation == ASSUME Prompt PROVE Spec => ImplementsGuardedChange
<1>1. Init => Guarded!Init
  BY DEF Init, Good, Guarded!Init, Fallback, OnProbation
<1>2. TypeOK /\ Protected /\ [Next]_vars => [Guarded!Next]_Guarded!gvars
  <2> SUFFICES ASSUME TypeOK, Protected, [Next]_vars
               PROVE  [Guarded!Next]_Guarded!gvars
    OBVIOUS
  <2>1. ASSUME NEW r \in Rules, Launch(r) PROVE Fallback' = Fallback /\ fw' = fw
    <3>1. jpc' = [jpc EXCEPT ![cur + 1] = "starting"] /\ cur + 1 \in Jobs
          /\ UNCHANGED <<fw, back>> /\ \A j \in Jobs : ~Live(j)
      BY <2>1 DEF Launch, host, TypeOK, Jobs, Prompt
    <3> QED
      BY <3>1 DEF Fallback, OnProbation, Live, TypeOK
  <2>2. CASE ControllerDies
    BY <2>2 DEF ControllerDies, Prompt
  <2>3. CASE Tick
    BY <2>3 DEF Tick, host, Fallback, OnProbation, Guarded!gvars
  <2>4. CASE UNCHANGED vars
    BY <2>4 DEF vars, host, jobs, Fallback, OnProbation, Guarded!gvars
  <2> QED
    BY <2>1, <2>2, <2>3, <2>4, JobRefines, ControllerRefines DEF Next, Guarded!gvars
<1> QED
  BY <1>1, <1>2, TypeCorrect, Protection, PTL
     DEF Spec, ImplementsGuardedChange, Guarded!Spec

-----------------------------------------------------------------------------
(* The controller enters its confirmation loop with no open connection,    *)
(* and opens none before it confirms; no other step takes it to the        *)
(* polling of the status with a backup less.                               *)
LEMMA ConnectionIsNew ==
  ASSUME NewConnection, [Next]_vars
  PROVE  /\ NewConnection'
         /\ cpc = "confirm" /\ cpc' = "poll" /\ back' # back => fw \in Good
<1> USE DEF Goto, NewConnection
<1>1. ASSUME NEW j \in Jobs, JobStep(j) PROVE cpc' = cpc /\ conn' = conn
  BY <1>1 DEF JobStep, Prepare, SeeStarter, RemoveStarter, Apply, LookAtBackup, GiveUp,
         RestoreBackup, RemoveBackup, control
<1>2. ASSUME NEW r \in Rules, Launch(r) PROVE cpc = "idle" /\ cpc' = "early"
  BY <1>2 DEF Launch
<1>3. CASE Confirm
  BY <1>3 DEF Confirm, StartPolling, Usable
<1>4. CASE ControllerStep /\ ~Confirm
  <2>1. CASE TouchStarter
    BY <2>1 DEF TouchStarter, Reset
  <2>2. CASE ~TouchStarter
    BY <1>4, <2>2 DEF ControllerStep, QueryEarly, Answered, Sleep, NotConfirmed,
                Refused, StartPolling, QueryStatus, PollAgain, Cleanup, Unreachable,
                Hang, Commands, host
  <2> QED
    BY <2>1, <2>2
<1>5. CASE ControllerDies
  BY <1>5 DEF ControllerDies
<1>6. CASE Tick
  BY <1>6 DEF Tick
<1>7. CASE UNCHANGED vars
  BY <1>7 DEF vars, control
<1> QED
  BY <1>1, <1>2, <1>3, <1>4, <1>5, <1>6, <1>7 DEF Next

(* The controller confirms through a new connection only, with any delays, *)
(* any timeouts and any faults: it never removes the backup of a host that *)
(* would not accept one.                                                   *)
THEOREM Access == Spec => ConfirmationNeedsAccess
<1>1. Init => NewConnection
  BY DEF Init, NewConnection
<1>2. NewConnection /\ [Next]_vars => NewConnection'
  BY ConnectionIsNew
<1>3. NewConnection /\ [Next]_vars
        => [cpc = "confirm" /\ cpc' = "poll" /\ back' # back => fw \in Good]_vars
  BY ConnectionIsNew
<1> QED
  BY <1>1, <1>2, <1>3, PTL DEF Spec, ConfirmationNeedsAccess

-----------------------------------------------------------------------------
(* The outcome of a run, on a host that is prompt and where nothing fails, *)
(* when the looks of the job last longer than the first confirmation: a    *)
(* second of sleep and the time of a command, and a second to spare since  *)
(* the look and the confirmation of an instant come in any order.          *)
Punctual == Prompt /\ Faults = {} /\ MaxNet + 2 < Async

(* The starter is there only between its touch and its removal by the job  *)
(* of the run, within an instant.                                          *)
Released ==
  /\ starter => cur > 0 /\ jpc[cur] \in {"starting", "waiting", "seen"}
  /\ cur > 0 /\ jpc[cur] = "seen" => starter
  /\ cur > 0 /\ (starter \/ jpc[cur] = "applying") => cpc = "sleep" /\ ctimer = 1
  /\ cpc \in {"early", "touch"} => jpc[cur] \in {"starting", "waiting"} /\ ~finished

(* The job of good rules looks at the backup for at least as long as the   *)
(* controller may still need to remove it; removed, one look remains.      *)
ConfirmedInTime ==
  cur > 0 /\ target[cur] \in Good =>
    /\ fw \in Good /\ ~hang
    /\ jpc[cur] = "polling" =>
         \/ back = NoFile /\ left[cur] > 0
         \/ cpc = "sleep" /\ left[cur] + jtimer[cur] > ctimer + MaxNet + 1
         \/ cpc = "confirm" /\ left[cur] + jtimer[cur] > ctimer + 1

(* The rules in force, and those in the backup, wherever the job is; a     *)
(* verdict is the result of the job.                                       *)
InForce ==
  cur > 0 =>
    /\ jpc[cur] \in {"waiting", "seen", "applying"} => fw = prior[cur] /\ back = prior[cur]
    /\ jpc[cur] = "polling" => /\ fw = target[cur]
                               /\ back = prior[cur] \/ target[cur] \in Good
    /\ jpc[cur] = "rollback" => /\ target[cur] \in Bad /\ fw = target[cur]
                                /\ back = prior[cur]
    /\ jpc[cur] = "removing" => target[cur] \in Bad /\ fw = prior[cur]
    /\ jpc[cur] = "done" => fw = IF res[cur] = "ok" THEN target[cur] ELSE prior[cur]
    /\ verdict \in {"ok", "failed"} =>
         jpc[cur] = "done" /\ (verdict = "ok" <=> res[cur] = "ok")

OnTime == Released /\ ConfirmedInTime /\ InForce

(* The steps of the job.  Those that could go wrong cannot happen: the     *)
(* starter is there to be removed, the backup of bad rules to be restored. *)
LEMMA JobOnTime ==
  ASSUME Punctual, TypeOK, Protected, OnTime, NEW j \in Jobs, JobStep(j)
  PROVE  OnTime'
<1>0. /\ j = cur /\ cur > 0 /\ MaxApply = 0 /\ Faults = {} /\ MaxNet + 2 < Async
      /\ MaxNet \in Nat /\ Async \in Nat
      /\ UNCHANGED <<cur, cpc, ctimer, hang, finished, verdict, target>>
  <2>1. UNCHANGED <<cur, cpc, ctimer, hang, finished, verdict, target>>
    BY DEF JobStep, Prepare, SeeStarter, RemoveStarter, Apply, LookAtBackup, GiveUp,
           RestoreBackup, RemoveBackup, control
  <2>2. j = cur
    BY OthersRest
  <2> QED
    BY <2>1, <2>2 DEF Punctual, Prompt, Jobs
<1>t. /\ left[j] \in Nat /\ jtimer[j] \in {0, 1} /\ target[j] \in Rules
      /\ ctimer \in Nat /\ j \in DOMAIN left /\ j \in DOMAIN prior /\ j \in DOMAIN res
  BY DEF TypeOK, Punctual, Prompt, Later, Window
<1> USE <1>0, <1>t, StepMoves DEF OnTime
<1>1. CASE Prepare(j)
  <2>1. jpc'[j] = "waiting" /\ back' = fw /\ prior'[j] = fw /\ UNCHANGED <<fw, starter>>
    BY <1>1 DEF Prepare, Wait
  <2> QED
    BY <1>1, <2>1 DEF Prepare, Released, ConfirmedInTime, InForce
<1>2. CASE SeeStarter(j)
  <2>1. jpc'[j] = "seen" /\ UNCHANGED <<fw, back, starter, prior, res>>
    BY <1>2 DEF SeeStarter, host
  <2> QED
    BY <1>2, <2>1 DEF SeeStarter, Released, ConfirmedInTime, InForce
<1>3. CASE RemoveStarter(j)
  <2>1. /\ jpc[j] = "seen" /\ jpc'[j] = "applying" /\ ~starter'
        /\ UNCHANGED <<fw, back, prior, res>>
    BY <1>3 DEF RemoveStarter, Released
  <2> QED
    BY <2>1 DEF Released, ConfirmedInTime, InForce
<1>4. CASE Apply(j)
  <2>1. /\ jpc[j] = "applying" /\ jpc'[j] = "polling" /\ jtimer'[j] = 0
        /\ fw' = target[j] /\ left'[j] = Async /\ UNCHANGED <<back, starter, prior, res>>
    BY <1>4 DEF Apply, files
  <2>2. Released'
    BY <2>1 DEF Released
  <2>3. InForce'
    BY <2>1 DEF InForce
  <2>4. ConfirmedInTime'
    BY <2>1 DEF ConfirmedInTime, Released
  <2> QED
    BY <2>2, <2>3, <2>4
<1>5. CASE LookAtBackup(j)
  <2>1. CASE back = NoFile
    <3>1. /\ jpc[j] = "polling" /\ jpc'[j] = "done" /\ res'[j] = "ok"
          /\ UNCHANGED <<fw, back, starter, prior>>
      BY <1>5, <2>1 DEF LookAtBackup, End, host
    <3> QED
      BY <3>1 DEF Released, ConfirmedInTime, InForce
  <2>2. CASE back # NoFile
    <3>1. /\ jpc[j] = "polling" /\ jpc'[j] = "polling" /\ jtimer'[j] = 1 /\ jtimer[j] = 0
          /\ left'[j] = left[j] - 1
          /\ UNCHANGED <<fw, back, starter, prior, res>>
      BY <1>5, <2>2 DEF LookAtBackup, CountLook, host
    <3> QED
      BY <2>2, <3>1 DEF Released, ConfirmedInTime, InForce
  <2> QED
    BY <2>1, <2>2
<1>6. CASE GiveUp(j)
  <2>1. /\ jpc[j] = "polling" /\ jpc'[j] = "rollback" /\ left[j] = 0 /\ jtimer[j] = 0
        /\ UNCHANGED <<fw, back, starter, prior, res>>
    BY <1>6 DEF GiveUp, LooksRemain, host
  <2>2. target[j] \in Bad
    BY <2>1 DEF ConfirmedInTime, Good
  <2> QED
    BY <2>1, <2>2 DEF Released, ConfirmedInTime, InForce, Good
<1>7. CASE RestoreBackup(j)
  <2>1. jpc[j] = "rollback" /\ back = prior[j] /\ prior[j] \in Rules
    BY <1>7 DEF RestoreBackup, InForce, TypeOK
  <2>2. /\ jpc'[j] = "removing" /\ fw' = back
        /\ UNCHANGED <<back, starter, prior, res>>
    BY <1>7, <2>1 DEF RestoreBackup, BackCommand, files
  <2> QED
    BY <2>1, <2>2 DEF Released, ConfirmedInTime, InForce, Good
<1>8. CASE RemoveBackup(j)
  <2>1. /\ jpc[j] = "removing" /\ jpc'[j] = "done" /\ res'[j] # "ok"
        /\ UNCHANGED <<fw, starter, prior>>
    BY <1>8 DEF RemoveBackup, End
  <2> QED
    BY <2>1 DEF Released, ConfirmedInTime, InForce, Good
<1> QED
  BY <1>1, <1>2, <1>3, <1>4, <1>5, <1>6, <1>7, <1>8 DEF JobStep

(* The steps of the controller.                                            *)
LEMMA ControllerOnTime ==
  ASSUME Punctual, TypeOK, Protected, OnTime, ControllerStep
  PROVE  OnTime'
<1> USE DEF OnTime, Goto
<1>0. /\ UNCHANGED <<fw, jpc, jtimer, left, prior, res, cur, target>>
      /\ MaxNet \in Nat /\ ctimer \in Nat
      /\ cpc # "idle" /\ cur \in Jobs /\ cur > 0
      /\ jtimer[cur] \in {0, 1} /\ left[cur] \in Nat
  <2>1. cpc # "idle"
    BY DEF ControllerStep, QueryEarly, Answered, TouchStarter, Sleep, Confirm,
         NotConfirmed, Refused, QueryStatus, PollAgain, Cleanup, Unreachable, Hang,
         Commands
  <2>2. UNCHANGED <<fw, jpc, jtimer, left, prior, res, cur, target>>
    BY DEF ControllerStep, QueryEarly, Answered, TouchStarter, Sleep, Confirm,
         NotConfirmed, Refused, QueryStatus, PollAgain, Cleanup, Unreachable, Hang,
         host, jobs
  <2>3. /\ cur \in Jobs /\ ctimer \in Nat
        /\ jtimer[cur] \in {0, 1} /\ left[cur] \in Nat
    BY <2>1 DEF TypeOK, Punctual, Prompt, Later, Window
  <2> QED
    BY <2>1, <2>2, <2>3 DEF Jobs
<1> USE <1>0
<1>1. CASE TouchStarter
  <2>1. /\ cpc = "touch" /\ ~finished /\ starter' /\ cpc' = "sleep" /\ ctimer' = 1
        /\ ~hang' /\ UNCHANGED <<back, finished, verdict>>
    BY <1>1 DEF TouchStarter, StarterCmd, Reset, Released
  <2> QED
    BY <2>1 DEF Released, ConfirmedInTime, InForce
<1>2. CASE Sleep
  <2>1. /\ cpc = "sleep" /\ ctimer = 0 /\ cpc' = "confirm" /\ ctimer' = MaxNet
        /\ UNCHANGED <<back, starter, hang, finished, verdict>>
    BY <1>2 DEF Sleep, host
  <2> QED
    BY <2>1 DEF Released, ConfirmedInTime, InForce
<1>3. CASE Confirm
  <2>1. /\ cpc = "confirm" /\ fw \in Good /\ back' = NoFile /\ cpc' = "poll"
        /\ ~hang' /\ UNCHANGED <<starter, finished, verdict>>
    BY <1>3 DEF Confirm, ConfirmCmd, StartPolling, Usable, Protected, NewConnection
  <2>2. jpc[cur] \notin BeforeMain
    BY <2>1 DEF Protected, ReleasedInTime, LoopEntered
  <2>3. jpc[cur] # "rollback" /\ (jpc[cur] = "polling" => target[cur] \in Good)
    BY <2>1 DEF InForce, Good
  <2>4. jpc[cur] = "polling" => left[cur] > 0
    BY <2>1, <2>3 DEF ConfirmedInTime
  <2> QED
    BY <2>1, <2>2, <2>3, <2>4 DEF Released, ConfirmedInTime, InForce, BeforeMain
<1>4. CASE NotConfirmed
  <2>1. cpc = "confirm" /\ ~hang' /\ cpc' \in {"sleep", "poll"}
        /\ UNCHANGED <<back, starter, finished, verdict>>
    BY <1>4 DEF NotConfirmed, Refused, StartPolling, host
  <2>2. target[cur] \notin Good
    BY <1>4 DEF NotConfirmed, Refused, ConfirmedInTime, Usable
  <2> QED
    BY <2>1, <2>2 DEF Released, ConfirmedInTime, InForce
<1>5. CASE Hang
  <2>1. cpc' = cpc /\ UNCHANGED <<back, starter, finished, verdict>>
    BY <1>5 DEF Hang, host
  <2>2. target[cur] \notin Good /\ cpc # "sleep"
    BY <1>5 DEF Hang, ConfirmedInTime, Usable, Commands
  <2> QED
    BY <2>1, <2>2 DEF Released, ConfirmedInTime, InForce
<1>6. CASE QueryEarly \/ QueryStatus \/ PollAgain \/ Cleanup \/ Unreachable
  <2>1. /\ cpc \notin {"sleep", "confirm"} /\ UNCHANGED <<back, starter>>
        /\ (cpc' = "touch" /\ cpc = "early" /\ finished' = (jpc[cur] = "done"))
             \/ cpc' \notin {"sleep", "confirm", "early", "touch"}
        /\ hang' => hang
    BY <1>6 DEF QueryEarly, Answered, QueryStatus, PollAgain, Cleanup, Unreachable,
         Refused, Commands, host
  <2>2. \/ verdict' \in {verdict, "unfinished", "unreachable"}
        \/ jpc[cur] = "done" /\ verdict' = Outcome
    BY <1>6 DEF QueryEarly, Answered, QueryStatus, PollAgain, Cleanup, Unreachable
  <2>3. Released' /\ ConfirmedInTime'
    BY <2>1 DEF Released, ConfirmedInTime
  <2> QED
    BY <2>1, <2>2, <2>3 DEF InForce, Outcome
<1> QED
  BY <1>1, <1>2, <1>3, <1>4, <1>5, <1>6 DEF ControllerStep

(* A second passes for the job and for the controller alike.               *)
LEMMA TickOnTime ==
  ASSUME Punctual, TypeOK, Protected, OnTime, Tick
  PROVE  OnTime'
<1> USE DEF OnTime
<1>1. /\ UNCHANGED <<fw, back, starter, jpc, left, prior, res, target, cur, cpc,
                    hang, finished, verdict>>
      /\ ctimer \in Nat /\ MaxNet \in Nat
  BY DEF Tick, host, TypeOK, Window, Later
<1>2. CASE cur = 0
  BY <1>1, <1>2 DEF Released, ConfirmedInTime, InForce, TypeOK
<1>3. CASE cur > 0
  <2>1. cur \in Jobs /\ left[cur] \in Nat /\ jtimer[cur] \in {0, 1}
    BY <1>3 DEF TypeOK, Punctual, Prompt, Later, Jobs
  <2>2. ~starter /\ jpc[cur] # "applying"
    <3>1. jpc[cur] \in BeforeMain => jpc[cur] = "waiting" /\ ~starter
      BY <2>1 DEF Tick, JobWaits, Live, Protected, BackupIsGood, BeforeMain
    <3> QED
      BY <3>1 DEF Released, BeforeMain
  <2>3. jpc[cur] = "polling" /\ cpc # "idle" =>
          /\ jtimer[cur] = 1 /\ jtimer'[cur] = 0
          /\ ctimer > 0 /\ ctimer' = ctimer - 1
    BY <1>1, <2>1 DEF Tick, JobWaits, Live, Down
  <2>4. Released' /\ InForce'
    BY <1>1, <1>3, <2>1, <2>2 DEF Released, InForce
  <2>5. ConfirmedInTime'
    BY <1>1, <1>3, <2>1, <2>3 DEF ConfirmedInTime
  <2> QED
    BY <2>4, <2>5
<1> QED
  BY <1>2, <1>3 DEF TypeOK

(* The invariant behind the outcome of a run.                              *)
THEOREM Outcomes == ASSUME Punctual PROVE Spec => []OnTime
<1>1. Init => OnTime
  BY DEF Init, OnTime, Released, ConfirmedInTime, InForce
<1>2. TypeOK /\ Protected /\ OnTime /\ [Next]_vars => OnTime'
  <2> SUFFICES ASSUME TypeOK, Protected, OnTime, [Next]_vars PROVE OnTime'
    OBVIOUS
  <2>1. ASSUME NEW r \in Rules, Launch(r) PROVE OnTime'
    <3>1. /\ cur + 1 \in Jobs /\ cur' = cur + 1 /\ cur' > 0
          /\ fw \in Good /\ ~starter
      <4>1. cur \in Nat /\ cur + 1 \in Jobs /\ \A j \in Jobs : ~Live(j)
        BY <2>1 DEF Launch, TypeOK, Jobs, Punctual
      <4>2. ~starter
        BY <4>1 DEF OnTime, Released, Live, Jobs, TypeOK
      <4> QED
        BY <2>1, <4>1, <4>2 DEF Launch
    <3>2. /\ jpc'[cur'] = "starting" /\ cpc' = "early" /\ verdict' = "none"
          /\ ~hang' /\ ~finished' /\ UNCHANGED <<fw, back, starter>>
      BY <2>1, <3>1 DEF Launch, Goto, host, TypeOK
    <3> QED
      BY <3>1, <3>2 DEF OnTime, Released, ConfirmedInTime, InForce
  <2>2. CASE ControllerDies
    BY <2>2 DEF ControllerDies, Punctual
  <2>3. CASE UNCHANGED vars
    BY <2>3 DEF vars, host, jobs, control, OnTime, Released, ConfirmedInTime, InForce
  <2> QED
    BY <2>1, <2>2, <2>3, JobOnTime, ControllerOnTime, TickOnTime DEF Next
<1>3. Prompt
  BY DEF Punctual
<1> QED
  BY <1>1, <1>2, <1>3, TypeCorrect, Protection, PTL DEF Spec

(* When a run is over, a failure means that the rules are again those that *)
(* were found, and a success that they are the wanted ones.                *)
THEOREM TrueOutcome == ASSUME Punctual PROVE Spec => []OutcomeIsTruthful
<1>1. OnTime => OutcomeIsTruthful
  BY DEF OnTime, InForce, OutcomeIsTruthful
<1> QED
  BY <1>1, Outcomes, PTL

(* Rules under which the controller reaches the host are never undone.     *)
THEOREM GoodStay == ASSUME Punctual PROVE Spec => []GoodRulesAreKept
<1>1. TypeOK /\ Protected /\ OnTime => GoodRulesAreKept
  <2> SUFFICES ASSUME TypeOK, Protected, OnTime, NEW j \in Jobs,
                      jpc[j] \in {"rollback", "removing"}
               PROVE  target[j] \in Bad
    BY DEF GoodRulesAreKept
  <2>1. j = cur /\ cur > 0
    BY DEF Protected, OneJob, Live, Jobs
  <2> QED
    BY <2>1 DEF OnTime, InForce
<1>2. Prompt
  BY DEF Punctual
<1> QED
  BY <1>1, <1>2, TypeCorrect, Protection, Outcomes, PTL
=============================================================================

--------------------------------- MODULE Monit ---------------------------------
(***************************************************************************)
(* The module monit (plugins/modules/monit.py): a run sends one command to *)
(* the monit daemon and then reads the status of the service until it has  *)
(* changed and is settled.  The daemon takes commands up when it will, and *)
(* watches, restarts and loses services meanwhile.                         *)
(***************************************************************************)
EXTENDS Naturals

CONSTANTS
  ChangeTries,  \* _status_change_retry_count (6 in the code)
  TimeoutPolls  \* polls, 5 seconds apart, before timeout

ASSUME MonitAssumption == ChangeTries \in Nat /\ TimeoutPolls \in Nat

VARIABLES
  svc,  \* the daemon: the service, the command it works on, the one it has not taken up
        \* and (for the properties) whether the process was started since the run began
  mrun  \* the run: its options, where it is, the status before the command, its polls

mvars == <<svc, mrun>>

States == {"present", "started", "restarted", "stopped", "monitored", "unmonitored", "reloaded"}
Values == {"ok", "not_monitored", "initializing", "does_not_exist", "execution_failed"}

(* STATE_COMMAND_MAP.                                                      *)
CommandOf == [started |-> "start", restarted |-> "restart", stopped |-> "stop",
              monitored |-> "monitor", unmonitored |-> "unmonitor"]

MonitIdle == [state |-> "none", check |-> FALSE, phase |-> "idle", before |-> "none", polls |-> 0, changed |-> FALSE]

MonitInit ==
  /\ svc \in [value : Values, pend : {"none"}, queue : {"none"},
              configured : BOOLEAN, known : BOOLEAN, fresh : {FALSE}]
  /\ svc.known => svc.configured
  /\ mrun = MonitIdle

(* get_status: a pending action shows as what it will lead to, and never   *)
(* as pending: the status is made upper case (line 172) before it is       *)
(* compared with 'pending' (line 186).                                     *)
GetStatus ==
  [value |-> IF ~svc.known THEN "missing"
             ELSE IF svc.pend = "none" THEN svc.value
             ELSE IF svc.pend \in {"start", "restart", "monitor"} THEN "ok" ELSE "not_monitored",
   pending |-> FALSE]

MGo(phase) == mrun' = [mrun EXCEPT !.phase = phase, !.polls = 0]
MExit(changed) == mrun' = [mrun EXCEPT !.phase = "done", !.changed = changed]
Send(command) == svc' = [svc EXCEPT !.queue = command]

MonitBegin(state, check) ==
  /\ mrun.phase = "idle"
  /\ mrun' = [MonitIdle EXCEPT !.state = state, !.check = check, !.phase = "begin"]
  /\ svc' = [svc EXCEPT !.fresh = FALSE]

-----------------------------------------------------------------------------
(* main, up to the command.                                                *)

Reload ==
  /\ mrun.phase = "begin" /\ mrun.state = "reloaded"
  /\ MExit(TRUE)
  /\ IF mrun.check THEN UNCHANGED svc ELSE Send("reload")

AskPresent ==
  /\ mrun.phase = "begin"
  /\ \/ mrun.state \notin {"present", "reloaded"} /\ svc.known /\ MGo("settle") /\ UNCHANGED svc
     \/ mrun.state \notin {"present", "reloaded"} /\ ~svc.known /\ MGo("failed") /\ UNCHANGED svc
     \/ mrun.state = "present" /\ svc.known /\ MExit(FALSE) /\ UNCHANGED svc
     \/ mrun.state = "present" /\ ~svc.known /\ mrun.check /\ MExit(TRUE) /\ UNCHANGED svc
     \/ mrun.state = "present" /\ ~svc.known /\ ~mrun.check /\ MGo("appear") /\ Send("reload")

PollPresent ==
  /\ mrun.phase = "appear"
  /\ \/ svc.known /\ MExit(TRUE)
     \/ ~svc.known /\ mrun.polls >= TimeoutPolls /\ MGo("failed")
     \/ ~svc.known /\ mrun.polls < TimeoutPolls /\ mrun' = [mrun EXCEPT !.polls = @ + 1]
  /\ UNCHANGED svc

(* wait_for_monit_to_stop_pending.                                         *)
Unsettled == GetStatus.pending \/ GetStatus.value \in {"missing", "initializing", "does_not_exist"}

(* One turn of its loop after n: what it reads is what the caller gets.    *)
Settle(phase, n, then) ==
  \/ ~Unsettled /\ then
  \/ Unsettled /\ n >= TimeoutPolls /\ MGo("failed")
  \/ Unsettled /\ n < TimeoutPolls /\ mrun' = [mrun EXCEPT !.phase = phase, !.polls = n + 1]

SettleFirst ==
  /\ mrun.phase = "settle"
  /\ Settle("settle", mrun.polls, MGo("decide"))
  /\ UNCHANGED svc

(* is_process_running, and what main does about it.                        *)
Needed ==
  \/ mrun.state \in {"started", "monitored"} /\ GetStatus.value # "ok"
  \/ mrun.state \in {"stopped", "unmonitored"} /\ GetStatus.value = "ok"
  \/ mrun.state = "restarted"

Decide ==
  /\ mrun.phase = "decide"
  /\ \/ ~Needed /\ MExit(FALSE)
     \/ Needed /\ mrun.check /\ MExit(TRUE)
     \/ Needed /\ ~mrun.check /\ MGo("read")
  /\ UNCHANGED svc

-----------------------------------------------------------------------------
(* change_state.                                                           *)

ReadBefore ==
  /\ mrun.phase = "read"
  /\ mrun' = [mrun EXCEPT !.phase = "send", !.before = GetStatus.value]
  /\ UNCHANGED svc

SendCommand ==
  /\ mrun.phase = "send"
  /\ MGo("change")
  /\ Send(CommandOf[mrun.state])

(* wait_for_status_change: the first read, then ChangeTries more.          *)
(* Mutant: any status is taken for a new one.                              *)
HasChangedAlways == TRUE
HasChanged == GetStatus.value # mrun.before \/ mrun.before = "execution_failed"
(* Mutant: the tries have no limit.                                        *)
TriesLeftAlways == TRUE
TriesLeft == mrun.polls < ChangeTries

AsAsked(value) ==
  \/ mrun.state \in {"started", "restarted"} /\ value = "ok"
  \/ mrun.state \in {"stopped", "unmonitored"} /\ value = "not_monitored"
  \/ mrun.state = "monitored" /\ value # "not_monitored"

SettleLast(n) ==
  Settle("end", n, \/ AsAsked(GetStatus.value) /\ MExit(TRUE)
                   \/ ~AsAsked(GetStatus.value) /\ MGo("failed"))

(* The read that shows the change is the first that may be settled.        *)
PollChange ==
  /\ mrun.phase = "change"
  /\ \/ HasChanged /\ SettleLast(0)
     \/ ~HasChanged /\ ~TriesLeft /\ MGo("failed")
     \/ ~HasChanged /\ TriesLeft /\ mrun' = [mrun EXCEPT !.polls = IF @ < ChangeTries THEN @ + 1 ELSE @]
  /\ UNCHANGED svc

PollEnd ==
  /\ mrun.phase = "end"
  /\ SettleLast(mrun.polls)
  /\ UNCHANGED svc

MonitStep ==
  \/ Reload \/ AskPresent \/ PollPresent \/ SettleFirst \/ Decide
  \/ ReadBefore \/ SendCommand \/ PollChange \/ PollEnd

-----------------------------------------------------------------------------
(* External: the daemon.                                                   *)

TakeUp ==
  /\ svc.pend = "none"
  /\ \/ /\ svc.queue = "reload"
        /\ svc' = [svc EXCEPT !.queue = "none", !.known = svc.configured,
                               !.value = IF @ = "not_monitored" THEN @ ELSE "initializing"]
     \/ /\ svc.queue \notin {"none", "reload"}
        /\ svc' = [svc EXCEPT !.queue = "none", !.pend = svc.queue]
  /\ UNCHANGED mrun

Perform ==
  /\ svc.pend # "none"
  /\ svc' = [svc EXCEPT
       !.pend = "none",
       !.value = IF svc.pend \in {"stop", "unmonitor"} THEN "not_monitored" ELSE "initializing",
       !.fresh = @ \/ svc.pend \in {"start", "restart"}]
  /\ UNCHANGED mrun

(* A check of the service, which may have ended, and which monit starts    *)
(* again when it has.                                                      *)
Watch ==
  /\ svc.known /\ svc.pend = "none"
  /\ \/ /\ svc.value = "initializing"
        /\ \E v \in {"ok", "execution_failed", "does_not_exist"} : svc' = [svc EXCEPT !.value = v]
     \/ svc.value = "ok" /\ svc' = [svc EXCEPT !.value = "does_not_exist"]
     \/ /\ svc.value \in {"does_not_exist", "execution_failed"}
        /\ svc' = [svc EXCEPT !.value = "initializing", !.fresh = TRUE]
  /\ UNCHANGED mrun

MonitNext ==
  \/ \E state \in States, check \in BOOLEAN : MonitBegin(state, check)
  \/ MonitStep
  \/ TakeUp \/ Perform \/ Watch

MonitSpec == MonitInit /\ [][MonitNext]_mvars /\ WF_mvars(MonitStep)

-----------------------------------------------------------------------------
(* Properties.                                                             *)

(* When a run reports a change, monit has taken its command up and works   *)
(* on it, or what it asked for is so, although commands are taken up late  *)
(* and the service ends and comes back meanwhile: after "stopped" no       *)
(* command waits that could still be lost, and after "restarted" the old   *)
(* process has gone or monit is about to replace it.                       *)
SuccessIsUnderWay ==
  [][mrun.phase \in {"change", "end"} /\ mrun'.phase = "done" =>
       /\ mrun.state \in {"stopped", "unmonitored"} =>
            /\ svc.queue = "none"
            /\ \/ svc.value = "not_monitored" /\ svc.pend = "none"
               \/ svc.pend = CommandOf[mrun.state]
       /\ mrun.state \in {"started", "restarted"} =>
            \/ svc.value = "ok" /\ svc.pend = "none"
            \/ svc.pend = CommandOf[mrun.state]
       /\ mrun.state = "restarted" => svc.fresh \/ svc.pend = "restart"]_mvars

(* A run ends, whatever the daemon does: each of its loops is bounded.     *)
MonitRunsEnd == mrun.phase \notin {"idle", "done", "failed"} ~> mrun.phase \in {"done", "failed"}

(* A run waits until a pending action is over ("Fails this run if there is *)
(* no status or it is pending", line 220), so that what it reports is so.  *)
(* It does not hold: no status is ever pending.  See the README.           *)
SuccessIsReal ==
  [][mrun.phase \in {"change", "end"} /\ mrun'.phase = "done" => svc.pend = "none"]_mvars

(* A run that fails has not brought about what it was asked for.  It does  *)
(* not hold: a restart that is over between two reads looks like none.     *)
(* See the README.                                                         *)
FailureIsReal ==
  [][mrun.phase = "change" /\ mrun'.phase = "failed" /\ mrun.state = "restarted" => ~svc.fresh]_mvars
=============================================================================

-------------------------------- MODULE Haproxy --------------------------------
(***************************************************************************)
(* The module haproxy (plugins/modules/haproxy.py): a run sends commands   *)
(* for one server in one or in all backends over the administration        *)
(* socket, and may wait for their effect by reading the statistics, while  *)
(* sessions and health checks go on.  haproxy may refuse a command: its    *)
(* answer is not looked at.  Weights, the agent and the switches of the    *)
(* checks are left out.                                                    *)
(***************************************************************************)
EXTENDS Naturals, SequencesExt

CONSTANTS
  Backends,
  All,          \* the option backend is not given
  WaitRetries,  \* wait_retries
  MaxSessions

ASSUME HaproxyAssumption ==
  /\ All \notin Backends /\ IsFiniteSet(Backends)
  /\ WaitRetries \in Nat /\ MaxSessions \in Nat

VARIABLES
  server, \* the server in each backend, as haproxy has it
  hrun    \* the run: its options, where it is, the commands to do, the polls made

havars == <<server, hrun>>

Admin == {"ready", "drain", "maint"}

(* The sessions of a server: those begun while it took new ones, and those *)
(* of persistence, begun while it was draining.                            *)
Servers ==
  [here : BOOLEAN, admin : Admin, up : BOOLEAN, sessions : 0..MaxSessions, persistent : 0..MaxSessions]

Options ==
  [state : {"enabled", "disabled", "drain"}, backend : Backends \cup {All},
   wait : BOOLEAN, drain : BOOLEAN, shutdown : BOOLEAN, fail : BOOLEAN,
   modern : BOOLEAN]  \* haproxy is 1.5 or later

(* The status in the statistics.                                           *)
Status(b) ==
  CASE server[b].admin = "maint" -> "MAINT"
    [] server[b].admin # "maint" /\ ~server[b].up -> "DOWN"
    [] server[b].admin = "drain" /\ server[b].up -> "DRAIN"
    [] server[b].admin = "ready" /\ server[b].up -> "UP"

(* The number of sessions in the statistics.                               *)
Scur(b) == server[b].sessions + server[b].persistent

Idle == [op |-> [state |-> "none"], phase |-> "idle", todo |-> <<>>, polls |-> 0]

HaInit ==
  /\ server \in [Backends -> {s \in Servers : s.sessions = 0 /\ s.persistent = 0 /\ s.admin # "drain"}]
  /\ hrun = Idle

(* What is sent to each server, a round over the backends for each.        *)
(* Mutant: after the draining the server is not disabled.                  *)
Drained(op, rounds) == IF op.modern THEN rounds ELSE <<>>

RoundsDrainOnly(op) ==
  CASE op.state = "enabled" -> <<"ready">>
    [] op.state = "drain" \/ op.drain -> Drained(op, <<"drain">>)
    [] OTHER -> <<"maint">>

Rounds(op) ==
  CASE op.state = "enabled" -> <<"ready">>
    [] op.state = "drain" -> Drained(op, <<"drain">>)
    [] op.state = "disabled" /\ op.drain -> Drained(op, <<"drain", "maint">>)
    [] op.state = "disabled" /\ ~op.drain -> <<"maint">>

Commands(op) ==
  LET backends == IF op.backend = All THEN SetToSeq(Backends) ELSE <<op.backend>>
      round(admin) == [i \in DOMAIN backends |-> [backend |-> backends[i], admin |-> admin]]
  IN  FlattenSeq([r \in DOMAIN Rounds(op) |-> round(Rounds(op)[r])])

Go(phase, todo, polls) ==
  hrun' = [hrun EXCEPT !.phase = phase, !.todo = todo, !.polls = polls]

Begin(op) ==
  /\ hrun.phase = "idle"
  /\ hrun' = [Idle EXCEPT !.op = op, !.phase = "command", !.todo = Commands(op)]
  /\ UNCHANGED server

(* execute_for_backends, one turn: the server is looked for, and the       *)
(* command is sent.  haproxy does it or refuses it (the socket may be none *)
(* of level admin), and the run goes on all the same.                      *)
NotFound ==
  LET c == Head(hrun.todo)
  IN  /\ hrun.phase = "command" /\ hrun.todo # <<>>
      /\ ~server[c.backend].here
      /\ IF hrun.op.fail THEN Go("failed", hrun.todo, 0) ELSE Go("command", Tail(hrun.todo), 0)
      /\ UNCHANGED server

Obeyed(c) ==
  LET s == server[c.backend]
      cut == c.admin = "maint" /\ hrun.op.shutdown
  IN  [server EXCEPT ![c.backend] =
         [s EXCEPT !.admin = c.admin,
                   !.sessions = IF cut THEN 0 ELSE @,
                   !.persistent = IF cut THEN 0 ELSE @]]

Execute ==
  LET c == Head(hrun.todo)
  IN  /\ hrun.phase = "command" /\ hrun.todo # <<>>
      /\ server[c.backend].here
      /\ \/ server' = Obeyed(c)
         \/ UNCHANGED server
      /\ IF hrun.op.wait THEN Go("poll", hrun.todo, 1) ELSE Go("command", Tail(hrun.todo), 0)

(* What a poll waits for.  Mutant: the sessions are not looked at.         *)
HasStatus(c) ==
  Status(c.backend) =
    (CASE c.admin = "ready" -> "UP" [] c.admin = "drain" -> "DRAIN" [] c.admin = "maint" -> "MAINT")
HasReachedStatus(c) == HasStatus(c)
HasReached(c) == HasStatus(c) /\ (hrun.op.drain => Scur(c.backend) = 0)

(* wait_until_status: range(1, wait_retries).                              *)
MorePolls == hrun.polls < WaitRetries

Poll ==
  LET c == Head(hrun.todo)
  IN  /\ hrun.phase = "poll" /\ MorePolls
      /\ IF HasReached(c) THEN Go("command", Tail(hrun.todo), 0)
         ELSE Go("poll", hrun.todo, hrun.polls + 1)
      /\ UNCHANGED server

GiveUp ==
  /\ hrun.phase = "poll" /\ ~MorePolls
  /\ Go("failed", hrun.todo, 0)
  /\ UNCHANGED server

Finish ==
  /\ hrun.phase = "command" /\ hrun.todo = <<>>
  /\ Go("done", <<>>, 0)
  /\ UNCHANGED server

HaStep == NotFound \/ Execute \/ Poll \/ GiveUp \/ Finish

(* External: health checks, and clients.  A draining server gets the       *)
(* sessions that persistence sends to it, and no other.                    *)
Check(b) ==
  /\ server[b].here /\ server[b].admin # "maint"
  /\ server' = [server EXCEPT ![b].up = ~@]
  /\ UNCHANGED hrun

SessionBegins(b) ==
  /\ server[b].here /\ Scur(b) < MaxSessions
  /\ \/ Status(b) = "UP" /\ server' = [server EXCEPT ![b].sessions = @ + 1]
     \/ Status(b) = "DRAIN" /\ server' = [server EXCEPT ![b].persistent = @ + 1]
  /\ UNCHANGED hrun

SessionEnds(b) ==
  /\ \/ server[b].sessions > 0 /\ server' = [server EXCEPT ![b].sessions = @ - 1]
     \/ server[b].persistent > 0 /\ server' = [server EXCEPT ![b].persistent = @ - 1]
  /\ UNCHANGED hrun

HaNext ==
  \/ \E op \in Options : Begin(op)
  \/ HaStep
  \/ \E b \in Backends : Check(b) \/ SessionBegins(b) \/ SessionEnds(b)

HaSpec == HaInit /\ [][HaNext]_havars /\ WF_havars(HaStep)

-----------------------------------------------------------------------------
(* Properties.                                                             *)

Named(op) == IF op.backend = All THEN Backends ELSE {op.backend}

(* With drain and wait, no server is disabled while it has sessions that   *)
(* began before it was drained, in whatever order clients come and go and  *)
(* commands are refused: each server was seen draining and without one.    *)
(* A session of persistence may begin between that look and the second     *)
(* round, and is there when the server is disabled (DrainsAsDocumented).   *)
NoSessionIsCut ==
  [][\A b \in Backends :
       /\ hrun.phase = "command" /\ hrun.op.drain /\ hrun.op.wait
       /\ server[b].admin # "maint" /\ server'[b].admin = "maint"
       => server[b].sessions = 0]_havars

(* After a success with wait every named server that exists is as it was   *)
(* asked to be, in every backend, although commands may be refused and     *)
(* checks and sessions go on (unless haproxy is too old to drain).         *)
(* Without wait a run ends in success whatever haproxy answered, and this  *)
(* says nothing of it.                                                     *)
SuccessMeansSet ==
  hrun.phase = "done" /\ hrun.op.wait =>
    LET op == hrun.op
        wanted == CASE op.state = "enabled" -> "ready"
                    [] op.state = "disabled" -> "maint"
                    [] op.state = "drain" -> "drain"
    IN  \A b \in Named(op) :
          server[b].here => \/ server[b].admin = wanted
                            \/ ~op.modern /\ (op.drain \/ op.state = "drain")

(* A run ends, also when a server never reaches the status that it waits   *)
(* for because sessions or checks go on.                                   *)
HaRunEnds == hrun.phase \notin {"idle", "done", "failed"} ~> hrun.phase \in {"done", "failed"}

(* "Wait until the server has no active connections" (line 39): drain      *)
(* never disables a server that has sessions.  It does not hold: without   *)
(* wait, and so without a poll, the server is disabled at once, and with   *)
(* wait a session of persistence may begin after the poll.  See the README.*)
DrainsAsDocumented ==
  [][\A b \in Backends :
       /\ hrun.phase = "command" /\ hrun.op.drain /\ hrun.op.state = "disabled"
       /\ server[b].admin # "maint" /\ server'[b].admin = "maint"
       => Scur(b) = 0]_havars
=============================================================================

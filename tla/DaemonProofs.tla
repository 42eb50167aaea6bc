------------------------------ MODULE DaemonProofs ------------------------------
(* The two modules that command a daemon that others talk to as well.  For *)
(* every number of tries and polls, what a run of monit reports as changed *)
(* is so or under way; for all backends, a run of haproxy that waits and   *)
(* succeeds has set every server, and one that drains and waits disables   *)
(* none with sessions from before it was drained.                          *)
EXTENDS Monit, Haproxy, FiniteSetTheorems, TLAPS

-----------------------------------------------------------------------------
(* monit.                                                                  *)

MCommands == {"start", "restart", "stop", "monitor", "unmonitor"}
BeforeCommand == {"settle", "decide", "read", "send"}
AfterCommand == {"change", "end"}
Phases ==
  {"idle", "begin", "appear", "done", "failed", "settle", "decide", "read", "send", "change", "end"}
Befores == Values \cup {"none", "missing"}
StatesOrNone == States \cup {"none"}

SvcType ==
  svc \in [value : Values, pend : MCommands \cup {"none"}, queue : MCommands \cup {"none", "reload"},
           configured : BOOLEAN, known : BOOLEAN, fresh : BOOLEAN]

RunType ==
  mrun \in [state : StatesOrNone, check : BOOLEAN, phase : Phases, before : Befores,
            polls : Nat, changed : BOOLEAN]

(* A run that is to send a command knows the service.                      *)
Known ==
  /\ mrun.phase # "idle" => mrun.state \in States
  /\ mrun.phase \in BeforeCommand \cup AfterCommand => svc.known /\ mrun.state \in DOMAIN CommandOf

(* Until a run sends its command the daemon has none, and then that one.   *)
OneCommand ==
  /\ mrun.phase \in {"idle", "begin"} \cup BeforeCommand => svc.queue = "none" /\ svc.pend = "none"
  /\ mrun.phase \in AfterCommand =>
       /\ svc.queue # "none" => svc.queue = CommandOf[mrun.state] /\ svc.pend = "none"
       /\ svc.pend # "none" => svc.pend = CommandOf[mrun.state]

(* While a stop is outstanding the service is monitored.                   *)
StopIsOutstanding ==
  /\ mrun.state \in {"stopped", "unmonitored"}
  /\ \/ mrun.phase \in {"read", "send"}
     \/ mrun.phase \in AfterCommand /\ (svc.queue # "none" \/ svc.pend # "none")
  => svc.value # "not_monitored"

(* A settled service whose process has not been started since is as it was *)
(* before the command, or has ended.                                       *)
Restarting(phases) == mrun.state = "restarted" /\ mrun.phase \in phases /\ ~svc.fresh

OldProcess ==
  /\ Restarting({"decide", "read", "send"} \cup AfterCommand) => svc.value # "initializing"
  /\ Restarting({"send", "change"}) =>
       svc.value = mrun.before \/ (mrun.before = "ok" /\ svc.value = "does_not_exist")
  /\ Restarting({"end"}) => svc.value # "ok"

MonitInv == SvcType /\ RunType /\ Known /\ OneCommand /\ StopIsOutstanding /\ OldProcess

(* It holds at first.                                                      *)
LEMMA MonitInitial == MonitInit => MonitInv
<1> SUFFICES ASSUME MonitInit PROVE MonitInv
    OBVIOUS
<1>1. SvcType
      BY DEF MonitInit, SvcType, MCommands
<1>2. RunType /\ mrun.phase = "idle" /\ mrun.state = "none"
      BY DEF MonitInit, MonitIdle, RunType, Phases, Befores, StatesOrNone
<1>3. svc.queue = "none" /\ svc.pend = "none"
      BY DEF MonitInit
<1> QED
    BY <1>1, <1>2, <1>3 DEF MonitInv, Known, OneCommand, StopIsOutstanding, OldProcess, Restarting,
       BeforeCommand, AfterCommand

-----------------------------------------------------------------------------
(* What the ways to change the run's record do to it.                      *)

(* A run that goes on to its next phase.                                   *)
LEMMA Goes ==
  ASSUME RunType, NEW p \in Phases, MGo(p)
  PROVE  RunType' /\ mrun'.phase = p /\ mrun'.state = mrun.state /\ mrun'.before = mrun.before
BY DEF MGo, RunType

(* A run that ends, in success or in failure.                              *)
LEMMA Exits ==
  ASSUME RunType, NEW c \in BOOLEAN, MExit(c)
  PROVE  RunType' /\ mrun'.phase = "done" /\ mrun'.state = mrun.state
BY DEF MExit, RunType, Phases

(* A poll changes the count of polls and nothing else.                     *)
LEMMA Polls ==
  ASSUME RunType, NEW n \in Nat, mrun' = [mrun EXCEPT !.polls = n]
  PROVE  /\ RunType' /\ mrun'.phase = mrun.phase /\ mrun'.state = mrun.state
         /\ mrun'.before = mrun.before
BY DEF RunType

(* The same, for one poll more.                                            *)
LEMMA PollsAgain ==
  ASSUME RunType, mrun' = [mrun EXCEPT !.polls = @ + 1]
  PROVE  /\ RunType' /\ mrun'.phase = mrun.phase /\ mrun'.state = mrun.state
         /\ mrun'.before = mrun.before
BY DEF RunType

(* A poll with which the run enters another phase.                         *)
LEMMA GoesOn ==
  ASSUME RunType, NEW p \in Phases, NEW n \in Nat, mrun' = [mrun EXCEPT !.phase = p, !.polls = n + 1]
  PROVE  RunType' /\ mrun'.phase = p /\ mrun'.state = mrun.state /\ mrun'.before = mrun.before
<1>1. n + 1 \in Nat
      OBVIOUS
<1> HIDE DEF Phases
<1> QED
    BY <1>1 DEF RunType

(* A run begins with nothing seen.                                         *)
LEMMA Begins ==
  ASSUME NEW s \in States, NEW c \in BOOLEAN, MonitBegin(s, c)
  PROVE  RunType' /\ mrun'.phase = "begin" /\ mrun'.state = s
<1>1. mrun' = [state |-> s, check |-> c, phase |-> "begin", before |-> "none", polls |-> 0, changed |-> FALSE]
      BY DEF MonitBegin, MonitIdle
<1> QED
    BY <1>1 DEF RunType, Phases, Befores, StatesOrNone

(* The daemon's record keeps its type.                                     *)
LEMMA SvcTyped ==
  ASSUME SvcType, RunType, Known, MonitNext
  PROVE  SvcType'
<1> USE DEF SvcType
<1>1. CASE \E state \in States, check \in BOOLEAN : MonitBegin(state, check)
      BY <1>1 DEF MonitBegin
<1>2. CASE Reload \/ AskPresent
      BY <1>2 DEF Reload, AskPresent, Send
<1>3. CASE PollPresent \/ SettleFirst \/ Decide \/ ReadBefore \/ PollChange \/ PollEnd
      BY <1>3 DEF PollPresent, SettleFirst, PollEnd, Decide, ReadBefore, PollChange
<1>4. CASE SendCommand
      <2>1. CommandOf[mrun.state] \in MCommands
            BY <1>4 DEF SendCommand, Known, CommandOf, MCommands, BeforeCommand
      <2> QED
          BY <1>4, <2>1 DEF SendCommand, Send
<1>5. CASE TakeUp
      BY <1>5 DEF TakeUp, Values
<1>6. CASE Perform
      BY <1>6 DEF Perform, Values
<1>7. CASE Watch
      <2>1. CASE \E v \in {"ok", "execution_failed", "does_not_exist"} : svc' = [svc EXCEPT !.value = v]
            BY <2>1 DEF Values
      <2>2. CASE svc' = [svc EXCEPT !.value = "initializing", !.fresh = TRUE]
            BY <2>2 DEF Values
      <2> QED
          BY <1>7, <2>1, <2>2 DEF Watch
<1> QED
    BY <1>1, <1>2, <1>3, <1>4, <1>5, <1>6, <1>7 DEF MonitNext, MonitStep

-----------------------------------------------------------------------------
(* The rest of the invariant, one action at a time.                        *)

Rest == Known /\ OneCommand /\ StopIsOutstanding /\ OldProcess

(* The steps of a run keep the invariant.                                  *)
LEMMA RunKeeps ==
  ASSUME SvcType, RunType, Rest, MonitStep
  PROVE  RunType' /\ Rest'
<1> USE DEF Rest, Known, OneCommand, StopIsOutstanding, OldProcess, Restarting, BeforeCommand,
            AfterCommand, Phases
<1>1. CASE Reload
      BY <1>1, Exits DEF Reload
<1>2. CASE AskPresent
      <2>1. CASE mrun.state \notin {"present", "reloaded"} /\ svc.known /\ MGo("settle") /\ UNCHANGED svc
            <3>1. mrun.state \in DOMAIN CommandOf
                  BY <1>2, <2>1 DEF AskPresent, States, CommandOf
            <3> QED
                BY <1>2, <2>1, <3>1, Goes DEF AskPresent
      <2> QED
          BY <1>2, <2>1, Goes, Exits DEF AskPresent
<1>3. CASE PollPresent
      BY <1>3, Goes, Exits, PollsAgain DEF PollPresent
<1>4. CASE SettleFirst
      <2>1. CASE ~Unsettled /\ MGo("decide")
            <3>1. svc.value # "initializing"
                  BY <1>4, <2>1 DEF SettleFirst, Settle, Unsettled, GetStatus
            <3> QED
                BY <1>4, <2>1, <3>1, Goes DEF SettleFirst, Settle
      <2>2. mrun.polls \in Nat
            BY DEF RunType
      <2> QED
          BY <1>4, <2>1, <2>2, Goes, GoesOn DEF SettleFirst, Settle
<1>5. CASE Decide
      <2>1. CASE Needed /\ ~mrun.check /\ MGo("read")
            <3>1. mrun.state \in {"stopped", "unmonitored"} => svc.value = "ok"
                  BY <1>5, <2>1 DEF Decide, Needed, GetStatus
            <3> QED
                BY <1>5, <2>1, <3>1, Goes DEF Decide
      <2> QED
          BY <1>5, <2>1, Exits DEF Decide
<1>6. CASE ReadBefore
      <2>1. GetStatus.value = svc.value /\ GetStatus.value \in Befores
            BY <1>6 DEF ReadBefore, GetStatus, SvcType, Befores
      <2>2. RunType' /\ mrun'.phase = "send" /\ mrun'.state = mrun.state /\ mrun'.before = svc.value
            BY <1>6, <2>1 DEF ReadBefore, RunType
      <2> QED
          BY <1>6, <2>2 DEF ReadBefore
<1>7. CASE SendCommand
      <2>1. /\ svc'.queue = CommandOf[mrun.state] /\ svc'.pend = "none"
            /\ svc'.value = svc.value /\ svc'.known = svc.known /\ svc'.fresh = svc.fresh
            BY <1>7 DEF SendCommand, Send, SvcType
      <2>2. RunType' /\ mrun'.phase = "change" /\ mrun'.state = mrun.state /\ mrun'.before = mrun.before
            BY <1>7, Goes DEF SendCommand
      <2> QED
          BY <1>7, <2>1, <2>2 DEF SendCommand
<1>8. CASE PollChange
      <2>1. CASE HasChanged /\ SettleLast(0)
            <3>1. Restarting({"change"}) => svc.value # "ok"
                  <4>1. mrun.state = "restarted" /\ svc.value = "ok" => GetStatus.value = "ok"
                        BY <1>8 DEF PollChange, GetStatus, CommandOf
                  <4> QED
                      BY <1>8, <2>1, <4>1 DEF PollChange, HasChanged
            <3> QED
                BY <1>8, <2>1, <3>1, Goes, Exits, GoesOn DEF PollChange, SettleLast, Settle
      <2>2. (IF mrun.polls < ChangeTries THEN mrun.polls + 1 ELSE mrun.polls) \in Nat
            BY MonitAssumption DEF RunType
      <2> QED
          BY <1>8, <2>1, <2>2, Goes, Polls DEF PollChange
<1>9. CASE PollEnd
      <2>1. mrun.polls \in Nat
            BY DEF RunType
      <2> QED
          BY <1>9, <2>1, Goes, Exits, GoesOn DEF PollEnd, SettleLast, Settle
<1> QED
    BY <1>1, <1>2, <1>3, <1>4, <1>5, <1>6, <1>7, <1>8, <1>9 DEF MonitStep

(* So do those of the daemon and the service.                              *)
LEMMA DaemonKeeps ==
  ASSUME SvcType, RunType, Rest, TakeUp \/ Perform \/ Watch
  PROVE  Rest'
<1> USE DEF Rest, Known, OneCommand, StopIsOutstanding, OldProcess, Restarting, BeforeCommand, AfterCommand
<1>1. CASE TakeUp
      <2>1. CASE svc.queue = "reload"
            <3>1. mrun.phase \notin {"idle", "begin"} \cup BeforeCommand \cup AfterCommand
                  BY <2>1 DEF CommandOf
            <3> QED
                BY <1>1, <3>1 DEF TakeUp
      <2>2. CASE svc' = [svc EXCEPT !.queue = "none", !.pend = svc.queue]
            <3>1. /\ svc'.queue = "none" /\ svc'.pend = svc.queue
                  /\ svc'.value = svc.value /\ svc'.known = svc.known /\ svc'.fresh = svc.fresh
                  BY <2>2 DEF SvcType
            <3> QED
                BY <1>1, <3>1 DEF TakeUp
      <2> QED
          BY <1>1, <2>1, <2>2 DEF TakeUp
<1>2. CASE Perform
      <2>1. /\ svc'.queue = svc.queue /\ svc'.pend = "none" /\ svc'.known = svc.known
            BY <1>2 DEF Perform, SvcType
      <2>2. \/ mrun.phase \in AfterCommand /\ svc.pend = CommandOf[mrun.state]
            \/ mrun.phase \notin {"idle", "begin"} \cup BeforeCommand \cup AfterCommand
            BY <1>2 DEF Perform
      <2>3. mrun.phase \in AfterCommand /\ mrun.state = "restarted" => svc'.fresh
            <3>1. svc.pend = "restart" => svc'.fresh
                  BY <1>2 DEF Perform, SvcType
            <3> QED
                BY <2>2, <3>1 DEF CommandOf
      <2>4. mrun.phase \in AfterCommand => svc'.queue = "none"
            BY <1>2, <2>1 DEF Perform
      <2> QED
          BY <1>2, <2>1, <2>2, <2>3, <2>4 DEF Perform
<1>3. CASE Watch
      <2>1. CASE svc.value = "initializing"
            <3>1. PICK v \in {"ok", "execution_failed", "does_not_exist"} : svc' = [svc EXCEPT !.value = v]
                  BY <1>3, <2>1 DEF Watch
            <3>2. /\ svc'.value = v /\ svc'.queue = svc.queue /\ svc'.pend = svc.pend
                  /\ svc'.known = svc.known /\ svc'.fresh = svc.fresh
                  BY <3>1 DEF SvcType
            <3> QED
                BY <1>3, <2>1, <3>2 DEF Watch
      <2>2. CASE svc.value = "ok"
            <3>1. /\ svc'.value = "does_not_exist" /\ svc'.queue = svc.queue /\ svc'.pend = svc.pend
                  /\ svc'.known = svc.known /\ svc'.fresh = svc.fresh
                  BY <1>3, <2>2 DEF Watch, SvcType
            <3> QED
                BY <1>3, <2>2, <3>1 DEF Watch
      <2>3. CASE svc.value \in {"does_not_exist", "execution_failed"}
            <3>1. /\ svc'.value = "initializing" /\ svc'.queue = svc.queue /\ svc'.pend = svc.pend
                  /\ svc'.known = svc.known /\ svc'.fresh = TRUE
                  BY <1>3, <2>3 DEF Watch, SvcType
            <3> QED
                BY <1>3, <2>3, <3>1 DEF Watch
      <2> QED
          BY <1>3, <2>1, <2>2, <2>3 DEF Watch
<1> QED
    BY <1>1, <1>2, <1>3

(* So does every step.                                                     *)
LEMMA MonitStepKeeps == MonitInv /\ [MonitNext]_mvars => MonitInv'
<1> SUFFICES ASSUME MonitInv, [MonitNext]_mvars PROVE MonitInv'
    OBVIOUS
<1>0. SvcType /\ RunType /\ Rest
      BY DEF MonitInv, Rest
<1>1. ASSUME NEW s \in States, NEW c \in BOOLEAN, MonitBegin(s, c) PROVE MonitInv'
      <2>1. svc'.queue = "none" /\ svc'.pend = "none"
            BY <1>0, <1>1 DEF MonitBegin, Rest, OneCommand, SvcType
      <2>2. SvcType'
            BY <1>0, <1>1, SvcTyped DEF MonitNext, Rest
      <2> QED
          BY <1>1, <2>1, <2>2, Begins
          DEF MonitInv, Known, OneCommand, StopIsOutstanding, OldProcess, Restarting, BeforeCommand,
              AfterCommand
<1>2. CASE MonitStep
      BY <1>0, <1>2, SvcTyped, RunKeeps DEF MonitNext, MonitInv, Rest
<1>3. CASE TakeUp \/ Perform \/ Watch
      <2>1. RunType'
            BY <1>0, <1>3 DEF TakeUp, Perform, Watch, RunType
      <2> QED
          BY <1>0, <1>3, <2>1, SvcTyped, DaemonKeeps DEF MonitNext, MonitInv, Rest
<1>4. CASE UNCHANGED mvars
      BY <1>4 DEF mvars, MonitInv, SvcType, RunType, Known, OneCommand, StopIsOutstanding, OldProcess,
                  Restarting
<1> QED
    BY <1>1, <1>2, <1>3, <1>4 DEF MonitNext

(* Reporting a change takes the last read to be of a settled service, or   *)
(* of one that the command is being done to.                               *)
UnderWay ==
  /\ mrun.state \in {"stopped", "unmonitored"} =>
       /\ svc.queue = "none"
       /\ \/ svc.value = "not_monitored" /\ svc.pend = "none"
          \/ svc.pend = CommandOf[mrun.state]
  /\ mrun.state \in {"started", "restarted"} =>
       \/ svc.value = "ok" /\ svc.pend = "none"
       \/ svc.pend = CommandOf[mrun.state]
  /\ mrun.state = "restarted" => svc.fresh \/ svc.pend = "restart"

LEMMA EndIsUnderWay ==
  ASSUME MonitInv, [MonitNext]_mvars, mrun.phase \in {"change", "end"}, mrun'.phase = "done"
  PROVE  UnderWay
<1>1. PollChange \/ PollEnd
      BY DEF MonitNext, MonitStep, MonitBegin, Reload, AskPresent, PollPresent, SettleFirst, Decide,
             ReadBefore, SendCommand, TakeUp, Perform, Watch, mvars
<1>2. /\ ~Unsettled /\ AsAsked(GetStatus.value)
      /\ mrun.phase = "change" => HasChanged
      <2>1. ASSUME NEW p \in Phases, MGo(p) PROVE mrun'.phase = p
            BY <2>1, Goes DEF MonitInv
      <2>2. ASSUME NEW n, mrun' = [mrun EXCEPT !.phase = "end", !.polls = n + 1] PROVE mrun'.phase = "end"
            BY <2>2 DEF MonitInv, RunType
      <2>3. ASSUME NEW n, mrun' = [mrun EXCEPT !.polls = n] PROVE mrun'.phase = mrun.phase
            BY <2>3 DEF MonitInv, RunType
      <2>4. "failed" \in Phases
            BY DEF Phases
      <2> QED
          BY <1>1, <2>1, <2>2, <2>3, <2>4 DEF PollChange, PollEnd, SettleLast, Settle
<1>3. mrun.phase \in AfterCommand /\ svc.known
      BY DEF MonitInv, Known, AfterCommand
<1>4. CASE svc.pend # "none"
      <2>1. svc.pend = CommandOf[mrun.state] /\ svc.queue = "none"
            BY <1>3, <1>4 DEF MonitInv, OneCommand
      <2> QED
          BY <2>1 DEF UnderWay, CommandOf
<1>5. CASE svc.pend = "none"
      <2>1. GetStatus.value = svc.value
            BY <1>3, <1>5 DEF GetStatus
      <2>2. /\ mrun.state \in {"stopped", "unmonitored"} => svc.value = "not_monitored"
            /\ mrun.state \in {"started", "restarted"} => svc.value = "ok"
            BY <1>2, <2>1 DEF AsAsked
      <2>3. mrun.state \in {"stopped", "unmonitored"} => svc.queue = "none"
            BY <1>3, <2>2 DEF MonitInv, StopIsOutstanding
      <2>4. mrun.state = "restarted" => svc.fresh
            BY <1>2, <2>1, <2>2 DEF MonitInv, OldProcess, Restarting, AfterCommand, SvcType, RunType, HasChanged
      <2> QED
          BY <1>5, <2>2, <2>3, <2>4 DEF UnderWay
<1> QED
    BY <1>4, <1>5

(* What a run of monit reports as changed is so, or monit has taken the    *)
(* command up and works on it: the command of a stop is not left waiting,  *)
(* and a restarted process is a new one or about to be.                    *)
THEOREM MonitSuccess == MonitSpec => SuccessIsUnderWay
<1>1. MonitInv /\ [MonitNext]_mvars =>
        [mrun.phase \in {"change", "end"} /\ mrun'.phase = "done" => UnderWay]_mvars
      BY EndIsUnderWay
<1> QED
    BY <1>1, MonitInitial, MonitStepKeeps, PTL DEF MonitSpec, SuccessIsUnderWay, UnderWay

-----------------------------------------------------------------------------
(* haproxy.                                                                *)

USE HaproxyAssumption

(* FlattenSeq of the one or two rounds of a run is their concatenation.    *)
LEMMA FlattenRounds ==
  ASSUME NEW S, NEW a \in Seq(S), NEW b \in Seq(S)
  PROVE  /\ FlattenSeq(<<a>>) = a
         /\ FlattenSeq(<<a, b>>) = a \o b
<1>2. FlattenSeq(<<a>>) = a
  <2> DEFINE Flat(f) == f = [i \in 1..Len(<<a>>) |->
                               IF i = 1 THEN <<a>>[i] ELSE f[i - 1] \o <<a>>[i]]
  <2>1. Flat([i \in 1..1 |-> a])
    OBVIOUS
  <2>2. Flat(CHOOSE f : Flat(f))
    BY <2>1, Zenon
  <2>3. (CHOOSE f : Flat(f))[1] = a
    BY <2>2
  <2>4. Len(<<a>>) = 1
    OBVIOUS
  <2> QED
    BY <2>3, <2>4 DEF FlattenSeq
<1>3. FlattenSeq(<<a, b>>) = a \o b
  <2> DEFINE h == <<a, b>>
             Flat(f) == f = [i \in 1..2 |-> IF i = 1 THEN h[i] ELSE f[i - 1] \o h[i]]
             g == [i \in 1..2 |-> IF i = 1 THEN a ELSE a \o b]
  <2>1. Len(h) = 2 /\ h[1] = a /\ h[2] = b
    OBVIOUS
  <2>2. FlattenSeq(h) = (CHOOSE f : Flat(f))[2]
    BY <2>1 DEF FlattenSeq
  <2> HIDE DEF h
  <2>3. Flat(g)
    <3>1. \A i \in 1..2 : g[i] = IF i = 1 THEN h[i] ELSE g[i - 1] \o h[i]
      BY <2>1
    <3> QED
      BY <3>1
  <2>4. ASSUME NEW f, Flat(f) PROVE f[1] = h[1] /\ f[2] = f[1] \o h[2]
    <3>1. \A i \in 1..2 : f[i] = IF i = 1 THEN h[i] ELSE f[i - 1] \o h[i]
      BY <2>4
    <3>2. 1 \in 1..2 /\ 2 \in 1..2 /\ 2 - 1 = 1 /\ 2 # 1
      OBVIOUS
    <3> HIDE DEF Flat
    <3>3. f[1] = h[1]
      BY <3>1, <3>2
    <3>4. f[2] = f[2 - 1] \o h[2]
      BY <3>1, <3>2
    <3> QED
      BY <3>2, <3>3, <3>4
  <2> HIDE DEF Flat
  <2>5. Flat(CHOOSE f : Flat(f))
    BY <2>3, Zenon
  <2>6. FlattenSeq(h) = a \o b
    BY <2>1, <2>2, <2>4, <2>5
  <2> QED
    BY <2>6 DEF h
<1> QED
  BY <1>2, <1>3

(* The sequence of a finite set has its elements.                          *)
LEMMA SetToSeqElements ==
  ASSUME NEW S, IsFiniteSet(S)
  PROVE  /\ SetToSeq(S) \in Seq(S)
         /\ \A x \in S : \E i \in 1..Len(SetToSeq(S)) : SetToSeq(S)[i] = x
<1> DEFINE n == Cardinality(S)
           Is(f) == f \in [1..n -> S] /\ IsInjective(f)
           f == SetToSeq(S)
<1>1. n \in Nat /\ ExistsBijection(1..n, S)
  BY FS_CardinalityType
<1>2. \E g : Is(g)
  BY <1>1 DEF ExistsBijection, Bijection, Injection
<1>3. f \in [1..n -> S] /\ IsInjective(f)
  BY <1>2 DEF SetToSeq
<1>4. f \in Injection(1..n, S)
  BY <1>3 DEF Injection
<1>5. IsFiniteSet(1..n) /\ Cardinality(1..n) = n
  BY <1>1, FS_Interval
<1>6. f \in Surjection(1..n, S)
  BY <1>4, <1>5, FS_Injection
<1>7. f \in Seq(S) /\ Len(f) = n
  BY <1>1, <1>3
<1> QED
  BY <1>6, <1>7 DEF Surjection

-----------------------------------------------------------------------------

Command == [backend : Backends, admin : Admin]

Tells(t, i, b, admin) == t[i].backend = b /\ t[i].admin = admin

(* What a list of commands is, that tells all servers of a set one thing.  *)
IsRound(s, named, admin) ==
  /\ s \in Seq(Command)
  /\ \A i \in 1..Len(s) : s[i].admin = admin /\ s[i].backend \in named
  /\ \A b \in named : \E i \in 1..Len(s) : Tells(s, i, b, admin)

(* What a run has to do is no round, one, or one that drains and one that  *)
(* disables, each over all the named backends.                             *)
LEMMA CommandsAreRounds ==
  ASSUME NEW op \in Options
  PROVE  \/ Rounds(op) = <<>> /\ Commands(op) = <<>>
         \/ \E a \in Admin : Rounds(op) = <<a>> /\ IsRound(Commands(op), Named(op), a)
         \/ /\ Rounds(op) = <<"drain", "maint">>
            /\ \E s, t : /\ IsRound(s, Named(op), "drain") /\ IsRound(t, Named(op), "maint")
                         /\ Commands(op) = s \o t
<1> DEFINE backends == IF op.backend = All THEN SetToSeq(Backends) ELSE <<op.backend>>
           round(admin) == [i \in DOMAIN backends |-> [backend |-> backends[i], admin |-> admin]]
<1>1. /\ backends \in Seq(Named(op))
      /\ \A b \in Named(op) : \E i \in 1..Len(backends) : backends[i] = b
      /\ Named(op) \subseteq Backends
  <2>1. CASE op.backend = All
    BY <2>1, SetToSeqElements DEF Named
  <2>2. CASE op.backend # All
    BY <2>2 DEF Named, Options
  <2> QED
    BY <2>1, <2>2
<1>2. \A a \in Admin : IsRound(round(a), Named(op), a)
  <2> SUFFICES ASSUME NEW a \in Admin PROVE IsRound(round(a), Named(op), a)
    OBVIOUS
  <2>1. backends \in [1..Len(backends) -> Named(op)] /\ Len(backends) \in Nat
    BY <1>1
  <2> HIDE DEF backends
  <2>2. round(a) \in [1..Len(backends) -> Command]
    BY <1>1, <2>1 DEF Command
  <2>3. round(a) \in Seq(Command) /\ Len(round(a)) = Len(backends)
    BY <2>1, <2>2
  <2>4. \A i \in 1..Len(backends) : Tells(round(a), i, backends[i], a)
    BY <2>1 DEF Tells
  <2> HIDE DEF round
  <2> QED
    BY <1>1, <2>1, <2>3, <2>4 DEF IsRound, Tells
<1>3. Commands(op) = FlattenSeq([r \in DOMAIN Rounds(op) |-> round(Rounds(op)[r])])
  BY DEF Commands
<1> HIDE DEF backends, round
<1>4. \/ Rounds(op) = <<>> \/ (\E a \in Admin : Rounds(op) = <<a>>) \/ Rounds(op) = <<"drain", "maint">>
  <2>1. Rounds(op) \in {<<"ready">>, <<"maint">>, <<>>, <<"drain">>, <<"drain", "maint">>}
    BY Zenon DEF Rounds, Drained, Options
  <2> QED
    BY <2>1 DEF Admin
<1>5. CASE Rounds(op) = <<>>
  <2>1. [r \in DOMAIN Rounds(op) |-> round(Rounds(op)[r])] = <<>>
    BY <1>5
  <2> QED
    BY <1>3, <1>5, <2>1 DEF FlattenSeq
<1>6. ASSUME NEW a \in Admin, Rounds(op) = <<a>>
      PROVE  Commands(op) = round(a)
  <2>1. [r \in DOMAIN Rounds(op) |-> round(Rounds(op)[r])] = <<round(a)>>
    BY <1>6
  <2> QED
    BY <1>2, <1>3, <2>1, FlattenRounds DEF IsRound
<1>7. CASE Rounds(op) = <<"drain", "maint">>
  <2>1. [r \in DOMAIN Rounds(op) |-> round(Rounds(op)[r])] = <<round("drain"), round("maint")>>
    BY <1>7
  <2>2. "drain" \in Admin /\ "maint" \in Admin
    BY DEF Admin
  <2>3. Commands(op) = round("drain") \o round("maint")
    BY <1>2, <1>3, <2>1, <2>2, FlattenRounds DEF IsRound
  <2> QED
    BY <1>2, <1>7, <2>2, <2>3
<1> QED
  BY <1>2, <1>4, <1>5, <1>6, <1>7

-----------------------------------------------------------------------------
(* What is left to do, and what was done, in every state of a run.         *)

Wanted(op) ==
  CASE op.state = "enabled" -> "ready"
    [] op.state = "disabled" -> "maint"
    [] op.state = "drain" -> "drain"

TooOld(op) == ~op.modern /\ (op.drain \/ op.state = "drain")

ServerType ==
  server \in [Backends -> [here : BOOLEAN, admin : Admin, up : BOOLEAN, sessions : Nat, persistent : Nat]]

HaPhases == {"idle", "command", "poll", "done", "failed"}

NoOptions == [state |-> "none"]

HaRunType ==
  /\ hrun \in [op : Options \cup {NoOptions}, phase : HaPhases, todo : Seq(Command), polls : Nat]
  /\ hrun.phase # "idle" => hrun.op \in Options

(* A command that is not the one asked for is to drain, and a later one    *)
(* disables the same server.                                               *)
InOrder(op, todo) ==
  \A i \in 1..Len(todo) :
    todo[i].admin # Wanted(op) =>
      /\ op.state = "disabled" /\ todo[i].admin = "drain"
      /\ \E j \in (i + 1)..Len(todo) : Tells(todo, j, todo[i].backend, "maint")

(* A named server is as it was asked to be, or will be told, when the run  *)
(* waits to see it.                                                        *)
Told(op, todo, srv) ==
  \A b \in Named(op) :
    op.wait /\ srv[b].here /\ ~TooOld(op) =>
      srv[b].admin = Wanted(op) \/ \E i \in 1..Len(todo) : Tells(todo, i, b, Wanted(op))

(* A server that is to be disabled is draining, with no sessions from      *)
(* before, or is drained first.                                            *)
DrainedFirst(op, todo, srv) ==
  op.drain /\ op.wait =>
    \A i \in 1..Len(todo) :
      todo[i].admin = "maint" =>
        LET b == todo[i].backend
        IN  \/ ~srv[b].here
            \/ srv[b].admin # "ready" /\ srv[b].sessions = 0
            \/ \E j \in 1..(i - 1) : Tells(todo, j, b, "drain")

(* A run that polls has the option wait.                                   *)
Waiting ==
  hrun.phase = "poll" => hrun.todo # <<>> /\ hrun.op.wait

Work(op, todo, srv) == InOrder(op, todo) /\ Told(op, todo, srv) /\ DrainedFirst(op, todo, srv)

HaInv ==
  /\ ServerType /\ HaRunType /\ Waiting
  /\ hrun.phase # "idle" => Work(hrun.op, hrun.todo, server)
  /\ hrun.phase = "done" => hrun.todo = <<>>

(* The first command, and the others.                                      *)
LEMMA TailFacts ==
  ASSUME NEW t \in Seq(Command), t # <<>>
  PROVE  /\ Head(t) = t[1] /\ Head(t) \in Command
         /\ Len(t) \in Nat \ {0} /\ Tail(t) \in Seq(Command) /\ Len(Tail(t)) = Len(t) - 1
         /\ \A i \in 1..Len(Tail(t)) : i + 1 \in 2..Len(t) /\ Tail(t)[i] = t[i + 1]
<1> HIDE DEF Command
<1> QED
  OBVIOUS

(* Every command is for a backend.                                         *)
LEMMA EachBackend ==
  ASSUME NEW t \in Seq(Command), NEW i \in 1..Len(t)
  PROVE  t[i] \in Command /\ t[i].backend \in Backends /\ t[i].admin \in Admin
<1>1. t[i] \in Command
  <2> HIDE DEF Command
  <2> QED
    OBVIOUS
<1> QED
  BY <1>1 DEF Command

(* What is asked for and what is sent, by the option state.                *)
LEMMA WhatIsSent ==
  ASSUME NEW op \in Options
  PROVE  /\ op.state = "enabled" => Wanted(op) = "ready" /\ Rounds(op) = <<"ready">>
         /\ op.state = "drain" =>
              Wanted(op) = "drain" /\ Rounds(op) = IF op.modern THEN <<"drain">> ELSE <<>>
         /\ op.state = "disabled" =>
              Wanted(op) = "maint"
         /\ op.state = "disabled" /\ op.drain =>
              Rounds(op) = IF op.modern THEN <<"drain", "maint">> ELSE <<>>
         /\ op.state = "disabled" /\ ~op.drain => Rounds(op) = <<"maint">>
         /\ op.state \in {"enabled", "disabled", "drain"}
<1>1. op.state \in {"enabled", "disabled", "drain"}
  BY DEF Options
<1>2. op.state = "enabled" => Wanted(op) = "ready" /\ Rounds(op) = <<"ready">>
  BY Zenon DEF Wanted, Rounds
<1>3. op.state = "drain" => Wanted(op) = "drain" /\ Rounds(op) = Drained(op, <<"drain">>)
  BY Zenon DEF Wanted, Rounds
<1>4. op.state = "disabled" => Wanted(op) = "maint"
  BY Zenon DEF Wanted
<1>5. op.state = "disabled" /\ op.drain => Rounds(op) = Drained(op, <<"drain", "maint">>)
  BY Zenon DEF Rounds
<1>6. op.state = "disabled" /\ ~op.drain => Rounds(op) = <<"maint">>
  BY Zenon DEF Rounds
<1> QED
  BY <1>1, <1>2, <1>3, <1>4, <1>5, <1>6 DEF Drained

(* It holds of the commands a run begins with, whatever the servers are.   *)
LEMMA BeginWork ==
  ASSUME NEW op \in Options, NEW srv
  PROVE  Commands(op) \in Seq(Command) /\ Work(op, Commands(op), srv)
<1>1. CASE Rounds(op) = <<>> /\ Commands(op) = <<>>
  <2>1. TooOld(op)
    <3>1. <<>> \notin {<<"ready">>, <<"maint">>, <<"drain">>, <<"drain", "maint">>}
      OBVIOUS
    <3> QED
      BY <1>1, <3>1, WhatIsSent DEF TooOld
  <2> QED
    BY <1>1, <2>1 DEF Work, InOrder, Told, DrainedFirst
<1>2. ASSUME NEW a \in Admin, Rounds(op) = <<a>>, IsRound(Commands(op), Named(op), a)
      PROVE  Commands(op) \in Seq(Command) /\ Work(op, Commands(op), srv)
  <2>1. a = Wanted(op) /\ (a = "maint" => ~op.drain)
    <3>1. <<a>> # <<>> /\ <<a>> # <<"drain", "maint">> /\ <<a>>[1] = a
      OBVIOUS
    <3>2. /\ <<"drain">>[1] = "drain" /\ <<"ready">>[1] = "ready" /\ <<"maint">>[1] = "maint"
      OBVIOUS
    <3> QED
      BY <1>2, <3>1, <3>2, WhatIsSent
  <2>2. InOrder(op, Commands(op))
    BY <1>2, <2>1 DEF InOrder, IsRound
  <2>3. Told(op, Commands(op), srv)
    BY <1>2, <2>1 DEF Told, IsRound
  <2>4. DrainedFirst(op, Commands(op), srv)
    BY <1>2, <2>1 DEF DrainedFirst, IsRound
  <2> QED
    BY <1>2, <2>2, <2>3, <2>4 DEF IsRound, Work
<1>3. ASSUME NEW s, NEW t, Rounds(op) = <<"drain", "maint">>,
             IsRound(s, Named(op), "drain"), IsRound(t, Named(op), "maint"), Commands(op) = s \o t
      PROVE  Commands(op) \in Seq(Command) /\ Work(op, Commands(op), srv)
  <2>1. op.state = "disabled" /\ Wanted(op) = "maint"
    <3>1. <<"drain", "maint">> \notin {<<>>, <<"ready">>, <<"drain">>, <<"maint">>}
      OBVIOUS
    <3> QED
      BY <1>3, <3>1, WhatIsSent
  <2> DEFINE st == s \o t
  <2>2. s \in Seq(Command) /\ t \in Seq(Command)
    BY <1>3 DEF IsRound
  <2>3. /\ st \in Seq(Command) /\ Len(st) = Len(s) + Len(t) /\ Len(s) \in Nat /\ Len(t) \in Nat
        /\ \A i \in 1..Len(s) : st[i] = s[i]
        /\ \A i \in 1..Len(t) : st[Len(s) + i] = t[i]
        /\ \A i \in 1..Len(st) : i \in 1..Len(s) \/ (i - Len(s) \in 1..Len(t) /\ st[i] = t[i - Len(s)])
    <3> HIDE DEF Command
    <3> QED
      BY <2>2
  <2> HIDE DEF st
  <2>4. \A i \in 1..Len(st) :
          /\ i \in 1..Len(s) => st[i].admin = "drain" /\ st[i].backend \in Named(op)
          /\ i \notin 1..Len(s) => st[i].admin = "maint" /\ st[i].backend \in Named(op)
    <3>1. \A i \in 1..Len(s) : s[i].admin = "drain" /\ s[i].backend \in Named(op)
      BY <1>3 DEF IsRound
    <3>2. \A i \in 1..Len(t) : t[i].admin = "maint" /\ t[i].backend \in Named(op)
      BY <1>3 DEF IsRound
    <3> TAKE i \in 1..Len(st)
    <3>3. CASE i \in 1..Len(s)
      BY <2>3, <3>1, <3>3
    <3>4. CASE i \notin 1..Len(s)
      <4>1. i - Len(s) \in 1..Len(t) /\ st[i] = t[i - Len(s)]
        BY <2>3, <3>4
      <4> QED
        BY <3>2, <3>4, <4>1
    <3> QED
      BY <3>3, <3>4
  <2>5. \A b \in Named(op) :
          /\ \E i \in 1..Len(s) : Tells(st, i, b, "drain")
          /\ \E i \in (Len(s) + 1)..Len(st) : Tells(st, i, b, "maint")
    <3> TAKE b \in Named(op)
    <3>1. PICK i \in 1..Len(s) : Tells(s, i, b, "drain")
      BY <1>3 DEF IsRound
    <3>2. PICK k \in 1..Len(t) : Tells(t, k, b, "maint")
      BY <1>3 DEF IsRound
    <3>3. Tells(st, i, b, "drain")
      BY <2>3, <3>1 DEF Tells
    <3>4. Len(s) + k \in (Len(s) + 1)..Len(st) /\ Tells(st, Len(s) + k, b, "maint")
      BY <2>3, <3>2 DEF Tells
    <3> QED
      BY <3>3, <3>4
  <2>6. InOrder(op, st)
    <3> SUFFICES ASSUME NEW i \in 1..Len(st), st[i].admin # "maint"
                 PROVE  /\ st[i].admin = "drain"
                        /\ \E j \in (i + 1)..Len(st) : Tells(st, j, st[i].backend, "maint")
      BY <2>1 DEF InOrder
    <3>1. i \in 1..Len(s) /\ st[i].admin = "drain" /\ st[i].backend \in Named(op)
      BY <2>4
    <3>2. PICK j \in (Len(s) + 1)..Len(st) : Tells(st, j, st[i].backend, "maint")
      BY <2>5, <3>1
    <3>3. j \in (i + 1)..Len(st)
      BY <2>3, <3>1, <3>2
    <3> QED
      BY <3>1, <3>2, <3>3
  <2>7. Told(op, st, srv)
    BY <2>1, <2>3, <2>5 DEF Told
  <2>8. DrainedFirst(op, st, srv)
    BY <2>3, <2>4, <2>5 DEF DrainedFirst
  <2>9. Commands(op) = st
    BY <1>3 DEF st
  <2> QED
    BY <2>3, <2>6, <2>7, <2>8, <2>9 DEF Work
<1> QED
  BY <1>1, <1>2, <1>3, CommandsAreRounds

(* The first command is done with when its server is not there, has what   *)
(* was sent, or nobody waits for it.                                       *)
LEMMA TailWork ==
  ASSUME NEW op \in Options, NEW todo \in Seq(Command), todo # <<>>, NEW srv, Work(op, todo, srv),
         LET c == Head(todo)
         IN  \/ ~srv[c.backend].here
             \/ op.wait =>
                  /\ srv[c.backend].admin = c.admin
                  /\ op.drain => srv[c.backend].sessions = 0
  PROVE  Work(op, Tail(todo), srv)
<1> DEFINE rest == Tail(todo)
           c == Head(todo)
<1>1. /\ c = todo[1] /\ Len(todo) \in Nat \ {0} /\ Len(rest) = Len(todo) - 1
      /\ \A i \in 1..Len(rest) : i + 1 \in 2..Len(todo) /\ rest[i] = todo[i + 1]
  BY TailFacts
<1>c. \/ ~srv[c.backend].here
      \/ op.wait =>
           /\ srv[c.backend].admin = c.admin
           /\ op.drain => srv[c.backend].sessions = 0
  OBVIOUS
<1> HIDE DEF rest, c
<1>2. \A i \in 2..Len(todo) : i - 1 \in 1..Len(rest) /\ rest[i - 1] = todo[i]
  BY <1>1
<1>3. InOrder(op, rest)
  <2> SUFFICES ASSUME NEW i \in 1..Len(rest), rest[i].admin # Wanted(op)
               PROVE  /\ op.state = "disabled" /\ rest[i].admin = "drain"
                      /\ \E j \in (i + 1)..Len(rest) : Tells(rest, j, rest[i].backend, "maint")
    BY DEF InOrder
  <2>1. i + 1 \in 1..Len(todo) /\ rest[i] = todo[i + 1]
    BY <1>1
  <2>2. PICK j \in (i + 2)..Len(todo) : Tells(todo, j, rest[i].backend, "maint")
    <3>1. \E j \in ((i + 1) + 1)..Len(todo) : Tells(todo, j, rest[i].backend, "maint")
      BY <2>1 DEF Work, InOrder
    <3> QED
      BY <3>1
  <2>3. j - 1 \in (i + 1)..Len(rest) /\ Tells(rest, j - 1, rest[i].backend, "maint")
    BY <1>1, <1>2, <2>2 DEF Tells
  <2>4. op.state = "disabled" /\ rest[i].admin = "drain"
    BY <2>1 DEF Work, InOrder
  <2> QED
    BY <2>3, <2>4
<1>4. Told(op, rest, srv)
  <2> SUFFICES ASSUME op.wait, NEW b \in Named(op), srv[b].here, ~TooOld(op), srv[b].admin # Wanted(op)
               PROVE  \E i \in 1..Len(rest) : Tells(rest, i, b, Wanted(op))
    BY DEF Told
  <2>1. PICK i \in 1..Len(todo) : Tells(todo, i, b, Wanted(op))
    BY DEF Work, Told
  <2>2. i # 1
    BY <1>1, <1>c, <2>1 DEF Tells
  <2>3. i - 1 \in 1..Len(rest) /\ Tells(rest, i - 1, b, Wanted(op))
    BY <1>1, <1>2, <2>1, <2>2 DEF Tells
  <2> QED
    BY <2>3
<1>5. DrainedFirst(op, rest, srv)
  <2> SUFFICES ASSUME op.drain, op.wait, NEW i \in 1..Len(rest), rest[i].admin = "maint",
                      srv[rest[i].backend].here,
                      ~(srv[rest[i].backend].admin # "ready" /\ srv[rest[i].backend].sessions = 0)
               PROVE  \E j \in 1..(i - 1) : Tells(rest, j, rest[i].backend, "drain")
    BY DEF DrainedFirst
  <2>1. i + 1 \in 1..Len(todo) /\ rest[i] = todo[i + 1]
    BY <1>1
  <2>2. PICK j \in 1..i : Tells(todo, j, rest[i].backend, "drain")
    <3>1. \E j \in 1..((i + 1) - 1) : Tells(todo, j, rest[i].backend, "drain")
      BY <2>1 DEF Work, DrainedFirst
    <3> QED
      BY <3>1
  <2>3. j # 1
    BY <1>1, <1>c, <2>2 DEF Tells
  <2>4. j - 1 \in 1..(i - 1) /\ Tells(rest, j - 1, rest[i].backend, "drain")
    BY <1>1, <1>2, <2>1, <2>2, <2>3 DEF Tells
  <2> QED
    BY <2>4
<1> QED
  BY <1>3, <1>4, <1>5 DEF Work, rest

(* The first command is sent to its server.                                *)
LEMMA SentWork ==
  ASSUME NEW op \in Options, NEW todo \in Seq(Command), todo # <<>>, NEW srv, NEW srv2,
         Work(op, todo, srv), srv[Head(todo).backend].here,
         \A b \in Backends :
           srv2[b].here = srv[b].here /\ (b # Head(todo).backend => srv2[b] = srv[b]),
         srv2[Head(todo).backend].admin = Head(todo).admin,
         srv2[Head(todo).backend].sessions \in {0, srv[Head(todo).backend].sessions}
  PROVE  Work(op, todo, srv2)
<1> DEFINE c == Head(todo)
<1>1. /\ c = todo[1] /\ Len(todo) \in Nat \ {0} /\ c \in Command
      /\ \A i \in 1..Len(todo) : todo[i].backend \in Backends
  BY TailFacts, EachBackend
<1>c. /\ srv[c.backend].here
      /\ \A b \in Backends : srv2[b].here = srv[b].here /\ (b # c.backend => srv2[b] = srv[b])
      /\ srv2[c.backend].admin = c.admin
      /\ srv2[c.backend].sessions \in {0, srv[c.backend].sessions}
  OBVIOUS
<1> HIDE DEF c
<1>2. InOrder(op, todo)
  BY DEF Work
<1>3. Told(op, todo, srv2)
  <2> SUFFICES ASSUME op.wait, NEW b \in Named(op), srv2[b].here, ~TooOld(op), srv2[b].admin # Wanted(op)
               PROVE  \E i \in 1..Len(todo) : Tells(todo, i, b, Wanted(op))
    BY DEF Told
  <2>0. b \in Backends
    BY DEF Named, Options
  <2>1. CASE b # c.backend
    BY <1>c, <2>0, <2>1 DEF Work, Told
  <2>2. CASE b = c.backend
    <3>1. todo[1].admin # Wanted(op) /\ 1 \in 1..Len(todo)
      BY <1>1, <1>c, <2>2
    <3>2. op.state = "disabled" /\ \E j \in 2..Len(todo) : Tells(todo, j, todo[1].backend, "maint")
      <4>1. \E j \in (1 + 1)..Len(todo) : Tells(todo, j, todo[1].backend, "maint")
        BY <1>2, <3>1 DEF InOrder
      <4> QED
        BY <1>2, <3>1, <4>1 DEF InOrder
    <3> QED
      BY <1>1, <2>2, <3>2, WhatIsSent
  <2> QED
    BY <2>1, <2>2
<1>4. DrainedFirst(op, todo, srv2)
  <2> SUFFICES ASSUME op.drain, op.wait, NEW i \in 1..Len(todo), todo[i].admin = "maint",
                      srv2[todo[i].backend].here,
                      ~(srv2[todo[i].backend].admin # "ready" /\ srv2[todo[i].backend].sessions = 0)
               PROVE  \E j \in 1..(i - 1) : Tells(todo, j, todo[i].backend, "drain")
    BY DEF DrainedFirst
  <2> DEFINE b == todo[i].backend
  <2>0. b \in Backends /\ Head(todo) = c
    BY <1>1 DEF c
  <2>1. CASE b # c.backend
    BY <1>c, <2>0, <2>1 DEF Work, DrainedFirst
  <2>2. CASE b = c.backend
    <3>1. op.state = "disabled" \/ Wanted(op) = "maint"
      BY <1>2 DEF InOrder
    <3>2. Wanted(op) = "maint"
      BY <3>1, WhatIsSent
    <3>3. c.admin # "ready"
      BY <1>1, <1>2, <3>2 DEF InOrder
    <3>4. ~(srv[b].admin # "ready" /\ srv[b].sessions = 0)
      BY <1>c, <2>2, <3>3
    <3> QED
      BY <1>c, <2>0, <3>4 DEF Work, DrainedFirst
  <2> QED
    BY <2>1, <2>2
<1> QED
  BY <1>2, <1>3, <1>4 DEF Work

(* Health checks and sessions.                                             *)
LEMMA OthersWork ==
  ASSUME NEW op \in Options, NEW todo \in Seq(Command), NEW srv, NEW srv2, Work(op, todo, srv),
         \A b \in Backends :
           /\ srv2[b].here = srv[b].here /\ srv2[b].admin = srv[b].admin
           /\ srv[b].admin # "ready" /\ srv[b].sessions = 0 => srv2[b].sessions = 0
  PROVE  Work(op, todo, srv2)
<1>1. \A i \in 1..Len(todo) : todo[i].backend \in Backends
  BY EachBackend
<1>2. Named(op) \subseteq Backends
  BY DEF Named, Options
<1>3. Told(op, todo, srv2)
  BY <1>2 DEF Work, Told
<1>4. DrainedFirst(op, todo, srv2)
  BY <1>1 DEF Work, DrainedFirst
<1> QED
  BY <1>3, <1>4 DEF Work

-----------------------------------------------------------------------------
(* Every step keeps the invariant.                                         *)

(* No run has begun.                                                       *)
LEMMA HaInitial == HaInit => HaInv
<1> SUFFICES ASSUME HaInit PROVE HaInv
  OBVIOUS
<1>1. ServerType
  <2>1. Servers \subseteq [here : BOOLEAN, admin : Admin, up : BOOLEAN, sessions : Nat, persistent : Nat]
    BY DEF Servers
  <2>2. server \in [Backends -> Servers]
    BY DEF HaInit
  <2> QED
    BY <2>1, <2>2 DEF ServerType
<1>2. HaRunType /\ hrun.phase = "idle"
  <2>1. <<>> \in Seq(Command) /\ 0 \in Nat /\ "idle" \in HaPhases
    BY DEF HaPhases
  <2>2. hrun = [op |-> NoOptions, phase |-> "idle", todo |-> <<>>, polls |-> 0]
    BY DEF HaInit, Idle, NoOptions
  <2> HIDE DEF Command, HaPhases
  <2> QED
    BY <2>1, <2>2 DEF HaRunType
<1> QED
  BY <1>1, <1>2 DEF HaInv, Waiting

(* What a step of the run makes of its record.                             *)
LEMMA HaGoes ==
  ASSUME HaRunType, hrun.phase # "idle", NEW p \in HaPhases, NEW t \in Seq(Command), NEW n \in Nat,
         Go(p, t, n), p # "idle"
  PROVE  /\ HaRunType'
         /\ hrun'.op = hrun.op /\ hrun'.phase = p /\ hrun'.todo = t
<1> HIDE DEF Command, HaPhases
<1> QED
  BY DEF HaRunType, Go

(* What the statistics show tells what the server was told.                *)
LEMMA StatusTells ==
  ASSUME ServerType, NEW b \in Backends
  PROVE  /\ Status(b) = "UP" => server[b].admin = "ready"
         /\ Status(b) = "DRAIN" => server[b].admin = "drain"
         /\ \A c : c.backend = b /\ c.admin \in Admin /\ HasStatus(c) => server[b].admin = c.admin
<1>1. server[b].admin \in Admin /\ server[b].up \in BOOLEAN
  BY DEF ServerType
<1>2. /\ "drain" # "maint" /\ "ready" # "maint" /\ "drain" # "ready" /\ "DOWN" \notin {"UP", "DRAIN", "MAINT"}
      /\ "UP" \notin {"DRAIN", "MAINT"} /\ "DRAIN" # "MAINT"
  OBVIOUS
<1>3. server[b].admin = "maint" => Status(b) = "MAINT"
  BY <1>2, Zenon DEF Status
<1>4. server[b].admin = "drain" => Status(b) = IF server[b].up THEN "DRAIN" ELSE "DOWN"
  BY <1>2, Zenon DEF Status
<1>5. server[b].admin = "ready" => Status(b) = IF server[b].up THEN "UP" ELSE "DOWN"
  BY <1>2, Zenon DEF Status
<1>6. /\ Status(b) = "UP" => server[b].admin = "ready"
      /\ Status(b) = "DRAIN" => server[b].admin = "drain"
      /\ Status(b) = "MAINT" => server[b].admin = "maint"
  BY <1>1, <1>2, <1>3, <1>4, <1>5 DEF Admin
<1>7. ASSUME NEW c, c.backend = b, c.admin \in Admin, HasStatus(c)
      PROVE  server[b].admin = c.admin
  <2>1. c.admin = "ready" => Status(b) = "UP"
    BY <1>2, <1>7, Zenon DEF HasStatus
  <2>2. c.admin = "drain" => Status(b) = "DRAIN"
    BY <1>2, <1>7, Zenon DEF HasStatus
  <2>3. c.admin = "maint" => Status(b) = "MAINT"
    BY <1>2, <1>7, Zenon DEF HasStatus
  <2> QED
    BY <1>6, <1>7, <2>1, <2>2, <2>3 DEF Admin
<1> QED
  BY <1>6, <1>7

(* What a server that obeys a command becomes, and that no other changes.  *)
LEMMA ObeyedFacts ==
  ASSUME ServerType, NEW c, c.backend \in Backends, c.admin \in Admin
  PROVE  /\ Obeyed(c) \in [Backends -> [here : BOOLEAN, admin : Admin, up : BOOLEAN,
                                       sessions : Nat, persistent : Nat]]
         /\ Obeyed(c)[c.backend].here = server[c.backend].here
         /\ Obeyed(c)[c.backend].admin = c.admin
         /\ Obeyed(c)[c.backend].sessions \in {0, server[c.backend].sessions}
         /\ \A b \in Backends : b # c.backend => Obeyed(c)[b] = server[b]
<1> DEFINE old == server[c.backend]
           cut == c.admin = "maint" /\ hrun.op.shutdown
           s == [old EXCEPT !.admin = c.admin, !.sessions = IF cut THEN 0 ELSE old.sessions,
                            !.persistent = IF cut THEN 0 ELSE old.persistent]
<1>1. Obeyed(c) = [server EXCEPT ![c.backend] = s]
  BY DEF Obeyed
<1>2. /\ s \in [here : BOOLEAN, admin : Admin, up : BOOLEAN, sessions : Nat, persistent : Nat]
      /\ s.here = old.here /\ s.admin = c.admin /\ s.sessions \in {0, old.sessions}
  <2>1. old \in [here : BOOLEAN, admin : Admin, up : BOOLEAN, sessions : Nat, persistent : Nat]
    BY DEF ServerType
  <2> HIDE DEF old, cut
  <2> QED
    BY <2>1
<1> HIDE DEF s
<1> QED
  BY <1>1, <1>2 DEF ServerType

(* The steps of the run.                                                   *)
LEMMA RunKeepsHaInv ==
  ASSUME HaInv, HaStep
  PROVE  HaInv'
<1> DEFINE op == hrun.op
           todo == hrun.todo
           c == Head(hrun.todo)
<1>1. HaRunType /\ hrun.phase # "idle" /\ op \in Options /\ todo \in Seq(Command) /\ hrun.polls \in Nat
  BY DEF HaInv, HaRunType, HaStep, NotFound, Execute, Poll, GiveUp, Finish
<1>2. ServerType /\ Work(op, todo, server)
  BY <1>1 DEF HaInv
<1>3. /\ "command" \in HaPhases /\ "poll" \in HaPhases /\ "failed" \in HaPhases /\ "done" \in HaPhases
      /\ 0 \in Nat /\ 1 \in Nat /\ hrun.polls + 1 \in Nat
  BY <1>1 DEF HaPhases
<1>4. todo # <<>> => c \in Command /\ c.backend \in Backends /\ c.admin \in Admin /\ Tail(todo) \in Seq(Command)
  BY <1>1, TailFacts DEF Command
<1>5. CASE NotFound
  <2>1. todo # <<>> /\ ~server[c.backend].here /\ server' = server
    BY <1>5 DEF NotFound
  <2>2. Work(op, Tail(todo), server)
    BY <1>1, <1>2, <2>1, TailWork
  <2>3. Go("failed", todo, 0) \/ Go("command", Tail(todo), 0)
    BY <1>5 DEF NotFound
  <2>4. /\ HaRunType' /\ hrun'.op = op /\ hrun'.phase \in {"failed", "command"}
        /\ hrun'.todo \in {todo, Tail(todo)}
    BY <1>1, <1>3, <1>4, <2>1, <2>3, HaGoes
  <2>5. Work(op, hrun'.todo, server')
    BY <1>2, <2>1, <2>2, <2>4
  <2> QED
    BY <1>2, <2>1, <2>4, <2>5 DEF HaInv, ServerType, Waiting
<1>6. CASE Execute
  <2>1. todo # <<>> /\ server[c.backend].here
    BY <1>6 DEF Execute
  <2>2. server' = Obeyed(c) \/ server' = server
    BY <1>6 DEF Execute
  <2>3. ServerType'
    BY <1>2, <1>4, <2>1, <2>2, ObeyedFacts DEF ServerType
  <2>4. Work(op, todo, server')
    <3>1. CASE server' = server
      BY <1>2, <3>1
    <3>2. CASE server' = Obeyed(c)
      <4>1. \A b \in Backends :
              server'[b].here = server[b].here /\ (b # c.backend => server'[b] = server[b])
        BY <1>2, <1>4, <2>1, <3>2, ObeyedFacts
      <4>2. /\ server'[c.backend].admin = c.admin
            /\ server'[c.backend].sessions \in {0, server[c.backend].sessions}
        BY <1>2, <1>4, <2>1, <3>2, ObeyedFacts
      <4> QED
        BY <1>1, <1>2, <2>1, <4>1, <4>2, SentWork
    <3> QED
      BY <2>2, <3>1, <3>2
  <2>5. CASE op.wait
    <3>1. Go("poll", todo, 1)
      BY <1>6, <2>5 DEF Execute
    <3>2. HaRunType' /\ hrun'.op = op /\ hrun'.phase = "poll" /\ hrun'.todo = todo
      BY <1>1, <1>3, <3>1, HaGoes
    <3> QED
      BY <2>1, <2>3, <2>4, <2>5, <3>2 DEF HaInv, Waiting
  <2>6. CASE ~op.wait
    <3>1. Go("command", Tail(todo), 0)
      BY <1>6, <2>6 DEF Execute
    <3>2. HaRunType' /\ hrun'.op = op /\ hrun'.phase = "command" /\ hrun'.todo = Tail(todo)
      BY <1>1, <1>3, <1>4, <2>1, <3>1, HaGoes
    <3>3. Work(op, Tail(todo), server')
      BY <1>1, <2>1, <2>4, <2>6, TailWork
    <3> QED
      BY <2>3, <3>2, <3>3 DEF HaInv, Waiting
  <2> QED
    BY <2>5, <2>6
<1>7. CASE Poll
  <2>1. todo # <<>> /\ op.wait /\ server' = server
    BY <1>7 DEF Poll, HaInv, Waiting
  <2>2. CASE HasReached(c)
    <3>0. server[c.backend].admin = c.admin
      BY <1>2, <1>4, <2>1, <2>2, StatusTells DEF HasReached
    <3>4. op.drain => server[c.backend].sessions = 0
      BY <1>2, <1>4, <2>1, <2>2 DEF HasReached, Scur, ServerType
    <3>1. Work(op, Tail(todo), server)
      BY <1>1, <1>2, <2>1, <3>0, <3>4, TailWork
    <3>2. Go("command", Tail(todo), 0)
      BY <1>7, <2>2 DEF Poll
    <3>3. HaRunType' /\ hrun'.op = op /\ hrun'.phase = "command" /\ hrun'.todo = Tail(todo)
      BY <1>1, <1>3, <1>4, <2>1, <3>2, HaGoes
    <3> QED
      BY <1>2, <2>1, <3>1, <3>3 DEF HaInv, ServerType, Waiting
  <2>3. CASE ~HasReached(c)
    <3>1. Go("poll", todo, hrun.polls + 1)
      BY <1>7, <2>3 DEF Poll
    <3>2. HaRunType' /\ hrun'.op = op /\ hrun'.phase = "poll" /\ hrun'.todo = todo
      BY <1>1, <1>3, <3>1, HaGoes
    <3> QED
      BY <1>2, <2>1, <2>3, <3>2 DEF HaInv, ServerType, Waiting
  <2> QED
    BY <2>2, <2>3
<1>8. CASE GiveUp
  <2>1. HaRunType' /\ hrun'.op = op /\ hrun'.phase = "failed" /\ hrun'.todo = todo /\ server' = server
    BY <1>1, <1>3, <1>8, HaGoes DEF GiveUp
  <2> QED
    BY <1>2, <2>1 DEF HaInv, ServerType, Waiting
<1>9. CASE Finish
  <2>1. todo = <<>> /\ Go("done", todo, 0) /\ server' = server
    BY <1>9 DEF Finish
  <2>2. HaRunType' /\ hrun'.op = op /\ hrun'.phase = "done" /\ hrun'.todo = todo
    BY <1>1, <1>3, <2>1, HaGoes
  <2> QED
    BY <1>2, <2>1, <2>2 DEF HaInv, ServerType, Waiting
<1> QED
  BY <1>5, <1>6, <1>7, <1>8, <1>9 DEF HaStep

(* What others do to the servers.                                          *)
LEMMA OthersKeepHaInv ==
  ASSUME HaInv, NEW b \in Backends, Check(b) \/ SessionBegins(b) \/ SessionEnds(b)
  PROVE  HaInv'
<1>1. ServerType /\ hrun' = hrun /\ HaRunType /\ Waiting
  BY DEF HaInv, Check, SessionBegins, SessionEnds
<1>2. PICK s \in [here : BOOLEAN, admin : Admin, up : BOOLEAN, sessions : Nat, persistent : Nat] :
        /\ server' = [server EXCEPT ![b] = s]
        /\ s.here = server[b].here /\ s.admin = server[b].admin
        /\ server[b].admin # "ready" /\ server[b].sessions = 0 => s.sessions = 0
  <2>1. CASE Check(b)
    <3> DEFINE s == [server[b] EXCEPT !.up = ~server[b].up]
    <3>1. server' = [server EXCEPT ![b] = s]
      BY <2>1 DEF Check
    <3>2. /\ s \in [here : BOOLEAN, admin : Admin, up : BOOLEAN, sessions : Nat, persistent : Nat]
          /\ s.here = server[b].here /\ s.admin = server[b].admin /\ s.sessions = server[b].sessions
      BY <1>1 DEF ServerType
    <3> HIDE DEF s
    <3> QED
      BY <3>1, <3>2
  <2>2. CASE server' = [server EXCEPT ![b].sessions = server[b].sessions + 1] /\ server[b].admin = "ready"
    <3> DEFINE s == [server[b] EXCEPT !.sessions = server[b].sessions + 1]
    <3>1. server' = [server EXCEPT ![b] = s]
      BY <2>2
    <3>2. /\ s \in [here : BOOLEAN, admin : Admin, up : BOOLEAN, sessions : Nat, persistent : Nat]
          /\ s.here = server[b].here /\ s.admin = server[b].admin
      BY <1>1, <2>2 DEF ServerType
    <3> HIDE DEF s
    <3> QED
      BY <1>1, <2>2, <3>1, <3>2 DEF ServerType
  <2>3. CASE server' = [server EXCEPT ![b].persistent = server[b].persistent + 1]
    <3> DEFINE s == [server[b] EXCEPT !.persistent = server[b].persistent + 1]
    <3>1. server' = [server EXCEPT ![b] = s]
      BY <2>3
    <3>2. /\ s \in [here : BOOLEAN, admin : Admin, up : BOOLEAN, sessions : Nat, persistent : Nat]
          /\ s.here = server[b].here /\ s.admin = server[b].admin /\ s.sessions = server[b].sessions
      BY <1>1, <2>3 DEF ServerType
    <3> HIDE DEF s
    <3> QED
      BY <1>1, <2>3, <3>1, <3>2 DEF ServerType
  <2>4. CASE server' = [server EXCEPT ![b].sessions = server[b].sessions - 1] /\ server[b].sessions > 0
    <3> DEFINE s == [server[b] EXCEPT !.sessions = server[b].sessions - 1]
    <3>1. server' = [server EXCEPT ![b] = s]
      BY <2>4
    <3>2. /\ s \in [here : BOOLEAN, admin : Admin, up : BOOLEAN, sessions : Nat, persistent : Nat]
          /\ s.here = server[b].here /\ s.admin = server[b].admin
      BY <1>1, <2>4 DEF ServerType
    <3>3. server[b].sessions # 0
      BY <1>1, <2>4 DEF ServerType
    <3> HIDE DEF s
    <3> QED
      BY <3>1, <3>2, <3>3
  <2>5. CASE server' = [server EXCEPT ![b].persistent = server[b].persistent - 1] /\ server[b].persistent > 0
    <3> DEFINE s == [server[b] EXCEPT !.persistent = server[b].persistent - 1]
    <3>1. server' = [server EXCEPT ![b] = s]
      BY <2>5
    <3>2. /\ s \in [here : BOOLEAN, admin : Admin, up : BOOLEAN, sessions : Nat, persistent : Nat]
          /\ s.here = server[b].here /\ s.admin = server[b].admin /\ s.sessions = server[b].sessions
      BY <1>1, <2>5 DEF ServerType
    <3> HIDE DEF s
    <3> QED
      BY <1>1, <2>5, <3>1, <3>2 DEF ServerType
  <2>6. CASE SessionBegins(b)
    BY <1>1, <2>2, <2>3, <2>6, StatusTells DEF SessionBegins
  <2>7. CASE SessionEnds(b)
    BY <2>4, <2>5, <2>7 DEF SessionEnds
  <2> QED
    BY <2>1, <2>6, <2>7
<1>3. /\ ServerType'
      /\ \A x \in Backends :
           /\ server'[x].here = server[x].here /\ server'[x].admin = server[x].admin
           /\ server[x].admin # "ready" /\ server[x].sessions = 0 => server'[x].sessions = 0
  BY <1>1, <1>2 DEF ServerType
<1>4. hrun.phase # "idle" => Work(hrun.op, hrun.todo, server')
  <2> SUFFICES ASSUME hrun.phase # "idle" PROVE Work(hrun.op, hrun.todo, server')
    OBVIOUS
  <2>1. hrun.op \in Options /\ hrun.todo \in Seq(Command) /\ Work(hrun.op, hrun.todo, server)
    BY DEF HaInv, HaRunType
  <2> QED
    BY <1>3, <2>1, OthersWork
<1>5. Waiting'
  BY <1>1 DEF Waiting
<1> QED
  BY <1>1, <1>3, <1>4, <1>5 DEF HaInv, HaRunType

(* All steps.                                                              *)
LEMMA HaStepKeeps == HaInv /\ [HaNext]_havars => HaInv'
<1> SUFFICES ASSUME HaInv, [HaNext]_havars PROVE HaInv'
  OBVIOUS
<1>1. ASSUME NEW op \in Options, Begin(op) PROVE HaInv'
  <2>1. /\ Idle.phase = "idle" /\ Idle.todo = <<>> /\ Idle.polls = 0
        /\ hrun' = [op |-> op, phase |-> "command", todo |-> Commands(op), polls |-> 0]
        /\ server' = server
    BY <1>1 DEF Begin, Idle
  <2>2. Commands(op) \in Seq(Command) /\ Work(op, Commands(op), server')
    BY BeginWork
  <2>3. HaRunType'
    <3> HIDE DEF Command
    <3> QED
      BY <2>1, <2>2 DEF HaRunType, HaPhases
  <2> QED
    BY <2>1, <2>2, <2>3 DEF HaInv, ServerType, Waiting
<1>2. CASE HaStep
  BY <1>2, RunKeepsHaInv
<1>3. CASE \E b \in Backends : Check(b) \/ SessionBegins(b) \/ SessionEnds(b)
  BY <1>3, OthersKeepHaInv
<1>4. CASE UNCHANGED havars
  BY <1>4 DEF havars, HaInv, ServerType, HaRunType, Waiting
<1> QED
  BY <1>1, <1>2, <1>3, <1>4 DEF HaNext

(* The invariant, for all backends, retries and sessions.                  *)
THEOREM HaproxyInvariant == HaSpec => []HaInv
BY HaInitial, HaStepKeeps, PTL DEF HaSpec

(* A success with wait means that every named server that exists is as     *)
(* asked for, in all backends, also when commands are refused: no round    *)
(* stops short of one, and no later round, and nobody else in the model,   *)
(* takes it back.                                                          *)
THEOREM HaproxySuccess == HaSpec => []SuccessMeansSet
<1>1. HaInv => SuccessMeansSet
  <2> SUFFICES ASSUME HaInv, hrun.phase = "done", hrun.op.wait,
                      NEW b \in Named(hrun.op), server[b].here, ~TooOld(hrun.op)
               PROVE  server[b].admin = Wanted(hrun.op)
    BY DEF SuccessMeansSet, TooOld, Wanted
  <2>1. hrun.todo = <<>> /\ Told(hrun.op, hrun.todo, server)
    BY DEF HaInv, Work
  <2> QED
    BY <2>1 DEF Told
<1> QED
  BY <1>1, HaproxyInvariant, PTL

(* With drain and wait no server is disabled with sessions from before it  *)
(* was drained, whatever clients, persistence and checks do between its    *)
(* poll in the first round and its second command, and whatever is refused.*)
THEOREM HaproxySessions == HaSpec => NoSessionIsCut
<1> DEFINE Uncut ==
      \A b \in Backends :
        /\ hrun.phase = "command" /\ hrun.op.drain /\ hrun.op.wait
        /\ server[b].admin # "maint" /\ server'[b].admin = "maint"
        => server[b].sessions = 0
<1>1. HaInv /\ [HaNext]_havars => [Uncut]_havars
  <2> SUFFICES ASSUME HaInv, HaNext, NEW b \in Backends,
                      hrun.phase = "command", hrun.op.drain, hrun.op.wait,
                      server[b].admin # "maint", server'[b].admin = "maint"
               PROVE  server[b].sessions = 0
    BY DEF havars
  <2>1. ServerType /\ hrun.todo \in Seq(Command)
    BY DEF HaInv, HaRunType
  <2>2. CASE Execute
    <3> DEFINE c == Head(hrun.todo)
    <3>1. hrun.todo # <<>> /\ server[c.backend].here
      BY <2>2 DEF Execute
    <3>2. c = hrun.todo[1] /\ c.backend \in Backends /\ 1 \in 1..Len(hrun.todo)
      <4>1. c = hrun.todo[1] /\ c \in Command /\ Len(hrun.todo) \in Nat \ {0}
        BY <2>1, <3>1, TailFacts
      <4> QED
        BY <4>1 DEF Command
    <3>3. b = c.backend /\ c.admin = "maint"
      <4>1. server' = Obeyed(c)
        BY <2>2 DEF Execute
      <4>2. c.admin \in Admin
        BY <2>1, <3>1, TailFacts DEF Command
      <4> HIDE DEF c
      <4> QED
        BY <2>1, <3>2, <4>1, <4>2, ObeyedFacts
    <3>4. DrainedFirst(hrun.op, hrun.todo, server)
      BY DEF HaInv, Work
    <3> HIDE DEF c
    <3> QED
      BY <3>1, <3>2, <3>3, <3>4 DEF DrainedFirst
  <2>3. CASE ~Execute
    <3>1. server' = server \/ \E x \in Backends : server'[b].admin = server[b].admin
      BY <2>1, <2>3 DEF HaNext, HaStep, Begin, NotFound, Poll, GiveUp, Finish, Check, SessionBegins,
         SessionEnds, ServerType
    <3> QED
      BY <3>1
  <2> QED
    BY <2>2, <2>3
<1> QED
  BY <1>1, HaproxyInvariant, PTL DEF HaSpec, NoSessionIsCut
=================================================================================

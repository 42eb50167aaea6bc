--------------------------- MODULE KnownHostsProofs ---------------------------
(* Proofs about FileLock, for any users of it, and about KnownHosts, whose *)
(* connections use it: what is recorded stays recorded, as long as no two  *)
(* connections that record have the same host.                             *)
EXTENDS KnownHosts, TLAPS

USE FileLockAssumption

(* The lock is typed and consistent under any of its actions.              *)
LockInv == LockTypeOK /\ LockIsExclusive

(* It holds at first.                                                      *)
LEMMA InitHolds == LockInit => LockInv
BY DEF LockInit, LockInv, LockTypeOK, LockIsExclusive

(* Every step of a user keeps it.                                          *)
LEMMA StepHolds ==
  ASSUME LockInv, LockNext \/ UNCHANGED lockvars
  PROVE  LockInv'
<1> USE DEF LockInv
<1>1. ASSUME NEW u \in Users, SetLock(u) PROVE LockInv'
  BY <1>1 DEF SetLock, Move, LockTypeOK, LockIsExclusive
<1>2. ASSUME NEW u \in Users, Acquire(u) PROVE LockInv'
  BY <1>2 DEF Acquire, MayTry, Flock, Move, LockTypeOK, LockIsExclusive
<1>3. ASSUME NEW u \in Users, Retry(u) PROVE LockInv'
  BY <1>3 DEF Retry, MayTry, CountTry, Move, LockTypeOK, LockIsExclusive
<1>4. ASSUME NEW u \in Users, GiveUp(u) PROVE LockInv'
  BY <1>4 DEF GiveUp, Move, LockTypeOK, LockIsExclusive
<1>5. ASSUME NEW u \in Users, Unlock(u) PROVE LockInv'
  BY <1>5 DEF Unlock, Release, Move, LockTypeOK, LockIsExclusive
<1>6. ASSUME NEW u \in Users, Die(u) PROVE LockInv'
  BY <1>6 DEF Die, Move, LockTypeOK, LockIsExclusive
<1>7. CASE UNCHANGED lockvars
  BY <1>7 DEF lockvars, LockTypeOK, LockIsExclusive
<1> QED
  BY <1>1, <1>2, <1>3, <1>4, <1>5, <1>6, <1>7 DEF LockNext, LockStep

(* Nobody makes more attempts than lock_timeout allows, whatever the       *)
(* number of users.                                                        *)
THEOREM LockTyped == LockSpec => []LockTypeOK
<1>1. LockInv => LockTypeOK
  BY DEF LockInv
<1> QED
  BY <1>1, InitHolds, StepHolds, PTL DEF LockSpec

(* The flock belongs to the one user inside the lock_file context, for any *)
(* number of users, any timeout or none, and any deaths.                   *)
THEOREM Exclusion == LockSpec => []LockIsExclusive
<1>1. LockInv => LockIsExclusive
  BY DEF LockInv
<1> QED
  BY <1>1, InitHolds, StepHolds, PTL DEF LockSpec

-----------------------------------------------------------------------------
USE KnownHostsAssumption

(* Without this the file is lost: see the run known_hosts_lost.            *)
OwnHosts == \A u, v \in Recording : u # v => Target[u] # Target[v]

Unrecorded == {"open", "closing", "merging", "saving", "writing", "replacing", "failing"}
Recorders  == {"closing", "merging", "saving", "writing", "replacing"}

(* The connection and the lock agree.                                      *)
Agree(u) ==
  /\ at[u] = "out" => conn[u] \in {"closed", "open", "failing"}
  /\ at[u] = "trying" => conn[u] = "closing"
  /\ at[u] = "in" => conn[u] \in {"merging", "saving", "writing", "replacing", "leaving"}

(* What a connection has in memory comes from the files, but for the key   *)
(* it learned, which is in no file before it records it.                   *)
Memory(u) ==
  /\ system[u] \subseteq file \cup Global
  /\ own[u] \subseteq system[u] \cup {Target[u]}
  /\ added[u] \subseteq {Target[u]}
  /\ added[u] \subseteq own[u]
  /\ u \in Recording /\ added[u] # {} /\ conn[u] \in Unrecorded
       => Target[u] \notin file \cup Global
  /\ conn[u] \in Recorders => u \in Recording /\ added[u] # {}

(* Between merging and replacing, the whole file is in memory.             *)
Merged(u) ==
  /\ at[u] = "in" /\ conn[u] \in {"saving", "writing", "replacing"} => file \subseteq own[u]
  /\ at[u] = "in" /\ conn[u] = "replacing" => tmp[u] = {own[u]}
  /\ conn[u] \notin {"writing", "replacing", "failing"} => tmp[u] = {}
  /\ at[u] = "in" /\ conn[u] = "leaving" => Target[u] \in file

HostInv ==
  /\ KnownHostsTypeOK /\ LockIsExclusive
  /\ \A u \in Users : Agree(u) /\ Memory(u) /\ Merged(u)

(* It holds at first.                                                      *)
LEMMA HostInitHolds == KnownHostsInit => HostInv
<1> SUFFICES ASSUME KnownHostsInit PROVE HostInv
  OBVIOUS
<1>1. LockInv
  BY InitHolds DEF KnownHostsInit
<1>2. KnownHostsTypeOK
  BY <1>1 DEF LockInv, KnownHostsInit, KnownHostsTypeOK, Connections
<1>3. ASSUME NEW u \in Users PROVE Agree(u) /\ Memory(u) /\ Merged(u)
  BY DEF KnownHostsInit, LockInit, Agree, Memory, Merged, Unrecorded, Recorders
<1> QED
  BY <1>1, <1>2, <1>3 DEF LockInv, HostInv

(* What replaces the file is the file, and the key that was learned.       *)
LEMMA ReplacementGrows ==
  ASSUME HostInv, NEW u \in Users, at[u] = "in", Replace(u)
  PROVE  /\ file \subseteq file'
         /\ file' \subseteq file \cup Global \cup {Target[u]}
         /\ Target[u] \in file'
<1>1. tmp[u] = {own[u]} /\ file' = own[u]
  BY DEF HostInv, Merged, Replace
<1>2. added[u] # {} /\ added[u] \subseteq {Target[u]} /\ added[u] \subseteq own[u]
  BY DEF HostInv, Memory, Replace, Recorders
<1> QED
  BY <1>1, <1>2 DEF HostInv, Memory, Merged, Replace

(* Only Replace changes the file.                                          *)
LEMMA FileStays ==
  ASSUME KnownHostsNext, ~ \E u \in Users : at[u] = "in" /\ Replace(u)
  PROVE  file' = file
BY DEF KnownHostsNext, CloseStep, Connect, Close, CloseAndRecord, Enter, LookAgain,
   TimeOut, Merge, MakeTemporary, Save, Leave, Fail, Clear, Crash, hostvars

(* A step of the lock keeps it consistent.                                 *)
LEMMA LockStays ==
  ASSUME HostInv, KnownHostsNext \/ UNCHANGED khvars
  PROVE  LockInv'
<1>1. LockInv
  BY DEF HostInv, LockInv, KnownHostsTypeOK
<1>2. LockNext \/ UNCHANGED lockvars
  BY DEF KnownHostsNext, CloseStep, Connect, Close, CloseAndRecord, Enter, LookAgain,
     TimeOut, Merge, MakeTemporary, Save, Replace, Leave, Fail, Clear, Crash, LockNext, LockStep, khvars
<1> QED
  BY <1>1, <1>2, StepHolds

(* Every step keeps the types.                                             *)
LEMMA HostTypeStays ==
  ASSUME HostInv, KnownHostsNext
  PROVE  KnownHostsTypeOK'
<1>1. LockTypeOK'
  BY LockStays DEF LockInv
<1> USE <1>1 DEF HostInv, KnownHostsTypeOK
<1> SUFFICES ASSUME NEW u \in Users,
      \/ Connect(u) \/ Close(u) \/ CloseAndRecord(u) \/ CloseStep(u)
      \/ Fail(u) \/ Crash(u)
    PROVE KnownHostsTypeOK'
  BY DEF KnownHostsNext
<1>2. CASE Connect(u)
  BY <1>2 DEF Connect, Set, Connections
<1>3. CASE Close(u) \/ CloseAndRecord(u) \/ Enter(u) \/ LookAgain(u) \/ TimeOut(u)
           \/ Leave(u) \/ Fail(u) \/ Clear(u) \/ MakeTemporary(u) \/ Crash(u)
  BY <1>3 DEF Close, CloseAndRecord, Enter, LookAgain, TimeOut, Leave, Fail, Clear, Unlink, MakeTemporary,
     Crash, Set, Connections, hostvars
<1>4. CASE Merge(u)
  BY <1>4 DEF Merge, MergeKeys, Set, Connections
<1>5. CASE Save(u)
  <2>1. Saved(u) \in SUBSET Hosts
    BY DEF Saved
  <2> QED
    BY <1>5, <2>1 DEF Save, Set, Connections
<1>6. CASE Replace(u)
  BY <1>6 DEF Replace, Set, Connections
<1> QED
  BY <1>2, <1>3, <1>4, <1>5, <1>6 DEF CloseStep

(* A step of one user disturbs another only through the file.              *)
Still(v) ==
  /\ conn'[v] = conn[v] /\ at'[v] = at[v] /\ system'[v] = system[v]
  /\ own'[v] = own[v] /\ added'[v] = added[v] /\ tmp'[v] = tmp[v]

(* A step of one connection leaves the memory of the others alone.         *)
LEMMA OthersStay ==
  ASSUME HostInv, NEW u \in Users, NEW v \in Users, u # v,
         \/ Connect(u) \/ Close(u) \/ CloseAndRecord(u) \/ CloseStep(u)
         \/ Fail(u) \/ Crash(u)
  PROVE  Still(v)
<1> USE DEF HostInv, KnownHostsTypeOK, LockTypeOK, Still, Set, Move
<1>1. CASE Connect(u) \/ Close(u) \/ CloseAndRecord(u)
  BY <1>1 DEF Connect, Close, CloseAndRecord, SetLock, lockvars
<1>2. CASE Enter(u) \/ LookAgain(u) \/ TimeOut(u)
  BY <1>2 DEF Enter, Acquire, LookAgain, Retry, TimeOut, GiveUp, hostvars
<1>3. CASE Merge(u) \/ MakeTemporary(u) \/ Save(u) \/ Replace(u) \/ Leave(u)
  BY <1>3 DEF Merge, MergeKeys, MakeTemporary, Save, Replace, Leave, Unlock, lockvars
<1>4. CASE Fail(u) \/ Clear(u) \/ Crash(u)
  BY <1>4 DEF Fail, Clear, Unlink, lockvars, Unlock, Crash, Die, hostvars
<1> QED
  BY <1>1, <1>2, <1>3, <1>4 DEF CloseStep

(* The step of the user itself.                                            *)
LEMMA OwnStep ==
  ASSUME HostInv, KnownHostsTypeOK', LockInv', NEW u \in Users,
         \/ Connect(u) \/ Close(u) \/ CloseAndRecord(u) \/ CloseStep(u)
         \/ Fail(u) \/ Crash(u)
  PROVE  Agree(u)' /\ Memory(u)' /\ Merged(u)'
<1> USE DEF HostInv, KnownHostsTypeOK, LockTypeOK, Agree, Memory, Merged, Set, Move,
        Unrecorded, Recorders
<1>1. CASE Connect(u)
  BY <1>1 DEF Connect, lockvars
<1>2. CASE Close(u)
  BY <1>2 DEF Close, lockvars
<1>3. CASE CloseAndRecord(u)
  BY <1>3 DEF CloseAndRecord, SetLock, AnyKeysAdded
<1>4. CASE Enter(u)
  BY <1>4 DEF Enter, Acquire
<1>5. CASE LookAgain(u)
  BY <1>5 DEF LookAgain, Retry, hostvars
<1>6. CASE TimeOut(u)
  BY <1>6 DEF TimeOut, GiveUp
<1>7. CASE at[u] = "in" /\ Merge(u)
  BY <1>7 DEF Merge, MergeKeys, lockvars
<1>8. CASE at[u] = "in" /\ Save(u)
  BY <1>8 DEF Save, Saved, AnyKeysAdded, lockvars
<1>9. CASE at[u] = "in" /\ Replace(u)
  <2>1. Target[u] \in file' /\ file \subseteq file'
    BY <1>9, ReplacementGrows
  <2> QED
    BY <1>9, <2>1 DEF Replace, lockvars
<1>10. CASE at[u] = "in" /\ Leave(u)
  BY <1>10 DEF Leave, Unlock
<1>11. CASE Fail(u)
  BY <1>11 DEF Fail, Unlock
<1>12. CASE Crash(u)
  BY <1>12 DEF Crash, Die, hostvars
<1>13. CASE at[u] = "in" /\ MakeTemporary(u)
  BY <1>13 DEF MakeTemporary, lockvars
<1>14. CASE at[u] = "out" /\ Clear(u)
  BY <1>14 DEF Clear, Unlink, lockvars
<1> QED
  BY <1>1, <1>2, <1>3, <1>4, <1>5, <1>6, <1>7, <1>8, <1>9, <1>10, <1>11, <1>12, <1>13,
     <1>14
  DEF CloseStep

(* The others, when u replaces the file or does not.                       *)
LEMMA OthersStep ==
  ASSUME HostInv, OwnHosts, NEW u \in Users, NEW v \in Users, u # v, LockIsExclusive',
         \/ Connect(u) \/ Close(u) \/ CloseAndRecord(u) \/ CloseStep(u)
         \/ Fail(u) \/ Crash(u)
  PROVE  Agree(v)' /\ Memory(v)' /\ Merged(v)'
<1>1. Still(v)
  BY OthersStay
<1>2. CASE at[u] = "in" /\ Replace(u)
  <2>1. /\ file \subseteq file'
        /\ file' \subseteq file \cup Global \cup {Target[u]}
    BY <1>2, ReplacementGrows
  <2>2. at[v] # "in" /\ u \in Recording
    BY <1>2 DEF HostInv, LockIsExclusive, Memory, Replace, Recorders
  <2>3. v \in Recording => Target[v] # Target[u]
    BY <2>2 DEF OwnHosts
  <2> QED
    BY <1>1, <2>1, <2>2, <2>3 DEF HostInv, Agree, Memory, Merged, Still
<1>3. CASE ~(at[u] = "in" /\ Replace(u))
  <2>1. file' = file
    BY <1>3 DEF CloseStep, Connect, Close, CloseAndRecord, Enter, LookAgain, TimeOut,
       Merge, MakeTemporary, Save, Leave, Fail, Clear, Crash, hostvars
  <2> QED
    BY <1>1, <2>1 DEF HostInv, Agree, Memory, Merged, Still
<1> QED
  BY <1>2, <1>3

(* Every step keeps the invariant.                                         *)
LEMMA HostStepHolds ==
  ASSUME HostInv, OwnHosts, KnownHostsNext \/ UNCHANGED khvars
  PROVE  HostInv'
<1>1. CASE KnownHostsNext
  <2>1. KnownHostsTypeOK' /\ LockInv' /\ LockIsExclusive'
    BY <1>1, HostTypeStays, LockStays DEF LockInv
  <2> SUFFICES ASSUME NEW v \in Users PROVE Agree(v)' /\ Memory(v)' /\ Merged(v)'
    BY <2>1 DEF HostInv
  <2>2. PICK u \in Users :
          \/ Connect(u) \/ Close(u) \/ CloseAndRecord(u) \/ CloseStep(u)
          \/ Fail(u) \/ Crash(u)
    BY <1>1 DEF KnownHostsNext
  <2>3. CASE u = v
    BY <2>1, <2>2, <2>3, OwnStep
  <2>4. CASE u # v
    BY <2>1, <2>2, <2>4, OthersStep
  <2> QED
    BY <2>3, <2>4
<1>2. CASE UNCHANGED khvars
  BY <1>2 DEF khvars, lockvars, hostvars, HostInv, KnownHostsTypeOK, LockTypeOK,
     LockIsExclusive, Agree, Memory, Merged
<1> QED
  BY <1>1, <1>2

(* It is an invariant of the module.                                       *)
LEMMA HostInvariance ==
  ASSUME OwnHosts
  PROVE  KnownHostsSpec => []HostInv
<1>1. HostInv /\ [KnownHostsNext]_khvars => HostInv'
  BY HostStepHolds
<1> QED
  BY <1>1, HostInitHolds, PTL DEF KnownHostsSpec

(* Types, with a host for each worker.                                     *)
THEOREM HostsTyped ==
  ASSUME OwnHosts
  PROVE  KnownHostsSpec => []KnownHostsTypeOK
<1>1. HostInv => KnownHostsTypeOK
  BY DEF HostInv
<1> QED
  BY <1>1, HostInvariance, PTL

(* With a host for each worker, a temporary file only exists to replace    *)
(* known_hosts with, or until it is removed.                               *)
THEOREM NoLitter ==
  ASSUME OwnHosts
  PROVE  KnownHostsSpec => []NoTemporaryFileStays
<1>1. HostInv => NoTemporaryFileStays
  BY DEF HostInv, Merged, NoTemporaryFileStays
<1> QED
  BY <1>1, HostInvariance, PTL

(* With a host for each worker, a close that ends without an error has     *)
(* recorded its key, whoever closes, fails, times out or dies at the same  *)
(* time.  (Of two workers with one host the second may lose the file.)     *)
THEOREM Recorded ==
  ASSUME OwnHosts
  PROVE  KnownHostsSpec => LearnedIsRecorded
<1>1. ASSUME HostInv, KnownHostsNext \/ UNCHANGED khvars, NEW u \in Users,
             conn[u] = "leaving", conn'[u] = "closed"
      PROVE  Target[u] \in file'
  <2>1. PICK v \in Users :
          \/ Connect(v) \/ Close(v) \/ CloseAndRecord(v) \/ CloseStep(v)
          \/ Fail(v) \/ Crash(v)
    BY <1>1 DEF KnownHostsNext, khvars, hostvars
  <2>2. u = v
    BY <1>1, <2>1, OthersStay DEF Still
  <2>3. at[u] = "in" /\ Leave(u)
    BY <1>1, <2>1, <2>2 DEF HostInv, KnownHostsTypeOK, CloseStep, Connect, Close,
       CloseAndRecord, Enter, LookAgain, TimeOut, GiveUp, Merge, MakeTemporary, Save, Replace, Fail, Clear, Crash,
       Set, hostvars
  <2> QED
    BY <1>1, <2>3 DEF HostInv, Merged, Leave
<1>2. HostInv /\ [KnownHostsNext]_khvars
        => [\A u \in Users :
              conn[u] = "leaving" /\ conn'[u] = "closed" => Target[u] \in file']_khvars
  BY <1>1
<1> QED
  BY <1>2, HostInvariance, PTL DEF KnownHostsSpec, LearnedIsRecorded

(* The file only grows: recording implements HostKeyRecord.                *)
THEOREM RecordImplemented ==
  ASSUME OwnHosts
  PROVE  KnownHostsSpec => ImplementsHostKeyRecord
<1>1. KnownHostsInit => Record!Init
  BY DEF KnownHostsInit, Record!Init
<1>2. ASSUME HostInv, KnownHostsNext \/ UNCHANGED khvars
      PROVE  Record!Next \/ UNCHANGED file
  <2>1. CASE \E u \in Users : at[u] = "in" /\ Replace(u)
    <3>1. file \subseteq file'
      BY <1>2, <2>1, ReplacementGrows
    <3>2. file' \subseteq Hosts
      BY <1>2, HostStepHolds DEF HostInv, KnownHostsTypeOK
    <3>3. Record!Record(file')
      BY <3>1, <3>2 DEF Record!Record
    <3> QED
      BY <3>2, <3>3 DEF Record!Next
  <2>2. CASE ~ \E u \in Users : at[u] = "in" /\ Replace(u)
    <3>1. CASE KnownHostsNext
      BY <2>2, <3>1, FileStays
    <3> QED
      BY <1>2, <3>1 DEF khvars, hostvars
  <2> QED
    BY <2>1, <2>2
<1> QED
  BY <1>1, <1>2, HostInvariance, PTL
  DEF KnownHostsSpec, ImplementsHostKeyRecord, Record!Spec
=============================================================================

------------------------------- MODULE FileLock -------------------------------
(***************************************************************************)
(* The file lock of the collection (plugins/module_utils/_filelock.py): a  *)
(* user opens a lock file and takes an exclusive flock on it.  The flock   *)
(* belongs to the open file: closing it, or dying, releases it.            *)
(*                                                                         *)
(* lock_timeout is counted in attempts: the loop makes one every l_wait    *)
(* seconds, so lock_timeout seconds allow a bounded number of them.        *)
(***************************************************************************)
EXTENDS Naturals

CONSTANTS
  Users,    \* the processes that use the lock
  Nobody,   \* the lock is free
  Timeout,  \* lock_timeout: attempts at the lock, 0 for one without a wait
  NoTimeout \* lock_timeout is None

ASSUME FileLockAssumption ==
  /\ Nobody \notin Users
  /\ Timeout \in Nat \cup {NoTimeout}
  /\ NoTimeout \notin Nat

VARIABLES
  owner,  \* the user whose open file has the flock
  at,     \* where each user is with the lock
  tries   \* the attempts it has made

lockvars == <<owner, at, tries>>

LockTypeOK ==
  /\ owner \in Users \cup {Nobody}
  /\ at \in [Users -> {"out", "trying", "in", "dead"}]
  /\ tries \in [Users -> Nat]
  /\ \A u \in Users : Timeout # NoTimeout => tries[u] <= Timeout

LockInit ==
  /\ owner = Nobody
  /\ at = [u \in Users |-> "out"]
  /\ tries = [u \in Users |-> 0]

Move(u, place) == at' = [at EXCEPT ![u] = place]

(* The lock file is opened.  (An open that fails raises, with nothing to   *)
(* unlock: the users of this module see to that.)                          *)
SetLock(u) ==
  /\ at[u] = "out"
  /\ Move(u, "trying")
  /\ tries' = [tries EXCEPT ![u] = 0]
  /\ UNCHANGED owner

(* flock with LOCK_NB.  Mutant: a shared lock.                             *)
FlockShared == TRUE
Flock == owner = Nobody

(* Mutant: the elapsed time is not counted.                                *)
CountTryNot(u) == UNCHANGED tries
CountTry(u) == tries' = [tries EXCEPT ![u] = @ + 1]

(* None is not even compared with 0: the comparison raises a TypeError.    *)
MayTry(u) == Timeout # NoTimeout /\ (Timeout = 0 \/ tries[u] < Timeout)

Acquire(u) ==
  /\ at[u] = "trying" /\ MayTry(u)
  /\ Flock
  /\ owner' = u
  /\ Move(u, "in")
  /\ UNCHANGED tries

Retry(u) ==
  /\ at[u] = "trying" /\ MayTry(u)
  /\ ~Flock /\ Timeout # 0
  /\ CountTry(u)
  /\ UNCHANGED <<owner, at>>

(* set_lock raises: a LockTimeout, a BlockingIOError, or the TypeError.    *)
(* The unlock of lock_file finds nothing of its own to unlock.             *)
GiveUp(u) ==
  /\ at[u] = "trying"
  /\ ~MayTry(u) \/ (Timeout = 0 /\ ~Flock)
  /\ Move(u, "out")
  /\ UNCHANGED <<owner, tries>>

(* unlock, in the finally of lock_file.                                    *)
Release == owner' = Nobody

Unlock(u) ==
  /\ at[u] = "in"
  /\ Release
  /\ Move(u, "out")
  /\ UNCHANGED tries

(* External: a user dies, and its open file with it.                       *)
Die(u) ==
  /\ at[u] # "dead"
  /\ owner' = IF owner = u THEN Nobody ELSE owner
  /\ Move(u, "dead")
  /\ UNCHANGED tries

LockStep(u) == Acquire(u) \/ Retry(u) \/ GiveUp(u)

LockNext == \E u \in Users : SetLock(u) \/ LockStep(u) \/ Unlock(u) \/ Die(u)

LockSpec ==
  /\ LockInit /\ [][LockNext]_lockvars
  /\ \A u \in Users : WF_lockvars(LockStep(u))

-----------------------------------------------------------------------------
(* Properties.                                                             *)

(* At most one user is in, and the lock belongs to nobody else: not to one *)
(* that left through an exception, timed out, or died.                     *)
LockIsExclusive ==
  \A u \in Users : owner = u <=> at[u] = "in"

(* No user waits for ever, whatever the others do.                         *)
WaitsEnd == \A u \in Users : at[u] = "trying" ~> at[u] # "trying"
=============================================================================

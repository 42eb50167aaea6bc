------------------------------ MODULE KnownHosts ------------------------------
(***************************************************************************)
(* The host keys of proxmox_pct_remote connections                         *)
(* (plugins/connection/proxmox_pct_remote.py).  Each worker of Ansible has *)
(* a connection to a Proxmox host.  A key it did not know when it connected*)
(* is written to the user's known_hosts when it closes: under FileLock it  *)
(* reads the file again, merges, and replaces the file by a temporary one. *)
(*                                                                         *)
(* A host has one key, so a set of keys is a set of hosts.                 *)
(***************************************************************************)
EXTENDS FileLock

CONSTANTS
  Hosts,
  Target,    \* the host each user connects to
  Global,    \* the hosts in /etc/ssh/ssh_known_hosts
  Recording  \* users with host_key_checking and record_host_keys

ASSUME KnownHostsAssumption ==
  /\ Target \in [Users -> Hosts]
  /\ Global \subseteq Hosts
  /\ Recording \subseteq Users

VARIABLES
  file,   \* ~/.ssh/known_hosts
  conn,   \* what each connection is doing
  system, \* _system_host_keys: the keys read from files
  own,    \* _host_keys: the keys learned, and those merged from system
  added,  \* the keys of own that are marked _added_by_ansible_this_time
  tmp     \* the temporary file of each user: {}, or {its keys}

hostvars == <<file, conn, system, own, added, tmp>>
khvars == <<lockvars, hostvars>>

Connections ==
  {"closed", "open", "closing", "merging", "saving", "writing", "replacing", "leaving",
   "failing"}

KnownHostsTypeOK ==
  /\ LockTypeOK
  /\ file \in SUBSET Hosts
  /\ conn \in [Users -> Connections]
  /\ system \in [Users -> SUBSET Hosts]
  /\ own \in [Users -> SUBSET Hosts]
  /\ added \in [Users -> SUBSET Hosts]
  /\ tmp \in [Users -> SUBSET SUBSET Hosts]

KnownHostsInit ==
  /\ LockInit
  /\ file \in SUBSET Hosts
  /\ conn = [u \in Users |-> "closed"]
  /\ system = [u \in Users |-> {}]
  /\ own = [u \in Users |-> {}]
  /\ added = [u \in Users |-> {}]
  /\ tmp = [u \in Users |-> {}]

Set(f, u, v) == f' = [f EXCEPT ![u] = v]

(* _connect with a fresh client: with host_key_checking the files are      *)
(* read; a key in neither is learned, if the user or the options accept it.*)
(* A connection that is refused or fails leaves nothing.                   *)
Connect(u) ==
  LET read == IF u \in Recording THEN Global \cup file ELSE {}
      new  == {Target[u]} \ read
  IN  /\ conn[u] = "closed" /\ at[u] = "out"
      /\ Set(conn, u, "open")
      /\ Set(system, u, read)
      /\ Set(own, u, new)
      /\ Set(added, u, new)
      /\ UNCHANGED <<lockvars, file, tmp>>

(* _any_keys_added                                                         *)
AnyKeysAdded(u) == added[u] # {}

(* close with nothing to record.                                           *)
Close(u) ==
  /\ conn[u] = "open" /\ at[u] = "out"
  /\ u \notin Recording \/ ~AnyKeysAdded(u)
  /\ Set(conn, u, "closed")
  /\ UNCHANGED <<lockvars, file, system, own, added, tmp>>

(* close with something to record: the lock file is opened.  (If it cannot *)
(* be, the error leaves everything as it is.)                              *)
CloseAndRecord(u) ==
  /\ conn[u] = "open"
  /\ u \in Recording /\ AnyKeysAdded(u)
  /\ SetLock(u)
  /\ Set(conn, u, "closing")
  /\ UNCHANGED <<file, system, own, added, tmp>>

Enter(u) ==
  /\ Acquire(u)
  /\ Set(conn, u, "merging")
  /\ UNCHANGED <<file, system, own, added, tmp>>

LookAgain(u) == Retry(u) /\ UNCHANGED hostvars

(* LockTimeout and the other errors become an AnsibleError: the connection *)
(* is not closed, and may be closed again.                                 *)
TimeOut(u) ==
  /\ GiveUp(u)
  /\ Set(conn, u, "open")
  /\ UNCHANGED <<file, system, own, added, tmp>>

(* load_system_host_keys again, and _host_keys.update: what the files have *)
(* replaces the connection's own key of that host, and the mark with it.   *)
MergeKeys(u) ==
  LET read == system[u] \cup file
  IN  /\ Set(system, u, read)
      /\ Set(own, u, own[u] \cup read)
      /\ Set(added, u, added[u] \ read)

Merge(u) ==
  /\ conn[u] = "merging"
  /\ MergeKeys(u)
  /\ Set(conn, u, "saving")
  /\ UNCHANGED <<lockvars, file, tmp>>

(* The temporary file is created, with the mode and owner of known_hosts.  *)
MakeTemporary(u) ==
  /\ conn[u] = "saving"
  /\ Set(tmp, u, {{}})
  /\ Set(conn, u, "writing")
  /\ UNCHANGED <<lockvars, file, system, own, added>>

(* _save_ssh_host_keys into the temporary file: nothing is written if no   *)
(* marked key is left.  Mutants: one of the two loops is missing.          *)
SavedNewOnly(u) == added[u]
SavedOldOnly(u) == IF AnyKeysAdded(u) THEN own[u] \ added[u] ELSE {}
Saved(u) == IF AnyKeysAdded(u) THEN own[u] ELSE {}

Save(u) ==
  /\ conn[u] = "writing"
  /\ Set(tmp, u, {Saved(u)})
  /\ Set(conn, u, "replacing")
  /\ UNCHANGED <<lockvars, file, system, own, added>>

(* os.rename over known_hosts.                                             *)
Replace(u) ==
  /\ conn[u] = "replacing"
  /\ file' = UNION tmp[u]
  /\ Set(tmp, u, {})
  /\ Set(conn, u, "leaving")
  /\ UNCHANGED <<lockvars, system, own, added>>

Leave(u) ==
  /\ conn[u] = "leaving"
  /\ Unlock(u)
  /\ Set(conn, u, "closed")
  /\ UNCHANGED <<file, system, own, added, tmp>>

(* An error under the lock, in the middle of the temporary file perhaps:   *)
(* the lock is released, and then the finally removes the temporary file.  *)
Fail(u) ==
  /\ conn[u] \in {"merging", "saving", "writing", "replacing"}
  /\ Unlock(u)
  /\ Set(conn, u, "failing")
  /\ UNCHANGED <<file, system, own, added, tmp>>

(* Mutant: it does not.                                                    *)
UnlinkNot(u) == UNCHANGED tmp
Unlink(u) == Set(tmp, u, {})

Clear(u) ==
  /\ conn[u] = "failing"
  /\ Unlink(u)
  /\ Set(conn, u, "open")
  /\ UNCHANGED <<lockvars, file, system, own, added>>

(* The worker is killed.                                                   *)
Crash(u) == Die(u) /\ UNCHANGED hostvars

CloseStep(u) ==
  \/ Enter(u) \/ LookAgain(u) \/ TimeOut(u)
  \/ at[u] = "in" /\ (Merge(u) \/ MakeTemporary(u) \/ Save(u) \/ Replace(u) \/ Leave(u))
  \/ at[u] = "out" /\ Clear(u)

KnownHostsNext ==
  \E u \in Users :
    \/ Connect(u) \/ Close(u) \/ CloseAndRecord(u) \/ CloseStep(u)
    \/ Fail(u) \/ Crash(u)

(* A close is a program that runs to its end: each step is taken unless    *)
(* the worker dies.                                                        *)
KnownHostsSpec ==
  /\ KnownHostsInit /\ [][KnownHostsNext]_khvars
  /\ \A u \in Users : WF_khvars(CloseStep(u))

-----------------------------------------------------------------------------
(* Properties.                                                             *)

(* No key that was once recorded is lost again, by whatever closes at the  *)
(* same time, fails or dies.                                               *)
KeysAreKept == [][file \subseteq file']_khvars

(* A connection that closes without an error leaves its host's key in      *)
(* known_hosts.                                                            *)
LearnedIsRecorded ==
  [][\A u \in Users :
       conn[u] = "leaving" /\ conn'[u] = "closed" => Target[u] \in file']_khvars

(* A temporary file is there only while its owner is about to rename or to *)
(* remove it, or was killed then.                                          *)
NoTemporaryFileStays ==
  \A u \in Users : tmp[u] # {} => conn[u] \in {"writing", "replacing", "failing"}

(* A close ends, unless the worker dies: the wait for the lock is bounded  *)
(* and the lock does not outlive its holder.                               *)
ClosesEnd ==
  \A u \in Users :
    conn[u] \notin {"closed", "open"} ~> conn[u] \in {"closed", "open"} \/ at[u] = "dead"

(* Recording host keys implements HostKeyRecord.                           *)
Record == INSTANCE HostKeyRecord WITH known <- file
ImplementsHostKeyRecord == Record!Spec
=============================================================================

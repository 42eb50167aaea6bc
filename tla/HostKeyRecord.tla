---------------------------- MODULE HostKeyRecord ----------------------------
(***************************************************************************)
(* What recording host keys promises: the file of known hosts only grows,  *)
(* and a connection that ended well has its host's key in it.              *)
(***************************************************************************)
CONSTANTS Hosts

VARIABLES known

Init == known \in SUBSET Hosts

Record(new) ==
  /\ new \subseteq Hosts
  /\ known' = known \cup new

Next == \E new \in SUBSET Hosts : Record(new)

Spec == Init /\ [][Next]_known
=============================================================================

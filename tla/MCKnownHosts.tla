----------------------------- MODULE MCKnownHosts -----------------------------
(* Workers that record keys, one that does not, and a key that is in the   *)
(* global file already; each worker has a host of its own, or all have one.*)
EXTENDS KnownHosts

CONSTANTS u1, u2, u3, h1, h2, h3, h4

MCUsers == {u1, u2, u3}
MCHosts == {h1, h2, h3, h4}
OwnHost == [u \in MCUsers |-> IF u = u1 THEN h1 ELSE IF u = u2 THEN h2 ELSE h3]
OneHost == [u \in MCUsers |-> h1]
MCRecording == {u1, u2}
MCGlobal == {h4}

(* "Default is None, wait indefinitely until lock is released" (line 57 of *)
(* _filelock.py): without a timeout, a user that tries gets the lock sooner*)
(* or later or keeps trying.  It does not hold, see "Where the code falls  *)
(* short" in the README.                                                   *)
WaitsIndefinitely ==
  [][Timeout = NoTimeout =>
       \A u \in Users : at[u] = "trying" => at'[u] # "out"]_lockvars
=============================================================================

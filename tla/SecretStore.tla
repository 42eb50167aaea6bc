------------------------------ MODULE SecretStore ------------------------------
(***************************************************************************)
(* What the passwordstore lookup promises its callers: each question is    *)
(* answered in one step.  A value that is there is returned; one that is   *)
(* to be created or overwritten is stored, nothing else is touched, and    *)
(* the new value is the answer.                                            *)
(***************************************************************************)
CONSTANTS Names, Keys, Values, Nothing

VARIABLES
  secret,  \* the value of each key of each name, or Nothing
  answers  \* the answers given: name, key, value

svars == <<secret, answers>>

Answer(n, k, v) == answers' = answers \cup {[name |-> n, key |-> k, value |-> v]}

Init ==
  /\ secret = [n \in Names |-> [k \in Keys |-> Nothing]]
  /\ answers = {}

Return(n, k) == Answer(n, k, secret[n][k]) /\ UNCHANGED secret

Store(n, k, v) ==
  /\ secret' = [secret EXCEPT ![n][k] = v]
  /\ Answer(n, k, v)

Next ==
  \E n \in Names, k \in Keys :
    Return(n, k) \/ \E v \in Values : Store(n, k, v)

Spec == Init /\ [][Next]_svars
=============================================================================

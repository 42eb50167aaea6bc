------------------------------ MODULE PamdProofs ------------------------------
(* Proofs about Pamd, for any file and any task, not only for files of    *)
(* Longest lines: an edit makes what its reference says, a run reports a  *)
(* change when it made one, and a second run finds nothing to do.         *)
(*                                                                        *)
(* The parts, each resting on those before it:                            *)
(*   - induction over a set, selections and concatenations as folds;      *)
(*   - the list that links make (Walk), and the loops that pass comments; *)
(*   - the turn of each operation's loop over the nodes that it found,    *)
(*     with the list so far as the invariant (BeforeList, AfterList,      *)
(*     AbsentList, LineList) and the number of changes (Tally);           *)
(*   - reading the file, writing the list, and the run of a task;         *)
(*   - that the references are idempotent;                                *)
(*   - the theorems of the specification.                                 *)
EXTENDS Pamd, SequenceTheorems, WellFoundedInduction, TLAPS

(* Induction on the natural numbers, over a set and not an operator: all   *)
(* that follows about sequences, folds and lists goes back to it.          *)
LEMMA SetInduction ==
  ASSUME NEW S, 0 \in S, \A n \in Nat : n \in S => n + 1 \in S
  PROVE  \A n \in Nat : n \in S
<1> DEFINE R == OpToRel(<, Nat)
           T == {n \in Nat : n \notin S}
<1>1. SUFFICES ASSUME T # {} PROVE FALSE
  OBVIOUS
<1>2. IsWellFoundedOn(R, Nat)
  BY NatLessThanWellFounded
<1>3. T \subseteq Nat
  OBVIOUS
<1>4. PICK x \in T : \A y \in T : ~(<<y, x>> \in R)
  <2> HIDE DEF R, T
  <2> QED BY <1>1, <1>2, <1>3, WFMin
<1>5. x \in Nat /\ x # 0 /\ x - 1 \in Nat /\ x - 1 \in T
  OBVIOUS
<1>6. <<x - 1, x>> \in R
  BY <1>5 DEF OpToRel
<1> QED BY <1>4, <1>5, <1>6

(* A nonempty set of numbers up to n has a greatest one.                   *)
LEMMA MaxOf ==
  ASSUME NEW n \in Nat, NEW t \in SUBSET (1..n), t # {}
  PROVE  Max(t) \in t /\ \A y \in t : y <= Max(t)
<1> DEFINE S == {m \in Nat : \A u \in SUBSET (1..m) : u # {} => \E x \in u : \A y \in u : x >= y}
<1>1. 0 \in S
  <2>1. 1..0 = {}
    OBVIOUS
  <2> QED BY <2>1
<1>2. ASSUME NEW m \in Nat, m \in S PROVE m + 1 \in S
  <2> SUFFICES ASSUME NEW u \in SUBSET (1..m + 1), u # {}
               PROVE  \E x \in u : \A y \in u : x >= y
    OBVIOUS
  <2>1. CASE m + 1 \in u
    BY <2>1
  <2>2. CASE m + 1 \notin u
    <3>1. u \in SUBSET (1..m)
      BY <2>2
    <3> QED BY <3>1, <1>2
  <2> QED BY <2>1, <2>2
<1>3. \A m \in Nat : m \in S
  <2> HIDE DEF S
  <2> QED BY <1>1, <1>2, SetInduction
<1>4. \E x \in t : \A y \in t : x >= y
  BY <1>3
<1> QED BY <1>4 DEF Max

(* That of the first k numbers is k, and the others are the first k - 1.   *)
LEMMA MaxOfInterval ==
  ASSUME NEW n \in Nat, NEW k \in 1..n
  PROVE  1..k # {} /\ Max(1..k) = k /\ (1..k) \ {k} = 1..k - 1
<1>1. 1..k \in SUBSET (1..n) /\ k \in 1..k
  OBVIOUS
<1>2. Max(1..k) \in 1..k /\ \A y \in 1..k : y <= Max(1..k)
  BY <1>1, MaxOf
<1> QED BY <1>1, <1>2

(* The fold of Select as a function of the first k elements. *)
SelectFold(q, T, it) ==
  it = [t \in SUBSET (DOMAIN q) |->
          IF t = {} THEN <<>>
          ELSE IF q[Max(t)] \in T THEN Append(it[t \ {Max(t)}], q[Max(t)])
          ELSE it[t \ {Max(t)}]]

(* Select is the last value of that function.                              *)
LEMMA SelectIsFold ==
  ASSUME NEW q, NEW T, DOMAIN q = 1..Len(q), Len(q) \in Nat
  PROVE  \E it : SelectFold(q, T, it) /\ Select(q, T) = it[DOMAIN q]
<1> DEFINE n == Len(q)
           step(it, t) == IF t = {} THEN <<>>
                          ELSE IF q[Max(t)] \in T THEN Append(it[t \ {Max(t)}], q[Max(t)])
                          ELSE it[t \ {Max(t)}]
           good(it, m) == /\ it = [t \in SUBSET (1..n) |-> it[t]]
                          /\ \A t \in SUBSET (1..n) : t \subseteq 1..m => it[t] = step(it, t)
           S == {m \in Nat : \E it : good(it, m)}
<1>1. 0 \in S
  <2> DEFINE it == [t \in SUBSET (1..n) |-> <<>>]
  <2>1. good(it, 0)
    OBVIOUS
  <2> HIDE DEF good
  <2> QED BY <2>1
<1>2. ASSUME NEW m \in Nat, m \in S PROVE m + 1 \in S
  <2>1. PICK it : good(it, m)
    BY <1>2
  <2> DEFINE jt == [t \in SUBSET (1..n) |-> step(it, t)]
  <2>2. jt = [t \in SUBSET (1..n) |-> jt[t]]
    OBVIOUS
  <2>3. ASSUME NEW t \in SUBSET (1..n), t \subseteq 1..m + 1
        PROVE  jt[t] = step(jt, t)
    <3>1. CASE t = {}
      BY <3>1
    <3>2. CASE t # {}
      <4>1. Max(t) \in t /\ \A y \in t : y <= Max(t)
        BY <3>2, MaxOf
      <4> DEFINE u == t \ {Max(t)}
      <4>2. u \subseteq 1..m /\ u \in SUBSET (1..n)
        <5>1. Max(t) \in 1..m + 1 /\ t \subseteq 1..n /\ n \in Nat
          BY <4>1, <2>3
        <5>2. ASSUME NEW y \in u PROVE y \in 1..m
          <6>1. y \in t /\ y \in 1..m + 1 /\ y # Max(t) /\ y <= Max(t)
            BY <4>1, <2>3
          <6> HIDE DEF u
          <6> QED BY <5>1, <6>1
        <5> QED BY <5>1, <5>2
      <4>3. it[u] = jt[u]
        BY <4>2, <2>1
      <4> QED BY <3>2, <4>3
    <3> QED BY <3>1, <3>2
  <2> HIDE DEF jt
  <2>4. good(jt, m + 1)
    BY <2>2, <2>3
  <2> HIDE DEF good
  <2> QED BY <2>4
<1>3. n \in S
  <2> HIDE DEF S
  <2> QED BY <1>1, <1>2, SetInduction
<1>4. \E it : SelectFold(q, T, it)
  <2>1. PICK it : good(it, n)
    BY <1>3
  <2>2. it = [t \in SUBSET (1..n) |-> step(it, t)]
    BY <2>1
  <2> QED BY <2>2 DEF SelectFold
<1> DEFINE fold == CHOOSE it : it = [t \in SUBSET (DOMAIN q) |->
          IF t = {} THEN <<>>
          ELSE IF q[Max(t)] \in T THEN Append(it[t \ {Max(t)}], q[Max(t)])
          ELSE it[t \ {Max(t)}]]
<1>5. Select(q, T) = fold[DOMAIN q]
  BY DEF Select, FoldLeft, MapThenFoldSet
<1>6. SelectFold(q, T, fold)
  BY <1>4 DEF SelectFold
<1> QED BY <1>5, <1>6

(* One more element is appended or it is not.                              *)
LEMMA SelectFoldStep ==
  ASSUME NEW q, NEW T, NEW it, SelectFold(q, T, it), NEW n \in Nat, DOMAIN q = 1..n,
         NEW k \in Nat, k + 1 <= n
  PROVE  it[1..k + 1] = IF q[k + 1] \in T THEN Append(it[1..k], q[k + 1]) ELSE it[1..k]
<1>1. 1..k + 1 # {} /\ Max(1..k + 1) = k + 1 /\ (1..k + 1) \ {k + 1} = 1..k
  <2>1. k + 1 \in 1..n /\ (k + 1) - 1 = k
    OBVIOUS
  <2> QED BY MaxOfInterval, <2>1
<1> DEFINE t == 1..k + 1
           step(u) == IF u = {} THEN <<>>
                      ELSE IF q[Max(u)] \in T THEN Append(it[u \ {Max(u)}], q[Max(u)])
                      ELSE it[u \ {Max(u)}]
<1>2. t \in SUBSET (1..n)
  OBVIOUS
<1>3. it = [u \in SUBSET (1..n) |-> step(u)]
  BY DEF SelectFold
<1>4. it[t] = step(t)
  <2> HIDE DEF t, step
  <2> QED BY <1>2, <1>3
<1> QED BY <1>1, <1>4

(* Nothing is selected from the empty sequence.                            *)
LEMMA SelectEmpty ==
  ASSUME NEW T
  PROVE  Select(<<>>, T) = <<>>
<1>1. DOMAIN <<>> = 1..Len(<<>>) /\ Len(<<>>) \in Nat /\ 1..Len(<<>>) = {}
  OBVIOUS
<1>2. PICK it : SelectFold(<<>>, T, it) /\ Select(<<>>, T) = it[DOMAIN <<>>]
  BY <1>1, SelectIsFold
<1> QED BY <1>1, <1>2 DEF SelectFold

(* One more element of a sequence is selected if it is in the set.         *)
LEMMA SelectAppend ==
  ASSUME NEW S, NEW q \in Seq(S), NEW x \in S, NEW T
  PROVE  Select(Append(q, x), T) = IF x \in T THEN Append(Select(q, T), x) ELSE Select(q, T)
<1> DEFINE n == Len(q)
           r == Append(q, x)
<1>1. /\ n \in Nat /\ DOMAIN q = 1..n
      /\ Len(r) = n + 1 /\ DOMAIN r = 1..n + 1
      /\ r[n + 1] = x /\ \A i \in 1..n : r[i] = q[i]
  OBVIOUS
<1>2. PICK it : SelectFold(q, T, it) /\ Select(q, T) = it[1..n]
  BY <1>1, SelectIsFold
<1>3. PICK jt : SelectFold(r, T, jt) /\ Select(r, T) = jt[1..n + 1]
  <2> HIDE DEF r
  <2> QED BY <1>1, SelectIsFold
<1> DEFINE U == {k \in Nat : k <= n => jt[1..k] = it[1..k]}
<1> HIDE DEF r
<1>4. 0 \in U
  BY <1>1, <1>2, <1>3 DEF SelectFold
<1>5. ASSUME NEW k \in Nat, k \in U PROVE k + 1 \in U
  <2> SUFFICES ASSUME k + 1 <= n PROVE jt[1..k + 1] = it[1..k + 1]
    OBVIOUS
  <2>1. k + 1 <= n + 1
    BY <1>1
  <2>3. jt[1..k + 1] = IF r[k + 1] \in T THEN Append(jt[1..k], r[k + 1]) ELSE jt[1..k]
    BY <1>1, <1>3, <2>1, SelectFoldStep
  <2>4. it[1..k + 1] = IF q[k + 1] \in T THEN Append(it[1..k], q[k + 1]) ELSE it[1..k]
    BY <1>1, <1>2, SelectFoldStep
  <2> QED BY <1>1, <1>5, <2>3, <2>4
<1>6. n \in U
  <2> HIDE DEF U
  <2> QED BY <1>1, <1>4, <1>5, SetInduction
<1>9. jt[1..n + 1] = IF x \in T THEN Append(jt[1..n], x) ELSE jt[1..n]
  BY <1>1, <1>3, SelectFoldStep
<1> QED BY <1>1, <1>2, <1>3, <1>6, <1>9 DEF r

(* Induction on sequences: from the empty one, element by element.         *)
LEMMA SeqInduction ==
  ASSUME NEW S, NEW Q, <<>> \in Q,
         \A q \in Seq(S), x \in S : q \in Q => Append(q, x) \in Q
  PROVE  \A q \in Seq(S) : q \in Q
<1> DEFINE U == {n \in Nat : \A q \in Seq(S) : Len(q) = n => q \in Q}
<1>1. 0 \in U
  <2>1. ASSUME NEW q \in Seq(S), Len(q) = 0 PROVE q = <<>>
    BY <2>1
  <2> QED BY <2>1
<1>2. ASSUME NEW n \in Nat, n \in U PROVE n + 1 \in U
  <2> SUFFICES ASSUME NEW q \in Seq(S), Len(q) = n + 1 PROVE q \in Q
    OBVIOUS
  <2>1. q # <<>>
    OBVIOUS
  <2>2. PICK r \in Seq(S), x \in S : q = Append(r, x)
    BY <2>1, SequenceEmptyOrAppend
  <2>3. Len(r) = n
    BY <2>2
  <2> QED BY <1>2, <2>2, <2>3
<1>3. \A n \in Nat : n \in U
  <2> HIDE DEF U
  <2> QED BY <1>1, <1>2, SetInduction
<1>4. \A q \in Seq(S) : Len(q) \in Nat
  OBVIOUS
<1> QED BY <1>3, <1>4

(* Two sequences of one element.                                           *)
LEMMA Pair ==
  ASSUME NEW S, NEW a \in S, NEW b \in S
  PROVE  <<a>> \o <<b>> = <<a, b>>
<1> DEFINE q == <<a>> \o <<b>>
<1>1. <<a>> \in Seq(S) /\ <<b>> \in Seq(S)
  OBVIOUS
<1>2. q \in Seq(S) /\ Len(q) = 2
  BY <1>1
<1>3. q[1] = a /\ q[2] = b
  BY <1>1
<1> HIDE DEF q
<1>4. q = <<a, b>>
  BY <1>2, <1>3
<1> QED BY <1>4 DEF q

(* What is selected is in the sequence and in the set.                     *)
LEMMA SelectType ==
  ASSUME NEW S, NEW q \in Seq(S), NEW T
  PROVE  Select(q, T) \in Seq(S \cap T)
<1> DEFINE Q == {r \in Seq(S) : Select(r, T) \in Seq(S \cap T)}
<1>1. <<>> \in Q
  <2>1. Select(<<>>, T) = <<>>
    BY SelectEmpty
  <2>2. <<>> \in Seq(S) /\ <<>> \in Seq(S \cap T)
    OBVIOUS
  <2> QED BY <2>1, <2>2
<1>2. \A r \in Seq(S), x \in S : r \in Q => Append(r, x) \in Q
  <2> SUFFICES ASSUME NEW r \in Seq(S), NEW x \in S, r \in Q PROVE Append(r, x) \in Q
    OBVIOUS
  <2>1. Select(Append(r, x), T) = IF x \in T THEN Append(Select(r, T), x) ELSE Select(r, T)
    BY SelectAppend
  <2>2. Append(r, x) \in Seq(S)
    OBVIOUS
  <2> DEFINE a == Select(r, T)
  <2>3. a \in Seq(S \cap T)
    OBVIOUS
  <2> HIDE DEF a
  <2>4. x \in T => Append(a, x) \in Seq(S \cap T)
    BY <2>3
  <2>5. Select(Append(r, x), T) \in Seq(S \cap T)
    BY <2>1, <2>3, <2>4 DEF a
  <2> QED BY <2>2, <2>5
<1> HIDE DEF Q
<1>3. \A r \in Seq(S) : r \in Q
  BY <1>1, <1>2, SeqInduction
<1> QED BY <1>3 DEF Q

(* A selection of elements of S is a sequence over S.                      *)
LEMMA SelectSeqType ==
  ASSUME NEW S, NEW q \in Seq(S), NEW T
  PROVE  Select(q, T) \in Seq(S)
<1>1. Select(q, T) \in Seq(S \cap T)
  BY SelectType
<1> QED BY <1>1

(* A selection from two sequences is made of the two selections.           *)
LEMMA SelectConcat ==
  ASSUME NEW S, NEW p \in Seq(S), NEW q \in Seq(S), NEW T
  PROVE  Select(p \o q, T) = Select(p, T) \o Select(q, T)
<1> DEFINE Q == {r \in Seq(S) : Select(p \o r, T) = Select(p, T) \o Select(r, T)}
<1>1. <<>> \in Q
  <2>1. Select(<<>>, T) = <<>> /\ Select(p, T) \in Seq(S) /\ p \o <<>> = p
    BY SelectEmpty, SelectSeqType
  <2> QED BY <2>1
<1>2. \A r \in Seq(S), x \in S : r \in Q => Append(r, x) \in Q
  <2> SUFFICES ASSUME NEW r \in Seq(S), NEW x \in S, r \in Q PROVE Append(r, x) \in Q
    OBVIOUS
  <2> DEFINE pr == p \o r
  <2>1. p \o Append(r, x) = Append(pr, x) /\ pr \in Seq(S) /\ Append(r, x) \in Seq(S)
    OBVIOUS
  <2>2. Select(Append(pr, x), T) = IF x \in T THEN Append(Select(pr, T), x) ELSE Select(pr, T)
    <3> HIDE DEF pr
    <3> QED BY <2>1, SelectAppend
  <2>3. Select(Append(r, x), T) = IF x \in T THEN Append(Select(r, T), x) ELSE Select(r, T)
    BY SelectAppend
  <2>4. Select(p, T) \in Seq(S) /\ Select(r, T) \in Seq(S)
    BY SelectSeqType
  <2>5. Select(p, T) \o Append(Select(r, T), x) = Append(Select(p, T) \o Select(r, T), x)
    BY <2>4
  <2> QED BY <2>1, <2>2, <2>3, <2>5
<1> HIDE DEF Q
<1>3. \A r \in Seq(S) : r \in Q
  BY <1>1, <1>2, SeqInduction
<1> QED BY <1>3 DEF Q

(* Nothing is selected when no element is in the set.                      *)
LEMMA SelectNone ==
  ASSUME NEW S, NEW q \in Seq(S), NEW T, \A x \in S : x \notin T
  PROVE  Select(q, T) = <<>>
<1>1. Select(q, T) \in Seq(S \cap T) /\ S \cap T = {}
  BY SelectType
<1> QED BY <1>1

(* Sets that agree on the elements select the same.                        *)
LEMMA SelectAgree ==
  ASSUME NEW S, NEW q \in Seq(S), NEW T, NEW U, \A x \in S : x \in T <=> x \in U
  PROVE  Select(q, T) = Select(q, U)
<1> DEFINE Q == {r \in Seq(S) : Select(r, T) = Select(r, U)}
<1>1. <<>> \in Q
  BY SelectEmpty
<1>2. \A r \in Seq(S), x \in S : r \in Q => Append(r, x) \in Q
  <2> SUFFICES ASSUME NEW r \in Seq(S), NEW x \in S, r \in Q PROVE Append(r, x) \in Q
    OBVIOUS
  <2>1. Select(Append(r, x), T) = IF x \in T THEN Append(Select(r, T), x) ELSE Select(r, T)
    BY SelectAppend
  <2>2. Select(Append(r, x), U) = IF x \in U THEN Append(Select(r, U), x) ELSE Select(r, U)
    BY SelectAppend
  <2>3. Append(r, x) \in Seq(S) /\ Select(r, T) = Select(r, U) /\ (x \in T <=> x \in U)
    OBVIOUS
  <2>4. Select(Append(r, x), T) = Select(Append(r, x), U)
    BY <2>1, <2>2, <2>3
  <2> QED BY <2>3, <2>4
<1> HIDE DEF Q
<1>3. \A r \in Seq(S) : r \in Q
  BY <1>1, <1>2, SeqInduction
<1> QED BY <1>3 DEF Q

(* Selecting twice is selecting by the intersection.                       *)
LEMMA SelectTwice ==
  ASSUME NEW S, NEW q \in Seq(S), NEW T, NEW U
  PROVE  Select(Select(q, T), U) = Select(q, T \cap U)
<1> DEFINE Q == {r \in Seq(S) : Select(Select(r, T), U) = Select(r, T \cap U)}
<1>1. <<>> \in Q
  BY SelectEmpty
<1>2. \A r \in Seq(S), x \in S : r \in Q => Append(r, x) \in Q
  <2> SUFFICES ASSUME NEW r \in Seq(S), NEW x \in S, r \in Q PROVE Append(r, x) \in Q
    OBVIOUS
  <2>1. Select(r, T) \in Seq(S)
    BY SelectSeqType
  <2>2. Select(Append(Select(r, T), x), U)
          = IF x \in U THEN Append(Select(Select(r, T), U), x) ELSE Select(Select(r, T), U)
    BY <2>1, SelectAppend
  <2>3. Select(Append(r, x), T) = IF x \in T THEN Append(Select(r, T), x) ELSE Select(r, T)
    BY SelectAppend
  <2>4. Select(Append(r, x), T \cap U)
          = IF x \in T \cap U THEN Append(Select(r, T \cap U), x) ELSE Select(r, T \cap U)
    <3> DEFINE V == T \cap U
    <3> HIDE DEF V
    <3> QED BY SelectAppend DEF V
  <2>5. Append(r, x) \in Seq(S) /\ Select(Select(r, T), U) = Select(r, T \cap U)
    OBVIOUS
  <2>6. Select(Select(Append(r, x), T), U) = Select(Append(r, x), T \cap U)
    <3>1. CASE x \in T
      <4>1. Select(Append(r, x), T) = Append(Select(r, T), x)
        BY <3>1, <2>3
      <4>2. x \in T \cap U <=> x \in U
        BY <3>1
      <4>3. Select(Select(Append(r, x), T), U)
              = IF x \in U THEN Append(Select(r, T \cap U), x) ELSE Select(r, T \cap U)
        BY <4>1, <2>2, <2>5
      <4> QED BY <4>2, <4>3, <2>4
    <3>2. CASE x \notin T
      BY <3>2, <2>3, <2>4, <2>5
    <3> QED BY <3>1, <3>2
  <2> QED BY <2>5, <2>6
<1> HIDE DEF Q
<1>3. \A r \in Seq(S) : r \in Q
  BY <1>1, <1>2, SeqInduction
<1> QED BY <1>3 DEF Q

(* The values that a function has at the elements of a sequence. *)
Values(f, q) == [j \in 1..Len(q) |-> f[q[j]]]

(* There are as many values as elements, and each is that of its element.  *)
LEMMA ValuesType ==
  ASSUME NEW S, NEW R, NEW q \in Seq(S), NEW f, \A x \in S : f[x] \in R
  PROVE  Values(f, q) \in Seq(R) /\ Len(Values(f, q)) = Len(q)
         /\ \A j \in 1..Len(q) : Values(f, q)[j] = f[q[j]]
BY DEF Values

(* The same, as one fact.                                                  *)
ValuesIn(f, q, R) ==
  /\ Values(f, q) \in Seq(R) /\ Len(Values(f, q)) = Len(q)
  /\ \A j \in 1..Len(q) : Values(f, q)[j] = f[q[j]]

(* It holds of every sequence of arguments of the function.                *)
LEMMA ValuesHold ==
  ASSUME NEW S, NEW R, NEW q \in Seq(S), NEW f, \A x \in S : f[x] \in R
  PROVE  ValuesIn(f, q, R)
BY ValuesType DEF ValuesIn

(* The values at two sequences, one after the other.                       *)
LEMMA ValuesConcat ==
  ASSUME NEW S, NEW p \in Seq(S), NEW q \in Seq(S), NEW f
  PROVE  Values(f, p \o q) = Values(f, p) \o Values(f, q)
<1> DEFINE R == {f[x] : x \in S}
           pq == p \o q
<1>1. pq \in Seq(S) /\ Len(pq) = Len(p) + Len(q)
      /\ \A j \in 1..Len(p) + Len(q) : pq[j] = IF j <= Len(p) THEN p[j] ELSE q[j - Len(p)]
  BY ConcatProperties
<1>2. \A x \in S : f[x] \in R
  OBVIOUS
<1> HIDE DEF R, pq
<1>0. p \in Seq(S) /\ q \in Seq(S) /\ \A x \in S : f[x] \in R
  BY <1>2
<1>3. Values(f, p) \in Seq(R) /\ Len(Values(f, p)) = Len(p)
      /\ \A j \in 1..Len(p) : Values(f, p)[j] = f[p[j]]
  <2>1. ValuesIn(f, p, R)
    BY ONLY <1>0, ValuesHold
  <2> QED BY ONLY <2>1 DEF ValuesIn
<1>4. Values(f, q) \in Seq(R) /\ Len(Values(f, q)) = Len(q)
      /\ \A j \in 1..Len(q) : Values(f, q)[j] = f[q[j]]
  <2>1. ValuesIn(f, q, R)
    BY ONLY <1>0, ValuesHold
  <2> QED BY ONLY <2>1 DEF ValuesIn
<1>5. Values(f, pq) \in Seq(R) /\ Len(Values(f, pq)) = Len(p) + Len(q)
      /\ \A j \in 1..Len(p) + Len(q) : Values(f, pq)[j] = f[pq[j]]
  BY <1>1, <1>2, ValuesType
<1>6. Len(p) \in Nat /\ Len(q) \in Nat
  OBVIOUS
<1> DEFINE a == Values(f, p)
           b == Values(f, q)
           c == Values(f, pq)
<1> HIDE DEF a, b, c
<1>7. a \o b \in Seq(R) /\ Len(a \o b) = Len(p) + Len(q)
      /\ \A j \in 1..Len(p) + Len(q) : (a \o b)[j] = IF j <= Len(p) THEN a[j] ELSE b[j - Len(p)]
  <2>1. a \in Seq(R) /\ b \in Seq(R) /\ Len(a) = Len(p) /\ Len(b) = Len(q)
    BY <1>3, <1>4 DEF a, b
  <2>2. /\ a \o b \in Seq(R) /\ Len(a \o b) = Len(a) + Len(b)
        /\ \A j \in 1..Len(a) + Len(b) : (a \o b)[j] = IF j <= Len(a) THEN a[j] ELSE b[j - Len(a)]
    BY <2>1, ConcatProperties
  <2> QED BY <2>1, <2>2
<1>8. ASSUME NEW j \in 1..Len(p) + Len(q) PROVE c[j] = (a \o b)[j]
  <2>1. CASE j <= Len(p)
    <3>1. j \in 1..Len(p)
      BY <1>6, <2>1
    <3>2. c[j] = f[p[j]] /\ a[j] = f[p[j]]
      BY <1>1, <1>3, <1>5, <2>1, <3>1 DEF a, c
    <3> QED BY <1>7, <2>1, <3>2
  <2>2. CASE ~(j <= Len(p))
    <3>1. j - Len(p) \in 1..Len(q)
      BY <1>6, <2>2
    <3>2. c[j] = f[q[j - Len(p)]] /\ b[j - Len(p)] = f[q[j - Len(p)]]
      BY <1>1, <1>4, <1>5, <2>2, <3>1 DEF b, c
    <3> QED BY <1>7, <2>2, <3>2
  <2> QED BY <2>1, <2>2
<1>9. c \in Seq(R) /\ Len(c) = Len(a \o b) /\ a \o b \in Seq(R)
  BY <1>5, <1>7 DEF c
<1>10. c = a \o b
  BY <1>6, <1>7, <1>8, <1>9, SeqEqual
<1> QED BY <1>10 DEF a, b, c, pq

(* To select among the values is to select the elements that have them.    *)
LEMMA SelectOfValues ==
  ASSUME NEW S, NEW q \in Seq(S), NEW f, NEW T, NEW U,
         \A x \in S : x \in U <=> f[x] \in T
  PROVE  Select(Values(f, q), T) = Values(f, Select(q, U))
<1> DEFINE Q == {r \in Seq(S) : Select(Values(f, r), T) = Values(f, Select(r, U))}
           R == {f[x] : x \in S}
<1>1. <<>> \in Q
  <2>1. Values(f, <<>>) = <<>>
    BY DEF Values
  <2> QED BY <2>1, SelectEmpty
<1>2. \A r \in Seq(S), x \in S : r \in Q => Append(r, x) \in Q
  <2> SUFFICES ASSUME NEW r \in Seq(S), NEW x \in S, r \in Q PROVE Append(r, x) \in Q
    OBVIOUS
  <2>0. \A p \in Seq(S) : Values(f, Append(p, x)) = Append(Values(f, p), f[x])
    <3> SUFFICES ASSUME NEW p \in Seq(S)
                 PROVE  Values(f, Append(p, x)) = Append(Values(f, p), f[x])
      OBVIOUS
    <3>1. Append(p, x) \in Seq(S) /\ Len(Append(p, x)) = Len(p) + 1
          /\ Append(p, x)[Len(p) + 1] = x /\ \A j \in 1..Len(p) : Append(p, x)[j] = p[j]
      BY AppendProperties
    <3> QED BY <3>1 DEF Values
  <2>1. Select(r, U) \in Seq(S)
    BY SelectSeqType
  <2>2. Values(f, r) \in Seq(R) /\ f[x] \in R
    <3>1. f[x] \in R /\ \A y \in S : f[y] \in R
      OBVIOUS
    <3> HIDE DEF R
    <3> QED BY <3>1, ValuesType
  <2>3. Select(Append(Values(f, r), f[x]), T)
          = IF f[x] \in T THEN Append(Select(Values(f, r), T), f[x]) ELSE Select(Values(f, r), T)
    <3> DEFINE fr == Values(f, r)
               y == f[x]
    <3>1. fr \in Seq(R) /\ y \in R
      BY <2>2
    <3> HIDE DEF R, fr, y
    <3>2. Select(Append(fr, y), T) = IF y \in T THEN Append(Select(fr, T), y) ELSE Select(fr, T)
      BY <3>1, SelectAppend
    <3> QED BY <3>2 DEF fr, y
  <2>4. Select(Append(r, x), U) = IF x \in U THEN Append(Select(r, U), x) ELSE Select(r, U)
    BY SelectAppend
  <2>5. Append(r, x) \in Seq(S)
    OBVIOUS
  <2> QED BY <2>0, <2>1, <2>3, <2>4, <2>5
<1> HIDE DEF Q
<1>3. \A r \in Seq(S) : r \in Q
  BY <1>1, <1>2, SeqInduction
<1> QED BY <1>3 DEF Q

(* The first n numbers, in their order.                                    *)
Upto(n) == [i \in 1..n |-> i]

(* They are n, and one more is appended.                                   *)
LEMMA UptoType ==
  ASSUME NEW n \in Nat
  PROVE  Upto(n) \in Seq(1..n) /\ Len(Upto(n)) = n /\ Upto(n + 1) = Append(Upto(n), n + 1)
<1>1. Upto(n) \in Seq(1..n) /\ Len(Upto(n)) = n
  BY DEF Upto
<1>2. Upto(n) \in Seq(Nat) /\ Upto(n + 1) \in Seq(Nat) /\ Len(Upto(n + 1)) = n + 1
  BY DEF Upto
<1>3. Append(Upto(n), n + 1) \in Seq(Nat) /\ Len(Append(Upto(n), n + 1)) = n + 1
  BY <1>1, <1>2
<1>4. \A i \in 1..n + 1 : Upto(n + 1)[i] = Append(Upto(n), n + 1)[i]
  BY <1>1, <1>2 DEF Upto
<1>5. Upto(n + 1) = Append(Upto(n), n + 1)
  BY <1>2, <1>3, <1>4, SeqEqual
<1> QED BY <1>1, <1>5

(* A sequence that rises and holds the numbers up to n that are in T.      *)
Enumerates(e, n, T) ==
  /\ e \in Seq((1..n) \cap T)
  /\ \A j, k \in 1..Len(e) : j < k => e[j] < e[k]
  /\ \A x \in (1..n) \cap T : \E j \in 1..Len(e) : e[j] = x

(* Selecting from the first n numbers makes such a sequence.               *)
LEMMA Enumeration ==
  ASSUME NEW n \in Nat, NEW T
  PROVE  Enumerates(Select(Upto(n), T), n, T)
<1> DEFINE U == {m \in Nat : Enumerates(Select(Upto(m), T), m, T)}
<1>1. 0 \in U
  <2>1. Upto(0) = <<>>
    BY DEF Upto
  <2>2. Select(Upto(0), T) = <<>>
    BY <2>1, SelectEmpty
  <2>3. Enumerates(<<>>, 0, T)
    <3>1. <<>> \in Seq((1..0) \cap T) /\ Len(<<>>) = 0 /\ 1..0 = {}
      OBVIOUS
    <3> QED BY <3>1 DEF Enumerates
  <2> QED BY <2>2, <2>3
<1>2. ASSUME NEW m \in Nat, m \in U PROVE m + 1 \in U
  <2> DEFINE e == Select(Upto(m), T)
             f == Select(Upto(m + 1), T)
  <2>1. f = IF m + 1 \in T THEN Append(e, m + 1) ELSE e
    <3>1. Upto(m) \in Seq(Nat) /\ m + 1 \in Nat
      BY DEF Upto
    <3>2. Select(Append(Upto(m), m + 1), T) = IF m + 1 \in T THEN Append(e, m + 1) ELSE e
      <4> DEFINE x == m + 1
                 u == Upto(m)
      <4>1. u \in Seq(Nat) /\ x \in Nat
        BY ONLY <3>1
      <4> HIDE DEF x, u
      <4>2. Select(Append(u, x), T) = IF x \in T THEN Append(Select(u, T), x) ELSE Select(u, T)
        BY ONLY <4>1, SelectAppend
      <4> QED BY ONLY <4>2 DEF x, u
    <3>3. Upto(m + 1) = Append(Upto(m), m + 1)
      BY UptoType
    <3> QED BY ONLY <3>2, <3>3
  <2>2. Enumerates(e, m, T)
    BY <1>2
  <2> HIDE DEF e, f
  <2>3. /\ Len(e) \in Nat /\ e \in Seq((1..m + 1) \cap T)
        /\ \A j \in 1..Len(e) : e[j] \in 1..m
    BY <2>2 DEF Enumerates
  <2>4. CASE m + 1 \in T
    <3>1. f = Append(e, m + 1)
      BY <2>1, <2>4
    <3>2. /\ f \in Seq((1..m + 1) \cap T) /\ Len(f) = Len(e) + 1
          /\ f[Len(e) + 1] = m + 1 /\ \A j \in 1..Len(e) : f[j] = e[j]
      BY <2>3, <2>4, <3>1
    <3>3. \A j, k \in 1..Len(f) : j < k => f[j] < f[k]
      <4> SUFFICES ASSUME NEW j \in 1..Len(f), NEW k \in 1..Len(f), j < k PROVE f[j] < f[k]
        OBVIOUS
      <4>1. j \in 1..Len(e) /\ f[j] = e[j] /\ e[j] < m + 1
        BY <2>3, <3>2
      <4>2. CASE k \in 1..Len(e)
        BY <4>1, <4>2, <3>2, <2>2 DEF Enumerates
      <4>3. CASE k = Len(e) + 1
        BY <4>1, <4>3, <3>2
      <4>4. k \in 1..Len(e) \/ k = Len(e) + 1
        BY <2>3, <3>2
      <4> QED BY <4>2, <4>3, <4>4
    <3>4. ASSUME NEW x \in (1..m + 1) \cap T PROVE \E j \in 1..Len(f) : f[j] = x
      <4>1. CASE x = m + 1
        BY <4>1, <3>2, <2>3
      <4>2. CASE x # m + 1
        <5>1. x \in (1..m) \cap T
          BY <3>4, <4>2
        <5>2. PICK j \in 1..Len(e) : e[j] = x
          BY <5>1, <2>2 DEF Enumerates
        <5>3. j \in 1..Len(f) /\ f[j] = x
          BY <5>2, <3>2, <2>3
        <5> QED BY <5>3
      <4> QED BY <4>1, <4>2
    <3>5. Enumerates(f, m + 1, T)
      BY <3>2, <3>3, <3>4 DEF Enumerates
    <3> QED BY <3>5 DEF f
  <2>5. CASE m + 1 \notin T
    <3>1. f = e
      BY <2>1, <2>5
    <3>2. (1..m + 1) \cap T = (1..m) \cap T
      BY <2>5
    <3>3. Enumerates(f, m + 1, T)
      BY <3>1, <3>2, <2>2 DEF Enumerates
    <3> QED BY <3>3 DEF f
  <2> QED BY <2>4, <2>5
<1> HIDE DEF U
<1>3. n \in U
  BY <1>1, <1>2, SetInduction
<1> QED BY <1>3 DEF U

(* The list that a sequence of nodes makes. *)
Linked(s, q) ==
  /\ s.head = IF q = <<>> THEN Nil ELSE q[1]
  /\ \A j \in 1..Len(q) : s.next[q[j]] = IF j = Len(q) THEN Nil ELSE q[j + 1]

(* No node is behind one that it leads to. *)
Forward(s, m, pos) ==
  /\ pos \in [1..m -> 0..m + 1]
  /\ \A j \in 1..m : s.next[j] # Nil => pos[j] < pos[s.next[j]]

(* Links that never go back lead from the head through the sequence that   *)
(* they make and no further.                                               *)
LEMMA ReachedIsLinked ==
  ASSUME NEW s, NEW m \in Nat, Len(s.line) = m, s.next \in [1..m -> 0..m],
         NEW pos, Forward(s, m, pos), NEW q \in Seq(1..m), Linked(s, q)
  PROVE  Reached(s) = q
<1> DEFINE step(g, i) == IF i = Nil THEN <<>> ELSE <<i>> \o g[s.next[i]]
           good(g, k) == /\ g = [i \in Nil..m |-> g[i]]
                         /\ \A i \in Nil..m : i = Nil \/ pos[i] > m + 1 - k => g[i] = step(g, i)
           S == {k \in Nat : \E g : good(g, k)}
<1>0. ASSUME NEW i \in Nil..m, i # Nil
      PROVE  /\ i \in 1..m /\ s.next[i] \in Nil..m /\ pos[i] \in 0..m + 1
             /\ s.next[i] # Nil => pos[i] < pos[s.next[i]]
  BY <1>0 DEF Nil, Forward
<1>1. 0 \in S
  <2> DEFINE g == [i \in Nil..m |-> <<>>]
  <2>1. \A i \in Nil..m : ~(i # Nil /\ pos[i] > m + 1 - 0)
    BY <1>0 DEF Nil
  <2>2. \A i \in Nil..m : i = Nil \/ pos[i] > m + 1 - 0 => g[i] = step(g, i)
    BY <2>1
  <2>3. good(g, 0)
    BY <2>2
  <2> HIDE DEF good
  <2> QED BY <2>3
<1>2. ASSUME NEW k \in Nat, k \in S PROVE k + 1 \in S
  <2>1. PICK g : good(g, k)
    BY <1>2
  <2> DEFINE h == [i \in Nil..m |-> step(g, i)]
  <2>2. ASSUME NEW i \in Nil..m, i = Nil \/ pos[i] > m + 1 - (k + 1)
        PROVE  h[i] = step(h, i)
    <3>1. CASE i = Nil
      BY <3>1
    <3>2. CASE i # Nil
      <4> DEFINE j == s.next[i]
      <4>1. j \in Nil..m /\ (j = Nil \/ pos[j] > m + 1 - k)
        <5>1. j \in Nil..m /\ pos[i] \in 0..m + 1 /\ (j # Nil => pos[i] < pos[j])
          BY <1>0, <3>2 DEF Nil
        <5>2. j # Nil => pos[j] \in 0..m + 1
          BY <1>0, <5>1 DEF Nil
        <5> QED BY <2>2, <3>2, <5>1, <5>2
      <4>2. g[j] = step(g, j)
        BY <2>1, <4>1
      <4>3. h[j] = g[j]
        BY <4>1, <4>2
      <4> QED BY <3>2, <4>3
    <3> QED BY <3>1, <3>2
  <2>3. good(h, k + 1)
    BY <2>2
  <2> HIDE DEF good
  <2> QED BY <2>3
<1>3. m + 2 \in S
  <2> HIDE DEF S
  <2>1. \A k \in Nat : k \in S
    BY <1>1, <1>2, SetInduction
  <2> QED BY <2>1
<1> DEFINE from == CHOOSE g : g = [i \in Nil..Len(s.line) |->
                                     IF i = Nil THEN <<>> ELSE <<i>> \o g[s.next[i]]]
<1>4. \E g : g = [i \in Nil..m |-> step(g, i)]
  <2>1. PICK g : good(g, m + 2)
    BY <1>3
  <2>2. \A i \in Nil..m : g[i] = step(g, i)
    <3>1. \A i \in Nil..m : i = Nil \/ pos[i] > m + 1 - (m + 2)
      BY <1>0 DEF Nil
    <3> QED BY <2>1, <3>1
  <2>3. g = [i \in Nil..m |-> step(g, i)]
    BY <2>1, <2>2
  <2> QED BY <2>3
<1>5. from = [i \in Nil..m |-> step(from, i)]
  BY <1>4
<1>6. Reached(s) = from[s.head]
  BY DEF Reached
<1> HIDE DEF from
<1> DEFINE n == Len(q)
           U == {d \in Nat : d < n => from[q[n - d]] = SubSeq(q, n - d, n)}
<1>7. n \in Nat /\ \A j \in 1..n : q[j] \in 1..m /\ q[j] \in Nil..m /\ q[j] # Nil
  BY DEF Nil
<1>8. \A j \in 1..n : from[q[j]] = <<q[j]>> \o from[s.next[q[j]]]
  BY <1>5, <1>7
<1>9. from[Nil] = <<>>
  BY <1>5 DEF Nil
<1>10. 0 \in U
  <2> SUFFICES ASSUME 0 < n PROVE from[q[n]] = SubSeq(q, n, n)
    BY <1>7
  <2>1. s.next[q[n]] = Nil /\ n \in 1..n
    BY <1>7 DEF Linked
  <2>2. from[q[n]] = <<q[n]>> \o <<>>
    BY <1>8, <1>9, <2>1
  <2>3. SubSeq(q, n, n) = <<q[n]>>
    <3>1. SubSeq(q, n, n) = <<q[n]>> \o SubSeq(q, n + 1, n)
      <4>1. n \in 1..Len(q) /\ n \in n..Len(q)
        BY <2>1, <1>7
      <4> HIDE DEF n
      <4> QED BY <4>1, SubSeqRecursiveFirst
    <3>2. SubSeq(q, n + 1, n) = <<>>
      BY <1>7
    <3>3. <<q[n]>> \in Seq(1..m)
      BY <1>7, <2>1
    <3> QED BY <3>1, <3>2, <3>3, ConcatEmptySeq
  <2> QED BY <2>2, <2>3
<1>11. ASSUME NEW d \in Nat, d \in U PROVE d + 1 \in U
  <2> SUFFICES ASSUME d + 1 < n PROVE from[q[n - (d + 1)]] = SubSeq(q, n - (d + 1), n)
    OBVIOUS
  <2> DEFINE j == n - (d + 1)
  <2>1. j \in 1..n /\ j + 1 \in 1..n /\ j # n /\ j + 1 = n - d /\ j \in Nat
    BY <1>7
  <2>2. s.next[q[j]] = q[j + 1]
    BY <2>1 DEF Linked
  <2>3. from[q[j + 1]] = SubSeq(q, j + 1, n)
    <3>1. d < n
      BY <1>7
    <3>2. from[q[n - d]] = SubSeq(q, n - d, n)
      BY <1>11, <3>1
    <3> QED BY <3>2, <2>1
  <2>4. from[q[j]] = <<q[j]>> \o SubSeq(q, j + 1, n)
    BY <1>8, <2>1, <2>2, <2>3
  <2> HIDE DEF j
  <2>5. SubSeq(q, j, n) = <<q[j]>> \o SubSeq(q, j + 1, n)
    <3>1. j \in 1..Len(q) /\ n \in j..Len(q)
      BY <2>1, <1>7
    <3> HIDE DEF n
    <3> QED BY <3>1, SubSeqRecursiveFirst
  <2> QED BY <2>4, <2>5 DEF j
<1> HIDE DEF U
<1>12. \A d \in Nat : d \in U
  BY <1>10, <1>11, SetInduction
<1>13. CASE q = <<>>
  BY <1>6, <1>9, <1>13 DEF Linked
<1>14. CASE q # <<>>
  <2>1. n - 1 \in Nat /\ n - 1 < n /\ n - (n - 1) = 1
    BY <1>7, <1>14
  <2>2. from[q[1]] = SubSeq(q, 1, n)
    BY <1>12, <2>1 DEF U
  <2>3. SubSeq(q, 1, n) = q
    BY SubSeqFull
  <2> QED BY <1>6, <1>14, <2>2, <2>3 DEF Linked
<1> QED BY <1>13, <1>14

(* The loop that passes comments ends: its nodes go up (or down) a rank.   *)
PastLoop(s, dir, m, past) ==
  /\ \A i : PastComments(s, dir, i) = past[i]
  /\ past = [j \in Nil..m |-> IF j = Nil THEN Nil
                              ELSE IF Skipped(s.line[j]) THEN past[dir[j]] ELSE j]

(* Passing comments ends when the links go up a rank, so that the          *)
(* recursion has a value.                                                  *)
LEMMA PastIsDefined ==
  ASSUME NEW s, NEW m \in Nat, Len(s.line) = m, NEW dir \in [1..m -> 0..m],
         NEW pos \in [1..m -> 0..m + 1],
         \A j \in 1..m : Skipped(s.line[j]) /\ dir[j] # Nil => pos[j] < pos[dir[j]]
  PROVE  \E past : PastLoop(s, dir, m, past)
<1> DEFINE step(g, j) == IF j = Nil THEN Nil ELSE IF Skipped(s.line[j]) THEN g[dir[j]] ELSE j
           good(g, k) == /\ g = [j \in Nil..m |-> g[j]]
                         /\ \A j \in Nil..m : j = Nil \/ pos[j] > m + 1 - k => g[j] = step(g, j)
           S == {k \in Nat : \E g : good(g, k)}
<1>0. ASSUME NEW j \in Nil..m, j # Nil
      PROVE  /\ j \in 1..m /\ dir[j] \in Nil..m /\ pos[j] \in 0..m + 1
             /\ Skipped(s.line[j]) /\ dir[j] # Nil => pos[j] < pos[dir[j]]
  BY <1>0 DEF Nil
<1>1. 0 \in S
  <2> DEFINE g == [j \in Nil..m |-> Nil]
  <2>1. \A j \in Nil..m : ~(j # Nil /\ pos[j] > m + 1 - 0)
    BY <1>0 DEF Nil
  <2>2. \A j \in Nil..m : j = Nil \/ pos[j] > m + 1 - 0 => g[j] = step(g, j)
    BY <2>1
  <2>3. good(g, 0)
    BY <2>2
  <2> HIDE DEF good
  <2> QED BY <2>3
<1>2. ASSUME NEW k \in Nat, k \in S PROVE k + 1 \in S
  <2>1. PICK g : good(g, k)
    BY <1>2
  <2> DEFINE h == [j \in Nil..m |-> step(g, j)]
  <2>2. ASSUME NEW j \in Nil..m, j = Nil \/ pos[j] > m + 1 - (k + 1)
        PROVE  h[j] = step(h, j)
    <3>1. CASE j = Nil \/ ~Skipped(s.line[j])
      BY <3>1
    <3>2. CASE j # Nil /\ Skipped(s.line[j])
      <4> DEFINE i == dir[j]
      <4>1. i \in Nil..m /\ (i = Nil \/ pos[i] > m + 1 - k)
        <5>1. i \in Nil..m /\ pos[j] \in 0..m + 1 /\ (i # Nil => pos[j] < pos[i])
          BY <1>0, <3>2 DEF Nil
        <5>2. i # Nil => pos[i] \in 0..m + 1
          BY <1>0, <5>1 DEF Nil
        <5> QED BY <2>2, <3>2, <5>1, <5>2
      <4>2. g[i] = step(g, i)
        BY <2>1, <4>1
      <4>3. h[i] = g[i]
        BY <4>1, <4>2
      <4> QED BY <3>2, <4>3
    <3> QED BY <3>1, <3>2
  <2>3. good(h, k + 1)
    BY <2>2
  <2> HIDE DEF good
  <2> QED BY <2>3
<1>3. m + 2 \in S
  <2> HIDE DEF S
  <2>1. \A k \in Nat : k \in S
    BY <1>1, <1>2, SetInduction
  <2> QED BY <2>1
<1> DEFINE past == CHOOSE g : g = [j \in Nil..Len(s.line) |->
                                     IF j = Nil THEN Nil
                                     ELSE IF Skipped(s.line[j]) THEN g[dir[j]] ELSE j]
<1>4. \E g : g = [j \in Nil..m |-> step(g, j)]
  <2>1. PICK g : good(g, m + 2)
    BY <1>3
  <2>2. \A j \in Nil..m : g[j] = step(g, j)
    <3>1. \A j \in Nil..m : j = Nil \/ pos[j] > m + 1 - (m + 2)
      BY <1>0 DEF Nil
    <3> QED BY <2>1, <3>1
  <2>3. g = [j \in Nil..m |-> step(g, j)]
    BY <2>1, <2>2
  <2> QED BY <2>3
<1>5. past = [j \in Nil..m |-> step(past, j)]
  BY <1>4
<1>6. \A i : PastComments(s, dir, i) = past[i]
  BY DEF PastComments
<1> HIDE DEF past
<1>7. PastLoop(s, dir, m, past)
  BY <1>5, <1>6 DEF PastLoop
<1> QED BY <1>7

(* All before i are skipped back to e, and all from i on up to f.          *)
SkippedBack(s, dir, i, e) ==
  /\ e = Nil \/ ~Skipped(s.line[e])
  /\ \A j \in e + 1..i : Skipped(s.line[j]) /\ dir[j] = j - 1

(* The same forward, over the lines from i on; n is the last line, x and y *)
(* are i and f as links.                                                   *)
SkippedOn(s, dir, n, i, f, x, y) ==
  /\ x = (IF i = n + 1 THEN Nil ELSE i) /\ y = (IF f = n + 1 THEN Nil ELSE f)
  /\ f = n + 1 \/ ~Skipped(s.line[f])
  /\ \A j \in i..f - 1 : Skipped(s.line[j]) /\ dir[j] = IF j = n THEN Nil ELSE j + 1

(* From i the loop goes back to e.                                         *)
LEMMA PastBackward ==
  ASSUME NEW s, NEW m \in Nat, Len(s.line) = m, NEW dir \in [1..m -> 0..m],
         \A j \in 1..m : Skipped(s.line[j]) /\ dir[j] # Nil => dir[j] < j,
         NEW i \in 0..m, NEW e \in 0..i, SkippedBack(s, dir, i, e)
  PROVE  PastComments(s, dir, i) = e
<1> USE DEF SkippedBack
<1> DEFINE pos == [j \in 1..m |-> m - j]
<1>1. pos \in [1..m -> 0..m + 1]
      /\ \A j \in 1..m : Skipped(s.line[j]) /\ dir[j] # Nil => pos[j] < pos[dir[j]]
  BY DEF Nil
<1> HIDE DEF pos
<1>2. PICK past : PastLoop(s, dir, m, past)
  BY <1>1, PastIsDefined
<1> DEFINE U == {d \in Nat : e + d <= i => past[e + d] = e}
<1>3. 0 \in U
  BY <1>2 DEF Nil, PastLoop
<1>4. ASSUME NEW d \in Nat, d \in U PROVE d + 1 \in U
  <2> SUFFICES ASSUME e + (d + 1) <= i PROVE past[e + (d + 1)] = e
    OBVIOUS
  <2>1. e + (d + 1) \in e + 1..i /\ e + (d + 1) \in Nil..m /\ e + (d + 1) # Nil
        /\ (e + (d + 1)) - 1 = e + d
    BY DEF Nil
  <2>2. past[e + (d + 1)] = past[e + d]
    <3> DEFINE j == e + (d + 1)
    <3> HIDE DEF j
    <3>1. j \in Nil..m /\ j # Nil /\ Skipped(s.line[j]) /\ dir[j] = j - 1
      BY <2>1 DEF j
    <3>2. past[j] = past[j - 1]
      BY <1>2, <3>1 DEF PastLoop
    <3> QED BY <3>2, <2>1 DEF j
  <2> QED BY <1>4, <2>2
<1> HIDE DEF U
<1>5. \A d \in Nat : d \in U
  BY <1>3, <1>4, SetInduction
<1>6. i - e \in Nat /\ e + (i - e) = i /\ i - e <= i - e
  OBVIOUS
<1>7. past[i] = e
  <2> DEFINE d == i - e
  <2>1. d \in U /\ d <= i - e
    BY ONLY <1>5, <1>6
  <2> HIDE DEF d
  <2>2. past[e + d] = e
    BY ONLY <2>1 DEF U
  <2> QED BY <1>6, <2>2 DEF d
<1> QED BY <1>2, <1>7 DEF PastLoop

(* From x the loop goes on to y.                                           *)
LEMMA PastForward ==
  ASSUME NEW s, NEW m \in Nat, Len(s.line) = m, NEW dir \in [1..m -> 0..m],
         \A j \in 1..m : Skipped(s.line[j]) /\ dir[j] # Nil => j < dir[j],
         NEW n \in 0..m, NEW i \in 1..n + 1, NEW f \in i..n + 1, NEW x, NEW y,
         SkippedOn(s, dir, n, i, f, x, y)
  PROVE  PastComments(s, dir, x) = y
<1> USE DEF SkippedOn
<1> DEFINE pos == [j \in 1..m |-> j]
<1>1. pos \in [1..m -> 0..m + 1]
      /\ \A j \in 1..m : Skipped(s.line[j]) /\ dir[j] # Nil => pos[j] < pos[dir[j]]
  BY DEF Nil
<1> HIDE DEF pos
<1>2. PICK past : PastLoop(s, dir, m, past)
  BY <1>1, PastIsDefined
<1> DEFINE at(j) == IF j = n + 1 THEN Nil ELSE j
           U == {d \in Nat : f - d >= i => past[at(f - d)] = at(f)}
<1>3. 0 \in U
  BY <1>2 DEF Nil, PastLoop
<1>4. ASSUME NEW d \in Nat, d \in U PROVE d + 1 \in U
  <2> SUFFICES ASSUME f - (d + 1) >= i PROVE past[at(f - (d + 1))] = at(f)
    OBVIOUS
  <2> DEFINE j == f - (d + 1)
  <2>1. j \in i..f - 1 /\ j \in Nil..m /\ j # Nil /\ j # n + 1 /\ j + 1 = f - d /\ f - d >= i
        /\ (j = n <=> j + 1 = n + 1)
    BY DEF Nil
  <2>2. past[j] = past[at(j + 1)]
    <3> HIDE DEF j
    <3>1. Skipped(s.line[j]) /\ dir[j] = at(j + 1)
      BY <2>1
    <3> QED BY <1>2, <2>1, <3>1 DEF PastLoop
  <2> QED BY <1>4, <2>1, <2>2
<1> HIDE DEF U
<1>5. \A d \in Nat : d \in U
  BY <1>3, <1>4, SetInduction
<1>6. f - i \in Nat /\ f - (f - i) = i /\ i >= i
  OBVIOUS
<1>7. past[at(i)] = at(f)
  BY <1>5, <1>6 DEF U
<1> QED BY <1>2, <1>7 DEF PastLoop

-----------------------------------------------------------------------------
(* The loop of an operation over the nodes it found.                       *)
Turns(op, s, q) == FoldLeft(LAMBDA t, i : IF t.crashed THEN t ELSE Turn(op, t, i), s, q)

(* The fold as a function of the first turns.                              *)
TurnsFold(op, s, q, it) ==
  it = [t \in SUBSET (DOMAIN q) |->
          IF t = {} THEN s
          ELSE IF it[t \ {Max(t)}].crashed THEN it[t \ {Max(t)}]
          ELSE Turn(op, it[t \ {Max(t)}], q[Max(t)])]

(* The loop is the last value of that function.                            *)
LEMMA TurnsIsFold ==
  ASSUME NEW op, NEW s, NEW q, DOMAIN q = 1..Len(q), Len(q) \in Nat
  PROVE  \E it : TurnsFold(op, s, q, it) /\ Turns(op, s, q) = it[DOMAIN q]
<1> DEFINE n == Len(q)
           step(it, t) == IF t = {} THEN s
                          ELSE IF it[t \ {Max(t)}].crashed THEN it[t \ {Max(t)}]
                          ELSE Turn(op, it[t \ {Max(t)}], q[Max(t)])
           good(it, m) == /\ it = [t \in SUBSET (1..n) |-> it[t]]
                          /\ \A t \in SUBSET (1..n) : t \subseteq 1..m => it[t] = step(it, t)
           S == {m \in Nat : \E it : good(it, m)}
<1>1. 0 \in S
  <2> DEFINE it == [t \in SUBSET (1..n) |-> s]
  <2>1. good(it, 0)
    OBVIOUS
  <2> HIDE DEF good
  <2> QED BY <2>1
<1>2. ASSUME NEW m \in Nat, m \in S PROVE m + 1 \in S
  <2>1. PICK it : good(it, m)
    BY <1>2
  <2> DEFINE jt == [t \in SUBSET (1..n) |-> step(it, t)]
  <2>2. jt = [t \in SUBSET (1..n) |-> jt[t]]
    OBVIOUS
  <2>3. ASSUME NEW t \in SUBSET (1..n), t \subseteq 1..m + 1
        PROVE  jt[t] = step(jt, t)
    <3>1. CASE t = {}
      BY <3>1
    <3>2. CASE t # {}
      <4>1. Max(t) \in t /\ \A y \in t : y <= Max(t)
        BY <3>2, MaxOf
      <4> DEFINE u == t \ {Max(t)}
      <4>2. u \subseteq 1..m /\ u \in SUBSET (1..n)
        <5>1. Max(t) \in 1..m + 1 /\ t \subseteq 1..n /\ n \in Nat
          BY <4>1, <2>3
        <5>2. ASSUME NEW y \in u PROVE y \in 1..m
          <6>1. y \in t /\ y \in 1..m + 1 /\ y # Max(t) /\ y <= Max(t)
            BY <4>1, <2>3
          <6> HIDE DEF u
          <6> QED BY <5>1, <6>1
        <5> QED BY <5>1, <5>2
      <4>3. it[u] = jt[u]
        BY <4>2, <2>1
      <4> QED BY <3>2, <4>3
    <3> QED BY <3>1, <3>2
  <2> HIDE DEF jt
  <2>4. good(jt, m + 1)
    BY <2>2, <2>3
  <2> HIDE DEF good
  <2> QED BY <2>4
<1>3. n \in S
  <2> HIDE DEF S
  <2> QED BY <1>1, <1>2, SetInduction
<1>4. \E it : TurnsFold(op, s, q, it)
  <2>1. PICK it : good(it, n)
    BY <1>3
  <2>2. it = [t \in SUBSET (1..n) |-> step(it, t)]
    BY <2>1
  <2> QED BY <2>2 DEF TurnsFold
<1> DEFINE fold == CHOOSE it : it = [t \in SUBSET (DOMAIN q) |->
          IF t = {} THEN s
          ELSE IF it[t \ {Max(t)}].crashed THEN it[t \ {Max(t)}]
          ELSE Turn(op, it[t \ {Max(t)}], q[Max(t)])]
<1>5. Turns(op, s, q) = fold[DOMAIN q]
  BY DEF Turns, FoldLeft, MapThenFoldSet
<1>6. TurnsFold(op, s, q, fold)
  BY <1>4 DEF TurnsFold
<1> QED BY <1>5, <1>6

(* A turn is one more, unless one has crashed.                             *)
LEMMA TurnsFoldStep ==
  ASSUME NEW op, NEW s, NEW q, NEW it, TurnsFold(op, s, q, it),
         NEW n \in Nat, DOMAIN q = 1..n, NEW k \in Nat, k + 1 <= n
  PROVE  it[1..k + 1] = IF it[1..k].crashed THEN it[1..k] ELSE Turn(op, it[1..k], q[k + 1])
<1>1. 1..k + 1 # {} /\ Max(1..k + 1) = k + 1 /\ (1..k + 1) \ {k + 1} = 1..k
  <2>1. k + 1 \in 1..n /\ (k + 1) - 1 = k
    OBVIOUS
  <2> QED BY MaxOfInterval, <2>1
<1> DEFINE t == 1..k + 1
           step(u) == IF u = {} THEN s
                      ELSE IF it[u \ {Max(u)}].crashed THEN it[u \ {Max(u)}]
                      ELSE Turn(op, it[u \ {Max(u)}], q[Max(u)])
<1>2. t \in SUBSET (1..n)
  OBVIOUS
<1>3. it = [u \in SUBSET (1..n) |-> step(u)]
  BY DEF TurnsFold
<1>4. it[t] = step(t)
  <2> HIDE DEF t, step
  <2> QED BY <1>2, <1>3
<1> QED BY <1>1, <1>4

(* Without a node found, the list is as it was.                            *)
LEMMA TurnsEmpty ==
  ASSUME NEW op, NEW s
  PROVE  Turns(op, s, <<>>) = s
<1>1. DOMAIN <<>> = 1..Len(<<>>) /\ Len(<<>>) \in Nat /\ 1..Len(<<>>) = {}
  OBVIOUS
<1>2. PICK it : TurnsFold(op, s, <<>>, it) /\ Turns(op, s, <<>>) = it[DOMAIN <<>>]
  BY <1>1, TurnsIsFold
<1> QED BY <1>1, <1>2 DEF TurnsFold

(* One more node found is one more turn.                                   *)
LEMMA TurnsAppend ==
  ASSUME NEW S, NEW q \in Seq(S), NEW x \in S, NEW op, NEW s
  PROVE  Turns(op, s, Append(q, x)) =
           IF Turns(op, s, q).crashed THEN Turns(op, s, q) ELSE Turn(op, Turns(op, s, q), x)
<1> DEFINE n == Len(q)
           r == Append(q, x)
<1>1. /\ n \in Nat /\ DOMAIN q = 1..n
      /\ Len(r) = n + 1 /\ DOMAIN r = 1..n + 1
      /\ r[n + 1] = x /\ \A i \in 1..n : r[i] = q[i]
  OBVIOUS
<1>2. PICK it : TurnsFold(op, s, q, it) /\ Turns(op, s, q) = it[1..n]
  BY <1>1, TurnsIsFold
<1>3. PICK jt : TurnsFold(op, s, r, jt) /\ Turns(op, s, r) = jt[1..n + 1]
  <2> HIDE DEF r
  <2> QED BY <1>1, TurnsIsFold
<1> DEFINE U == {k \in Nat : k <= n => jt[1..k] = it[1..k]}
<1> HIDE DEF r
<1>4. 0 \in U
  BY <1>1, <1>2, <1>3 DEF TurnsFold
<1>5. ASSUME NEW k \in Nat, k \in U PROVE k + 1 \in U
  <2> SUFFICES ASSUME k + 1 <= n PROVE jt[1..k + 1] = it[1..k + 1]
    OBVIOUS
  <2>1. k + 1 <= n + 1
    BY <1>1
  <2>3. jt[1..k + 1] = IF jt[1..k].crashed THEN jt[1..k] ELSE Turn(op, jt[1..k], r[k + 1])
    BY <1>1, <1>3, <2>1, TurnsFoldStep
  <2>4. it[1..k + 1] = IF it[1..k].crashed THEN it[1..k] ELSE Turn(op, it[1..k], q[k + 1])
    BY <1>1, <1>2, TurnsFoldStep
  <2> QED BY <1>1, <1>5, <2>3, <2>4
<1>6. n \in U
  <2> HIDE DEF U
  <2> QED BY <1>1, <1>4, <1>5, SetInduction
<1>9. jt[1..n + 1] = IF jt[1..n].crashed THEN jt[1..n] ELSE Turn(op, jt[1..n], x)
  BY <1>1, <1>3, TurnsFoldStep
<1> QED BY <1>1, <1>2, <1>3, <1>6, <1>9 DEF r

-----------------------------------------------------------------------------
(* FlattenSeq as a function of the first i sequences.                      *)
FlattenLoop(q, f) ==
  f = [i \in 1..Len(q) |-> IF i = 1 THEN q[i] ELSE f[i - 1] \o q[i]]

(* FlattenSeq is the last value of that function.                          *)
LEMMA FlattenIsLoop ==
  ASSUME NEW q, Len(q) \in Nat \ {0}
  PROVE  \E f : FlattenLoop(q, f) /\ FlattenSeq(q) = f[Len(q)]
<1> DEFINE n == Len(q)
           step(f, i) == IF i = 1 THEN q[i] ELSE f[i - 1] \o q[i]
           good(f, k) == /\ f = [i \in 1..n |-> f[i]]
                         /\ \A i \in 1..n : i <= k => f[i] = step(f, i)
           S == {k \in Nat : \E f : good(f, k)}
<1>1. 0 \in S
  <2> DEFINE f == [i \in 1..n |-> <<>>]
  <2>1. \A i \in 1..n : ~(i <= 0)
    OBVIOUS
  <2>2. f = [i \in 1..n |-> f[i]]
    OBVIOUS
  <2> HIDE DEF f
  <2>3. good(f, 0)
    BY <2>1, <2>2
  <2> HIDE DEF good
  <2> QED BY <2>3
<1>2. ASSUME NEW k \in Nat, k \in S PROVE k + 1 \in S
  <2>1. PICK f : good(f, k)
    BY <1>2
  <2> DEFINE h == [i \in 1..n |-> step(f, i)]
  <2>2. ASSUME NEW i \in 1..n, i <= k + 1 PROVE h[i] = step(h, i)
    <3>1. CASE i = 1
      BY <3>1
    <3>2. CASE i # 1
      <4>1. i - 1 \in 1..n /\ i - 1 <= k
        BY <2>2, <3>2
      <4>2. f[i - 1] = step(f, i - 1)
        BY <2>1, <4>1
      <4>3. h[i - 1] = step(f, i - 1)
        BY <4>1
      <4> QED BY <3>2, <4>2, <4>3
    <3> QED BY <3>1, <3>2
  <2>3. good(h, k + 1)
    BY <2>2
  <2> HIDE DEF good
  <2> QED BY <2>3
<1>3. n \in S
  <2> HIDE DEF S
  <2>1. \A k \in Nat : k \in S
    BY <1>1, <1>2, SetInduction
  <2> QED BY <2>1
<1> DEFINE flatten == CHOOSE f : f = [i \in 1..Len(q) |-> IF i = 1 THEN q[i] ELSE f[i - 1] \o q[i]]
<1>4. \E f : FlattenLoop(q, f)
  <2>1. PICK f : good(f, n)
    BY <1>3
  <2>2. f = [i \in 1..n |-> step(f, i)]
    <3>0. \A i \in 1..n : i <= n
      OBVIOUS
    <3>1. f = [i \in 1..n |-> f[i]] /\ \A i \in 1..n : f[i] = step(f, i)
      <4> HIDE DEF step
      <4> QED BY <2>1, <3>0
    <3> QED BY <3>1
  <2>3. FlattenLoop(q, f)
    BY <2>2 DEF FlattenLoop
  <2> QED BY <2>3
<1>5. FlattenSeq(q) = flatten[Len(q)]
  BY DEF FlattenSeq
<1>6. FlattenLoop(q, flatten)
  BY <1>4 DEF FlattenLoop
<1> QED BY <1>5, <1>6

(* No sequences make an empty one.                                         *)
LEMMA FlattenEmpty == FlattenSeq(<<>>) = <<>>
BY DEF FlattenSeq

(* One more sequence comes behind those before it.                         *)
LEMMA FlattenAppend ==
  ASSUME NEW S, NEW q \in Seq(Seq(S)), NEW x \in Seq(S)
  PROVE  FlattenSeq(Append(q, x)) = FlattenSeq(q) \o x
<1> DEFINE n == Len(q)
           r == Append(q, x)
<1>1. n \in Nat /\ Len(r) = n + 1 /\ r[n + 1] = x /\ \A i \in 1..n : r[i] = q[i]
  OBVIOUS
<1> HIDE DEF r
<1>2. PICK g : FlattenLoop(r, g) /\ FlattenSeq(r) = g[n + 1]
  BY <1>1, FlattenIsLoop
<1>3. CASE n = 0
  <2>1. FlattenSeq(r) = x
    BY <1>1, <1>2, <1>3 DEF FlattenLoop
  <2>2. q = <<>>
    BY <1>3
  <2>3. FlattenSeq(q) \o x = x
    BY <2>2, FlattenEmpty
  <2> QED BY <2>1, <2>3 DEF r
<1>4. CASE n # 0
  <2>1. PICK f : FlattenLoop(q, f) /\ FlattenSeq(q) = f[n]
    BY <1>1, <1>4, FlattenIsLoop
  <2> DEFINE U == {k \in Nat : k \in 1..n => f[k] = g[k]}
  <2>2. 0 \in U
    OBVIOUS
  <2>3. ASSUME NEW k \in Nat, k \in U PROVE k + 1 \in U
    <3> SUFFICES ASSUME k + 1 \in 1..n PROVE f[k + 1] = g[k + 1]
      OBVIOUS
    <3>1. f[k + 1] = IF k + 1 = 1 THEN q[k + 1] ELSE f[(k + 1) - 1] \o q[k + 1]
      BY <2>1 DEF FlattenLoop
    <3>2. g[k + 1] = IF k + 1 = 1 THEN r[k + 1] ELSE g[(k + 1) - 1] \o r[k + 1]
      <4>1. k + 1 \in 1..Len(r)
        BY <1>1
      <4> QED BY <4>1, <1>2 DEF FlattenLoop
    <3>3. (k + 1) - 1 = k /\ r[k + 1] = q[k + 1]
      BY <1>1
    <3>4. CASE k = 0
      BY <3>1, <3>2, <3>3, <3>4
    <3>5. CASE k # 0
      <4>1. f[k] = g[k] /\ k + 1 # 1
        BY <2>3, <3>5, <1>1
      <4> QED BY <3>1, <3>2, <3>3, <4>1
    <3> QED BY <3>4, <3>5
  <2>4. n \in U
    <3> HIDE DEF U
    <3>1. \A k \in Nat : k \in U
      BY <2>2, <2>3, SetInduction
    <3> QED BY <3>1, <1>1
  <2>5. f[n] = g[n]
    BY <2>4, <1>1, <1>4
  <2>6. n + 1 \in 1..Len(r) /\ n + 1 # 1 /\ (n + 1) - 1 = n
    BY <1>1, <1>4
  <2>7. g[n + 1] = g[n] \o r[n + 1]
    BY <1>2, <2>6 DEF FlattenLoop
  <2> QED BY <1>1, <1>2, <2>1, <2>5, <2>7 DEF r
<1> QED BY <1>3, <1>4

(* Sequences over S make a sequence over S.                                *)
LEMMA FlattenType ==
  ASSUME NEW S, NEW q \in Seq(Seq(S))
  PROVE  FlattenSeq(q) \in Seq(S)
<1> DEFINE Q == {r \in Seq(Seq(S)) : FlattenSeq(r) \in Seq(S)}
<1>1. <<>> \in Q
  <2>1. <<>> \in Seq(S) /\ <<>> \in Seq(Seq(S))
    OBVIOUS
  <2> QED BY <2>1, FlattenEmpty
<1>2. \A r \in Seq(Seq(S)), x \in Seq(S) : r \in Q => Append(r, x) \in Q
  <2> SUFFICES ASSUME NEW r \in Seq(Seq(S)), NEW x \in Seq(S), r \in Q PROVE Append(r, x) \in Q
    OBVIOUS
  <2>1. FlattenSeq(Append(r, x)) = FlattenSeq(r) \o x
    BY FlattenAppend
  <2>2. FlattenSeq(r) \o x \in Seq(S) /\ Append(r, x) \in Seq(Seq(S))
    OBVIOUS
  <2> QED BY <2>1, <2>2
<1> HIDE DEF Q
<1>3. \A r \in Seq(Seq(S)) : r \in Q
  BY <1>1, <1>2, SeqInduction
<1> QED BY <1>3 DEF Q

-----------------------------------------------------------------------------
(* A part of the list: the head leads through the nodes of w to x.         *)
Leads(s, w, x) ==
  /\ s.head = IF w = <<>> THEN x ELSE w[1]
  /\ \A j \in 1..Len(w) : s.next[w[j]] = IF j = Len(w) THEN x ELSE w[j + 1]

(* A part that leads to no node is the list.                               *)
LEMMA LeadsToEnd ==
  ASSUME NEW s, NEW w, Leads(s, w, Nil)
  PROVE  Linked(s, w)
BY DEF Leads, Linked

(* The node that a part leads to can be counted to it.                     *)
LEMMA LeadsOn ==
  ASSUME NEW S, NEW s, NEW w \in Seq(S), NEW x \in S, Leads(s, w, x)
  PROVE  Leads(s, Append(w, x), s.next[x])
<1> DEFINE n == Len(w)
           v == Append(w, x)
<1>1. /\ n \in Nat /\ Len(v) = n + 1 /\ v # <<>>
      /\ v[n + 1] = x /\ \A j \in 1..n : v[j] = w[j]
  OBVIOUS
<1> HIDE DEF v
<1>2. s.head = v[1]
  <2>1. CASE w = <<>>
    BY <1>1, <2>1 DEF Leads
  <2>2. CASE w # <<>>
    <3>1. 1 \in 1..n
      BY <1>1, <2>2
    <3> QED BY <1>1, <2>2, <3>1 DEF Leads
  <2> QED BY <2>1, <2>2
<1>3. ASSUME NEW j \in 1..n + 1
      PROVE  s.next[v[j]] = IF j = n + 1 THEN s.next[x] ELSE v[j + 1]
  <2>1. CASE j = n + 1
    BY <1>1, <2>1
  <2>2. CASE j # n + 1
    <3>1. j \in 1..n /\ v[j] = w[j]
      BY <1>1, <2>2
    <3>2. s.next[w[j]] = IF j = n THEN x ELSE w[j + 1]
      BY <3>1 DEF Leads
    <3>3. CASE j = n
      BY <1>1, <2>2, <3>1, <3>2, <3>3
    <3>4. CASE j # n
      <4>1. j + 1 \in 1..n /\ v[j + 1] = w[j + 1]
        BY <1>1, <3>1, <3>4
      <4> QED BY <2>2, <3>1, <3>2, <3>4, <4>1
    <3> QED BY <3>3, <3>4
  <2> QED BY <2>1, <2>2
<1> QED BY <1>1, <1>2, <1>3 DEF Leads, v

(* The nodes of lines that nothing has touched.                            *)
Between(a, b) == [j \in 1..b - a + 1 |-> a + j - 1]

(* It is as long as there are lines, and one more line is appended.        *)
LEMMA BetweenType ==
  ASSUME NEW a \in Nat, NEW b \in Nat, a <= b + 1
  PROVE  /\ Between(a, b) \in Seq(a..b) /\ Len(Between(a, b)) = b - a + 1
         /\ Between(a, b + 1) = Append(Between(a, b), b + 1)
<1>1. b - a + 1 \in Nat /\ (b + 1) - a + 1 = b - a + 2
  OBVIOUS
<1>2. Between(a, b) \in Seq(a..b) /\ Len(Between(a, b)) = b - a + 1
  BY <1>1 DEF Between
<1>3. Between(a, b) \in Seq(Nat) /\ Between(a, b + 1) \in Seq(Nat) /\ Len(Between(a, b + 1)) = b - a + 2
  BY <1>1 DEF Between
<1>4. Append(Between(a, b), b + 1) \in Seq(Nat) /\ Len(Append(Between(a, b), b + 1)) = b - a + 2
  BY <1>1, <1>2, <1>3
<1>5. \A i \in 1..b - a + 2 : Between(a, b + 1)[i] = Append(Between(a, b), b + 1)[i]
  BY <1>1, <1>2, <1>3 DEF Between
<1>6. Between(a, b + 1) = Append(Between(a, b), b + 1)
  BY <1>3, <1>4, <1>5, SeqEqual
<1> QED BY <1>2, <1>6

(* Lines that nothing has touched lengthen a part.                         *)
LEMMA LeadsOver ==
  ASSUME NEW s, NEW m \in Nat, NEW w \in Seq(1..m), NEW g \in 1..m, Leads(s, w, g),
         NEW i \in g..m, \A j \in g..i - 1 : s.next[j] = j + 1
  PROVE  Leads(s, w \o Between(g, i), s.next[i]) /\ w \o Between(g, i) \in Seq(1..m)
<1> DEFINE U == {d \in Nat : g + d <= i => /\ Leads(s, w \o Between(g, g + d), s.next[g + d])
                                          /\ w \o Between(g, g + d) \in Seq(1..m)}
<1>0. \A d \in Nat : /\ Between(g, g + d) \in Seq(Nat)
                     /\ g + d <= i => Between(g, g + d) \in Seq(1..m)
                     /\ Between(g, g + (d + 1)) = Append(Between(g, g + d), g + (d + 1))
  <2> SUFFICES ASSUME NEW d \in Nat
               PROVE  /\ Between(g, g + d) \in Seq(Nat)
                      /\ g + d <= i => Between(g, g + d) \in Seq(1..m)
                      /\ Between(g, g + (d + 1)) = Append(Between(g, g + d), g + (d + 1))
    OBVIOUS
  <2> DEFINE b == g + d
  <2>1. b \in Nat /\ g \in Nat /\ g <= b + 1 /\ g + (d + 1) = b + 1
    OBVIOUS
  <2> HIDE DEF b
  <2>2. /\ Between(g, b) \in Seq(g..b) /\ Len(Between(g, b)) = b - g + 1
        /\ Between(g, b + 1) = Append(Between(g, b), b + 1)
    BY <2>1, BetweenType
  <2>3. Between(g, b) \in Seq(Nat) /\ (b <= i => Between(g, b) \in Seq(1..m))
    BY <2>1, <2>2
  <2> QED BY <2>1, <2>2, <2>3 DEF b
<1>1. 0 \in U
  <2>1. Between(g, g + 0) = <<g>>
    BY DEF Between
  <2>2. w \o <<g>> = Append(w, g) /\ Append(w, g) \in Seq(1..m) /\ g + 0 = g
    OBVIOUS
  <2>3. Leads(s, Append(w, g), s.next[g])
    BY LeadsOn
  <2> QED BY <2>1, <2>2, <2>3
<1>2. ASSUME NEW d \in Nat, d \in U PROVE d + 1 \in U
  <2> SUFFICES ASSUME g + (d + 1) <= i
               PROVE  /\ Leads(s, w \o Between(g, g + (d + 1)), s.next[g + (d + 1)])
                      /\ w \o Between(g, g + (d + 1)) \in Seq(1..m)
    OBVIOUS
  <2> DEFINE v == w \o Between(g, g + d)
             x == g + (d + 1)
  <2>1. g + d <= i /\ x \in 1..m /\ g + d \in g..i - 1 /\ (g + d) + 1 = x
    OBVIOUS
  <2>2. v \in Seq(1..m) /\ Leads(s, v, x)
    BY <1>2, <2>1
  <2>3. w \o Between(g, x) = Append(v, x)
    <3>1. Between(g, x) = Append(Between(g, g + d), x)
      BY <1>0
    <3>2. Between(g, g + d) \in Seq(1..m)
      BY <1>0, <2>1
    <3> DEFINE b == Between(g, g + d)
    <3>3. w \o Append(b, x) = Append(w \o b, x)
      <4>1. x \in 1..m /\ b \in Seq(1..m)
        BY <2>1, <3>2
      <4> HIDE DEF x, b
      <4> QED BY <4>1
    <3> QED BY <3>1, <3>3
  <2>4. Leads(s, Append(v, x), s.next[x]) /\ Append(v, x) \in Seq(1..m)
    <3>1. x \in 1..m
      BY <2>1
    <3> HIDE DEF v, x
    <3>2. Leads(s, Append(v, x), s.next[x])
      BY <2>2, <3>1, LeadsOn
    <3>3. Append(v, x) \in Seq(1..m)
      BY <2>2, <3>1
    <3> QED BY <3>2, <3>3
  <2> QED BY <2>3, <2>4
<1> HIDE DEF U
<1>3. \A d \in Nat : d \in U
  BY <1>1, <1>2, SetInduction
<1>4. i - g \in Nat /\ g + (i - g) = i
  OBVIOUS
<1> QED BY <1>3, <1>4 DEF U

-----------------------------------------------------------------------------
(* What the kinds of lines are: one that counts is not skipped, a rule     *)
(* counts, and the mark, comments and empty lines do not.                  *)
LEMMA LineKinds ==
  /\ \A l \in PamLines : /\ l \in SignificantLines <=> ~Skipped(l)
                         /\ \A key : Matches(l, key) => l \in SignificantLines
                         /\ l.what = "rule" => l.key \in KeptKeys /\ l.args \in ArgSets
                                              /\ l = Rule(l.key, l.args)
  /\ \A key \in KeptKeys, args \in ArgSets :
       /\ Rule(key, args) \in SignificantLines /\ Rule(key, args) \in PamLines
       /\ Rule(key, args).what = "rule" /\ Rule(key, args).key = key /\ Rule(key, args).args = args
  /\ SignificantLines \subseteq PamLines
  /\ Comment \in PamLines /\ Skipped(Comment) /\ Comment \notin SignificantLines
  /\ Mark \in PamLines /\ Mark \notin SignificantLines
  /\ Other("empty") \in PamLines /\ Other("empty") \notin SignificantLines
BY DEF PamLines, SignificantLines, Skipped, Matches, Rule, Comment, Mark, Other

(* A spelling that is kept is one of a task, and is kept as it is.         *)
LEMMA KeptSpelling ==
  /\ KeptKeys \subseteq Keys /\ NoKey \notin Keys
  /\ \A key \in Keys : Kept[key] \in KeptKeys /\ (Kept[key] = key => key \in KeptKeys)
  /\ \A key \in KeptKeys : Kept[key] = key
BY PamdAssumption DEF KeptKeys

(* A rule of a file is kept as it is.                                      *)
LEMMA RuleIsKept ==
  ASSUME NEW l \in PamLines, l.what = "rule"
  PROVE  Keep(l) = l
<1>1. l.key \in KeptKeys /\ l = Rule(l.key, l.args)
  BY LineKinds
<1>2. Kept[l.key] = l.key
  BY <1>1, KeptSpelling
<1> QED BY <1>1, <1>2 DEF Keep

(* What is kept of a rule as a task spells it.                             *)
LEMMA KeptRule ==
  ASSUME NEW key \in Keys, NEW args \in ArgSets
  PROVE  /\ Keep(Rule(key, args)) \in SignificantLines /\ Keep(Rule(key, args)) \in PamLines
         /\ Kept[key] = key => Keep(Rule(key, args)) = Rule(key, args)
<1>1. Keep(Rule(key, args)) = Rule(Kept[key], args)
  BY DEF Keep, Rule
<1>2. Kept[key] \in KeptKeys
  BY KeptSpelling
<1> QED BY <1>1, <1>2, LineKinds

(* The nodes of the lines that are not skipped, and of those that match.   *)
SignificantNodes(lines) == Select(Upto(Len(lines)), {i \in 1..Len(lines) : ~Skipped(lines[i])})
(* The lines that a task is about.                                         *)
Targets(op, lines) == {i \in 1..Len(lines) : Matches(lines[i], op.key)}

(* The lines that count are those at these nodes.                          *)
LEMMA SignificantIsValues ==
  ASSUME NEW lines \in Seq(PamLines)
  PROVE  /\ Significant(lines) = Values(lines, SignificantNodes(lines))
         /\ Significant(lines) \in Seq(SignificantLines)
<1> DEFINE n == Len(lines)
           T == {i \in 1..n : ~Skipped(lines[i])}
<1>0. n \in Nat
  OBVIOUS
<1>1. n \in Nat /\ Upto(n) \in Seq(1..n) /\ Len(Upto(n)) = n
  <2> HIDE DEF n
  <2> QED BY <1>0, UptoType
<1>2. Values(lines, Upto(n)) = lines
  BY <1>1 DEF Values, Upto
<1>3. \A i \in 1..n : i \in T <=> lines[i] \in SignificantLines
  BY LineKinds
<1>4. Select(Values(lines, Upto(n)), SignificantLines) = Values(lines, Select(Upto(n), T))
  <2> HIDE DEF n, T
  <2> QED BY <1>1, <1>3, SelectOfValues
<1>5. Significant(lines) = Values(lines, SignificantNodes(lines))
  BY <1>2, <1>4 DEF Significant, SignificantNodes
<1>6. Select(lines, SignificantLines) \in Seq(PamLines \cap SignificantLines)
  BY SelectType
<1>7. PamLines \cap SignificantLines = SignificantLines
  BY LineKinds
<1> QED BY <1>5, <1>6, <1>7 DEF Significant

(* The lists that a file of n lines can become.                            *)
Lists(n) ==
  [head : 0..2*n, tail : 0..2*n, next : [1..2*n -> 0..2*n], prev : [1..2*n -> 0..2*n],
   line : [1..2*n -> PamLines], fresh : Nat, changes : Nat, crashed : BOOLEAN]

(* Such a list has 2n nodes.                                               *)
LEMMA LinesLength ==
  ASSUME NEW n \in Nat, NEW s \in Lists(n)
  PROVE  Len(s.line) = 2*n /\ s.line \in Seq(PamLines)
<1> DEFINE m == 2*n
<1>1. m \in Nat /\ s.line \in [1..m -> PamLines]
  BY DEF Lists
<1> HIDE DEF m
<1>2. s.line \in Seq(PamLines)
  BY <1>1, SeqDef
<1>3. Len(s.line) \in Nat /\ 1..Len(s.line) = 1..m
  BY <1>1, <1>2
<1>4. Len(s.line) = m
  BY <1>1, <1>3
<1> QED BY <1>2, <1>4 DEF m

(* The list that is read is one, and has the lines in their order.         *)
LEMMA ServiceIsList ==
  ASSUME NEW lines \in Seq(PamLines), NEW n, n = Len(lines)
  PROVE  /\ Service(lines) \in Lists(n)
         /\ Reached(Service(lines)) = Upto(n)
<1> DEFINE s == Service(lines)
           m == 2*n
<1>1. n \in Nat /\ m \in Nat /\ n <= m /\ n + 1 \in Nat
  OBVIOUS
<1>2. s \in Lists(n)
  <2>1. \A i \in 1..n : lines[i] \in PamLines /\ i \in 1..m
    OBVIOUS
  <2>2. Comment \in PamLines
    BY LineKinds
  <2>3. [i \in 1..m |-> IF i < n THEN i + 1 ELSE Nil] \in [1..m -> 0..m]
    BY DEF Nil
  <2>4. [i \in 1..m |-> IF i \in 2..n THEN i - 1 ELSE Nil] \in [1..m -> 0..m]
    BY DEF Nil
  <2>5. [i \in 1..m |-> IF i <= n THEN lines[i] ELSE Comment] \in [1..m -> PamLines]
    BY <2>1, <2>2
  <2>6. (IF n = 0 THEN Nil ELSE 1) \in 0..m /\ n \in 0..m
    BY DEF Nil
  <2> HIDE DEF m
  <2>7. s = [head |-> IF n = 0 THEN Nil ELSE 1, tail |-> n,
             next |-> [i \in 1..m |-> IF i < n THEN i + 1 ELSE Nil],
             prev |-> [i \in 1..m |-> IF i \in 2..n THEN i - 1 ELSE Nil],
             line |-> [i \in 1..m |-> IF i <= n THEN lines[i] ELSE Comment],
             fresh |-> n + 1, changes |-> 0, crashed |-> FALSE]
    BY DEF Service, m
  <2>8. Lists(n) = [head : 0..m, tail : 0..m, next : [1..m -> 0..m], prev : [1..m -> 0..m],
                    line : [1..m -> PamLines], fresh : Nat, changes : Nat, crashed : BOOLEAN]
    BY DEF Lists, m
  <2> HIDE DEF s
  <2> QED BY <1>1, <2>3, <2>4, <2>5, <2>6, <2>7, <2>8
<1>3. /\ s.head = IF n = 0 THEN Nil ELSE 1
      /\ s.next = [i \in 1..m |-> IF i < n THEN i + 1 ELSE Nil]
  BY DEF Service
<1>4. Linked(s, Upto(n))
  <2>1. Upto(n) = <<>> <=> n = 0
    BY <1>1 DEF Upto
  <2>2. n # 0 => Upto(n)[1] = 1
    BY <1>1 DEF Upto
  <2>3. \A j \in 1..n : s.next[Upto(n)[j]] = IF j = n THEN Nil ELSE Upto(n)[j + 1]
    BY <1>1, <1>3 DEF Upto
  <2>4. Len(Upto(n)) = n
    BY <1>1, UptoType
  <2> HIDE DEF s
  <2> QED BY <1>3, <2>1, <2>2, <2>3, <2>4 DEF Linked
<1> DEFINE pos == [j \in 1..m |-> j]
<1>5. Forward(s, m, pos)
  BY <1>1, <1>3 DEF Forward, Nil
<1>6. Upto(n) \in Seq(1..m)
  BY <1>1 DEF Upto
<1>7. Len(s.line) = m /\ s.next \in [1..m -> 0..m]
  <2> HIDE DEF s
  <2> QED BY <1>1, <1>2, LinesLength DEF Lists
<1>8. Reached(s) = Upto(n)
  <2> HIDE DEF s, m, pos
  <2> QED BY <1>1, <1>4, <1>5, <1>6, <1>7, ReachedIsLinked
<1> QED BY <1>2, <1>8

(* get finds the lines that match, among those that are not skipped.       *)
LEMMA TargetsAreFound ==
  ASSUME NEW lines \in Seq(PamLines), NEW op
  PROVE  Get(Service(lines), op.key) = Select(SignificantNodes(lines), Targets(op, lines))
<1> DEFINE n == Len(lines)
           s == Service(lines)
           M == {i \in DOMAIN s.line : Matches(s.line[i], op.key)}
           N == {i \in 1..n : ~Skipped(lines[i])}
           T == Targets(op, lines)
<1>0. n \in Nat /\ n = Len(lines)
  OBVIOUS
<1>1. n \in Nat /\ Reached(s) = Upto(n) /\ Upto(n) \in Seq(1..n)
  <2> HIDE DEF n
  <2> QED BY <1>0, ServiceIsList, UptoType
<1>2. s.line = [i \in 1..2*n |-> IF i <= n THEN lines[i] ELSE Comment]
  BY DEF Service
<1>3. \A i \in 1..n : i \in M <=> i \in N \cap T
  <2>1. \A i \in 1..n : /\ i \in 1..2*n /\ i <= n /\ lines[i] \in PamLines
                      /\ Matches(lines[i], op.key) => ~Skipped(lines[i])
    BY LineKinds
  <2> HIDE DEF s, n
  <2> QED BY <1>2, <2>1 DEF Targets, n
<1>4. Select(Upto(n), M) = Select(Upto(n), N \cap T)
  <2> DEFINE NT == N \cap T
  <2> HIDE DEF n, s, M, NT
  <2> QED BY <1>1, <1>3, SelectAgree DEF NT
<1>5. Select(Select(Upto(n), N), T) = Select(Upto(n), N \cap T)
  <2> HIDE DEF n, N, T
  <2> QED BY <1>1, SelectTwice
<1>6. Get(s, op.key) = Select(Upto(n), M)
  BY <1>1 DEF Get
<1> QED BY <1>4, <1>5, <1>6 DEF SignificantNodes

(* The list after the turns for the first k lines that are not skipped.    *)
Stage(op, lines, k) ==
  Turns(op, Service(lines), Select(SubSeq(SignificantNodes(lines), 1, k), Targets(op, lines)))

(* The loop of a task goes from stage to stage: a turn at a line that      *)
(* matches, nothing at one that does not.                                  *)
LEMMA Stages ==
  ASSUME NEW lines \in Seq(PamLines), NEW op, NEW e, e = SignificantNodes(lines)
  PROVE  /\ Stage(op, lines, 0) = Service(lines)
         /\ Stage(op, lines, Len(e)) = Edited(op, lines)
         /\ \A k \in 0..Len(e) - 1 :
              Stage(op, lines, k + 1) =
                IF Stage(op, lines, k).crashed \/ e[k + 1] \notin Targets(op, lines)
                THEN Stage(op, lines, k) ELSE Turn(op, Stage(op, lines, k), e[k + 1])
<1> DEFINE n == Len(lines)
           T == Targets(op, lines)
           S == 1..n
<1>1. e \in Seq(S)
  <2>1. n \in Nat /\ Upto(n) \in Seq(S)
    BY UptoType
  <2> HIDE DEF S
  <2> QED BY <2>1, SelectSeqType DEF SignificantNodes
<1> HIDE DEF S
<1>2. Stage(op, lines, 0) = Service(lines)
  <2>1. SubSeq(e, 1, 0) = <<>>
    BY <1>1, SubSeqEmpty
  <2> QED BY <2>1, SelectEmpty, TurnsEmpty DEF Stage
<1>3. Stage(op, lines, Len(e)) = Edited(op, lines)
  <2>1. SubSeq(e, 1, Len(e)) = e
    BY <1>1, SubSeqFull
  <2>2. Edited(op, lines) = Turns(op, Service(lines), Get(Service(lines), op.key))
    BY DEF Edited, Turns
  <2> QED BY <2>1, <2>2, TargetsAreFound DEF Stage
<1>4. ASSUME NEW k \in 0..Len(e) - 1
      PROVE  Stage(op, lines, k + 1) =
               IF Stage(op, lines, k).crashed \/ e[k + 1] \notin T
               THEN Stage(op, lines, k) ELSE Turn(op, Stage(op, lines, k), e[k + 1])
  <2> DEFINE a == SubSeq(e, 1, k)
             x == e[k + 1]
             b == Select(a, T)
  <2>1. a \in Seq(S) /\ x \in S
    BY <1>1
  <2>2. SubSeq(e, 1, k + 1) = Append(a, x)
    <3>1. k + 1 \in 1..Len(e) /\ 1 \in 1..Len(e) /\ (k + 1) - 1 = k
      BY <1>1
    <3>2. SubSeq(e, 1, k + 1) = SubSeq(e, 1, k) \o <<e[k + 1]>>
      BY <1>1, <3>1, SubSeqRecursiveSecond
    <3> QED BY <2>1, <3>2
  <2> HIDE DEF a, x
  <2>3. Select(Append(a, x), T) = IF x \in T THEN Append(b, x) ELSE b
    BY <2>1, SelectAppend
  <2>4. b \in Seq(S)
    BY <2>1, SelectSeqType
  <2> HIDE DEF b, T
  <2>5. Turns(op, Service(lines), Append(b, x)) =
          IF Turns(op, Service(lines), b).crashed THEN Turns(op, Service(lines), b)
          ELSE Turn(op, Turns(op, Service(lines), b), x)
    BY <2>1, <2>4, TurnsAppend
  <2>6. Stage(op, lines, k) = Turns(op, Service(lines), b)
    BY DEF Stage, a, b, T
  <2>7. Stage(op, lines, k + 1) = Turns(op, Service(lines), IF x \in T THEN Append(b, x) ELSE b)
    BY <2>2, <2>3 DEF Stage, T
  <2> QED BY <2>5, <2>6, <2>7 DEF x
<1> QED BY <1>2, <1>3, <1>4

(* The nodes of a list of n lines.                                         *)
Nodes(n) == 1..2*n

(* A sequence over a set is one over a greater set.                        *)
LEMMA SeqWiden ==
  ASSUME NEW S, NEW T, S \subseteq T, NEW q \in Seq(S)
  PROVE  q \in Seq(T)
OBVIOUS

(* The rules and other lines that count among the nodes of a part.         *)
Content(s, w) == Select(Values(s.line, w), SignificantLines)

(* They are lines that count.                                              *)
LEMMA ContentType ==
  ASSUME NEW n \in Nat, NEW s \in Lists(n), NEW w \in Seq(Nodes(n))
  PROVE  Content(s, w) \in Seq(SignificantLines) /\ Values(s.line, w) \in Seq(PamLines)
<1> DEFINE S == Nodes(n)
<1>1. \A x \in S : s.line[x] \in PamLines
  BY DEF Lists, Nodes
<1> HIDE DEF S
<1>2. w \in Seq(S)
  BY DEF S
<1>3. Values(s.line, w) \in Seq(PamLines)
  <2> DEFINE f == s.line
  <2>1. \A x \in S : f[x] \in PamLines
    BY <1>1
  <2> HIDE DEF f
  <2>2. Values(f, w) \in Seq(PamLines)
    BY <1>2, <2>1, ValuesType
  <2> QED BY <2>2 DEF f
<1> DEFINE q == Values(s.line, w)
<1> HIDE DEF q
<1>4. q \in Seq(PamLines)
  BY <1>3 DEF q
<1>5. Select(q, SignificantLines) \in Seq(PamLines \cap SignificantLines)
  BY <1>4, SelectType
<1>6. PamLines \cap SignificantLines = SignificantLines
  BY LineKinds
<1> QED BY <1>3, <1>5, <1>6 DEF Content, q

(* The content of two parts, one after the other.                          *)
LEMMA ContentConcat ==
  ASSUME NEW n \in Nat, NEW s \in Lists(n), NEW v \in Seq(Nodes(n)), NEW w \in Seq(Nodes(n))
  PROVE  Content(s, v \o w) = Content(s, v) \o Content(s, w)
<1> DEFINE S == Nodes(n)
           f == s.line
           a == Values(f, v)
           b == Values(f, w)
<1>1. a \in Seq(PamLines) /\ b \in Seq(PamLines)
  BY ContentType
<1>2. v \in Seq(S) /\ w \in Seq(S)
  OBVIOUS
<1> HIDE DEF S, f
<1>3. Values(f, v \o w) = a \o b
  <2> HIDE DEF a, b
  <2> QED BY <1>2, ValuesConcat DEF a, b
<1> HIDE DEF a, b
<1>4. Select(a \o b, SignificantLines) = Select(a, SignificantLines) \o Select(b, SignificantLines)
  BY <1>1, SelectConcat
<1> QED BY <1>3, <1>4 DEF Content, a, b, f

(* Skipped lines have no content.                                          *)
LEMMA ContentSkipped ==
  ASSUME NEW n \in Nat, NEW s \in Lists(n), NEW S \in SUBSET Nodes(n), NEW w \in Seq(S),
         \A x \in S : Skipped(s.line[x])
  PROVE  Content(s, w) = <<>>
<1> DEFINE f == s.line
           R == {l \in PamLines : Skipped(l)}
<1>1. \A x \in S : f[x] \in R
  BY DEF Lists, Nodes
<1> HIDE DEF f, R
<1>2. Values(f, w) \in Seq(R)
  BY <1>1, ValuesType
<1>3. \A l \in R : l \notin SignificantLines
  BY LineKinds DEF R
<1> DEFINE q == Values(f, w)
           T == SignificantLines
<1> HIDE DEF q, T
<1>4. q \in Seq(R) /\ \A l \in R : l \notin T
  BY <1>2, <1>3 DEF q, T
<1>5. Select(q, T) = <<>>
  BY <1>4, SelectNone
<1> QED BY <1>5 DEF Content, q, f, T

(* A line that counts is one more.                                         *)
LEMMA ContentAppend ==
  ASSUME NEW n \in Nat, NEW s \in Lists(n), NEW w \in Seq(Nodes(n)), NEW x \in Nodes(n),
         ~Skipped(s.line[x])
  PROVE  Content(s, Append(w, x)) = Append(Content(s, w), s.line[x])
<1> DEFINE f == s.line
           S == Nodes(n)
           q == Values(f, w)
           y == f[x]
<1>1. f[x] \in PamLines /\ f[x] \in SignificantLines
  BY LineKinds DEF Lists, Nodes
<1>2. q \in Seq(PamLines)
  BY ContentType
<1>3. w \in Seq(S) /\ x \in S
  OBVIOUS
<1>4. Values(f, Append(w, x)) = Append(q, f[x])
  <2> HIDE DEF S, f
  <2>1. Append(w, x) \in Seq(S) /\ Len(Append(w, x)) = Len(w) + 1
        /\ Append(w, x)[Len(w) + 1] = x /\ \A j \in 1..Len(w) : Append(w, x)[j] = w[j]
    BY <1>3, AppendProperties
  <2> QED BY <1>3, <2>1 DEF Values
<1> HIDE DEF q, y
<1>5. y \in PamLines /\ y \in SignificantLines
  BY <1>1 DEF y
<1> HIDE DEF f
<1>6. Select(Append(q, y), SignificantLines)
        = IF y \in SignificantLines THEN Append(Select(q, SignificantLines), y)
          ELSE Select(q, SignificantLines)
  BY <1>2, <1>5, SelectAppend
<1>7. Content(s, Append(w, x)) = Select(Append(q, y), SignificantLines)
  BY <1>4 DEF Content, f, y
<1>8. Content(s, w) = Select(q, SignificantLines)
  BY DEF Content, q, f
<1> QED BY <1>5, <1>6, <1>7, <1>8 DEF y, f

(* The content depends on the lines of the part alone.                     *)
LEMMA ContentFrame ==
  ASSUME NEW s, NEW t, NEW w, \A j \in 1..Len(w) : t.line[w[j]] = s.line[w[j]]
  PROVE  Content(t, w) = Content(s, w)
BY DEF Content, Values

(* A part that is led elsewhere at its end.                                *)
LEMMA Redirected ==
  ASSUME NEW S, NEW s, NEW t, NEW v \in Seq(S), NEW x, NEW y, Leads(s, v, x),
         v = <<>> => t.head = y,
         v # <<>> => /\ t.head = s.head
                     /\ t.next[v[Len(v)]] = y
                     /\ \A j \in 1..Len(v) - 1 : t.next[v[j]] = s.next[v[j]]
  PROVE  Leads(t, v, y)
<1>1. CASE v = <<>>
  BY <1>1 DEF Leads
<1>2. CASE v # <<>>
  <2>1. t.head = v[1]
    BY <1>2 DEF Leads
  <2>2. ASSUME NEW j \in 1..Len(v) PROVE t.next[v[j]] = IF j = Len(v) THEN y ELSE v[j + 1]
    <3>1. CASE j = Len(v)
      BY <1>2, <3>1
    <3>2. CASE j # Len(v)
      <4>1. j \in 1..Len(v) - 1
        BY <3>2
      <4> QED BY <1>2, <3>2, <4>1 DEF Leads
    <3> QED BY <3>1, <3>2
  <2> QED BY <1>2, <2>1, <2>2 DEF Leads
<1> QED BY <1>1, <1>2

(* The node j of n lines, if there is one.                                 *)
Onto(j, n) == IF j > n THEN Nil ELSE j

(* A part that leads to the line g leads, with the lines up to i, on to    *)
(* the next.                                                               *)
LEMMA LeadsAlong ==
  ASSUME NEW n \in Nat, NEW s, NEW w \in Seq(Nodes(n)), NEW g \in 1..n + 1,
         Leads(s, w, Onto(g, n)), \A j \in g..n : s.next[j] = Onto(j + 1, n),
         NEW i \in g - 1..n
  PROVE  /\ w \o Between(g, i) \in Seq(Nodes(n))
         /\ Leads(s, w \o Between(g, i), Onto(i + 1, n))
<1>1. CASE i = g - 1
  <2>1. Between(g, i) = <<>>
    BY <1>1 DEF Between
  <2>2. w \o <<>> = w /\ i + 1 = g
    BY <1>1
  <2> QED BY <2>1, <2>2
<1>2. CASE i # g - 1
  <2> DEFINE m == 2*n
  <2>1. m \in Nat /\ g \in 1..m /\ i \in g..m /\ Onto(g, n) = g /\ i \in g..n
    BY <1>2 DEF Onto, Nodes
  <2>2. \A j \in g..i - 1 : s.next[j] = j + 1
    <3>1. \A j \in g..i - 1 : j \in g..n /\ Onto(j + 1, n) = j + 1
      BY DEF Onto
    <3> QED BY <3>1
  <2>3. s.next[i] = Onto(i + 1, n)
    BY <2>1
  <2> HIDE DEF m
  <2>4. w \in Seq(1..m) /\ Leads(s, w, g)
    BY <2>1 DEF m, Nodes
  <2>5. Leads(s, w \o Between(g, i), s.next[i]) /\ w \o Between(g, i) \in Seq(1..m)
    BY <2>1, <2>2, <2>4, LeadsOver
  <2> QED BY <2>3, <2>5 DEF m, Nodes
<1> QED BY <1>1, <1>2

-----------------------------------------------------------------------------
(* The line before which a loop stands that has passed k of the lines e,   *)
(* and the next one of them.                                               *)
At(e, k) == IF k = 0 THEN 0 ELSE e[k]
(* The next of them.                                                       *)
Ahead(e, k, n) == IF k < Len(e) THEN e[k + 1] ELSE n + 1

(* The k-th line that counts is the k-th line or a later one.              *)
LEMMA NodesRise ==
  ASSUME NEW n \in Nat, NEW T, NEW e, Enumerates(e, n, T)
  PROVE  \A k \in Nat : k \in 1..Len(e) => k <= e[k]
<1> DEFINE U == {k \in Nat : k \in 1..Len(e) => k <= e[k]}
<1>1. 0 \in U
  OBVIOUS
<1>2. ASSUME NEW k \in Nat, k \in U PROVE k + 1 \in U
  <2> SUFFICES ASSUME k + 1 \in 1..Len(e) PROVE k + 1 <= e[k + 1]
    OBVIOUS
  <2>1. Len(e) \in Nat /\ \A j \in 1..Len(e) : e[j] \in 1..n
    BY DEF Enumerates
  <2>2. CASE k = 0
    BY <2>1, <2>2
  <2>3. CASE k # 0
    <3>1. k \in 1..Len(e) /\ k < k + 1
      BY <2>1, <2>3
    <3>2. k <= e[k] /\ e[k] < e[k + 1]
      BY <1>2, <3>1 DEF Enumerates
    <3> QED BY <2>1, <3>1, <3>2
  <2> QED BY <2>2, <2>3
<1> HIDE DEF U
<1>3. \A k \in Nat : k \in U
  BY <1>1, <1>2, SetInduction
<1> QED BY <1>3 DEF U

(* Between two lines that count, one after the other, all are skipped.     *)
LEMMA Gaps ==
  ASSUME NEW lines \in Seq(PamLines), NEW n, n = Len(lines),
         NEW e, e = SignificantNodes(lines), NEW k \in 0..Len(e)
  PROVE  /\ n \in Nat /\ e \in Seq(1..n) /\ k \in Nat /\ k <= n
         /\ At(e, k) \in 0..n /\ Ahead(e, k, n) \in At(e, k) + 1..n + 1
         /\ \A j \in At(e, k) + 1..Ahead(e, k, n) - 1 : j \in 1..n /\ Skipped(lines[j])
         /\ k > 0 => At(e, k) \in 1..n /\ ~Skipped(lines[At(e, k)])
         /\ k < Len(e) => /\ Ahead(e, k, n) \in 1..n /\ ~Skipped(lines[Ahead(e, k, n)])
                          /\ At(e, k + 1) = Ahead(e, k, n) /\ k + 1 \in 0..Len(e) /\ k < n
                          /\ e[k + 1] = Ahead(e, k, n)
         /\ k = Len(e) => Ahead(e, k, n) = n + 1
<1> DEFINE T == {i \in 1..n : ~Skipped(lines[i])}
<1>1. n \in Nat
  OBVIOUS
<1>2. Enumerates(e, n, T)
  <2> HIDE DEF T
  <2>1. Enumerates(Select(Upto(n), T), n, T)
    BY <1>1, Enumeration
  <2> QED BY <2>1 DEF SignificantNodes, T
<1>3. /\ e \in Seq(T) /\ Len(e) \in Nat
      /\ \A j \in 1..Len(e) : e[j] \in 1..n /\ ~Skipped(lines[e[j]])
      /\ \A i, j \in 1..Len(e) : i < j => e[i] < e[j]
      /\ \A x \in 1..n : ~Skipped(lines[x]) => \E j \in 1..Len(e) : e[j] = x
  <2>1. (1..n) \cap T = T
    OBVIOUS
  <2>2. \A x \in T : \E j \in 1..Len(e) : e[j] = x
    BY <1>2, <2>1 DEF Enumerates
  <2>3. e \in Seq(T)
    BY <1>2, <2>1 DEF Enumerates
  <2>4. \A j \in 1..Len(e) : e[j] \in T
    BY <2>3
  <2> QED BY <1>2, <2>2, <2>3, <2>4 DEF Enumerates
<1>4. \A j \in 1..Len(e) : j <= e[j]
  BY <1>1, <1>2, NodesRise
<1>5. e \in Seq(1..n) /\ k \in Nat
  BY <1>3
<1>6. At(e, k) \in 0..n /\ (k > 0 => At(e, k) \in 1..n /\ ~Skipped(lines[At(e, k)])) /\ k <= n
  <2>1. CASE k = 0
    BY <1>1, <2>1 DEF At
  <2>2. CASE k # 0
    <3>1. k \in 1..Len(e)
      BY <1>5, <2>2
    <3>2. e[k] \in 1..n /\ ~Skipped(lines[e[k]]) /\ k <= e[k]
      BY <1>3, <1>4, <3>1
    <3> QED BY <1>1, <1>5, <2>2, <3>2 DEF At
  <2> QED BY <2>1, <2>2
<1>7. k < Len(e) => /\ Ahead(e, k, n) \in 1..n /\ ~Skipped(lines[Ahead(e, k, n)])
                    /\ At(e, k + 1) = Ahead(e, k, n) /\ k + 1 \in 0..Len(e) /\ k < n
                    /\ e[k + 1] = Ahead(e, k, n)
  <2> SUFFICES ASSUME k < Len(e)
               PROVE  /\ e[k + 1] \in 1..n /\ ~Skipped(lines[e[k + 1]])
                      /\ k + 1 \in 0..Len(e) /\ k < n /\ k + 1 # 0
    BY DEF At, Ahead
  <2>1. k + 1 \in 1..Len(e)
    BY <1>3
  <2>2. e[k + 1] \in 1..n /\ k + 1 <= e[k + 1] /\ ~Skipped(lines[e[k + 1]])
    BY <2>1, <1>3, <1>4
  <2> QED BY <1>1, <2>1, <2>2
<1>8. k = Len(e) => Ahead(e, k, n) = n + 1
  BY <1>3 DEF Ahead
<1>9. Ahead(e, k, n) \in At(e, k) + 1..n + 1
  <2>1. CASE k = Len(e)
    BY <1>1, <1>6, <1>8, <2>1
  <2>2. CASE k # Len(e)
    <3>1. k < Len(e) /\ k + 1 \in 1..Len(e)
      BY <1>3, <2>2
    <3>2. CASE k = 0
      BY <1>1, <1>7, <3>1, <3>2 DEF At
    <3>3. CASE k # 0
      <4>1. k \in 1..Len(e) /\ k < k + 1
        BY <1>5, <3>3
      <4>2. e[k] < e[k + 1]
        BY <1>3, <3>1, <4>1
      <4> QED BY <1>1, <1>6, <1>7, <3>1, <3>3, <4>2 DEF At
    <3> QED BY <3>2, <3>3
  <2> QED BY <2>1, <2>2
<1>10. ASSUME NEW j \in At(e, k) + 1..Ahead(e, k, n) - 1, ~Skipped(lines[j]) PROVE FALSE
  <2>1. j \in 1..n /\ At(e, k) < j /\ j < Ahead(e, k, n)
    BY <1>1, <1>6, <1>9
  <2>2. PICK i \in 1..Len(e) : e[i] = j
    BY <1>3, <1>10, <2>1
  <2>3. CASE i <= k
    <3>1. k \in 1..Len(e) /\ At(e, k) = e[k]
      BY <1>3, <2>3 DEF At
    <3>2. e[i] <= e[k]
      BY <1>3, <2>3, <3>1
    <3> QED BY <2>1, <2>2, <3>1, <3>2, <1>6, <1>1
  <2>4. CASE ~(i <= k)
    <3>1. k < Len(e) /\ k + 1 \in 1..Len(e) /\ Ahead(e, k, n) = e[k + 1]
      BY <1>3, <2>4 DEF Ahead
    <3>2. i = k + 1 \/ k + 1 < i
      BY <1>3, <2>4
    <3>3. e[k + 1] <= e[i]
      BY <1>3, <3>1, <3>2
    <3> QED BY <2>1, <2>2, <3>1, <3>3, <1>7, <1>1
  <2> QED BY <2>3, <2>4
<1>11. \A j \in At(e, k) + 1..Ahead(e, k, n) - 1 : j \in 1..n
  BY <1>1, <1>6, <1>9
<1> QED BY <1>1, <1>5, <1>6, <1>7, <1>8, <1>9, <1>10, <1>11

(* The same, as one fact.                                                  *)
Gap(lines, e, k) ==
  LET n == Len(lines)
  IN  /\ n \in Nat /\ e \in Seq(1..n) /\ k \in Nat /\ k <= n
      /\ At(e, k) \in 0..n /\ Ahead(e, k, n) \in At(e, k) + 1..n + 1
      /\ \A j \in At(e, k) + 1..Ahead(e, k, n) - 1 : j \in 1..n /\ Skipped(lines[j])
      /\ k > 0 => At(e, k) \in 1..n /\ ~Skipped(lines[At(e, k)])
      /\ k < Len(e) => /\ Ahead(e, k, n) \in 1..n /\ ~Skipped(lines[Ahead(e, k, n)])
                       /\ At(e, k + 1) = Ahead(e, k, n) /\ k + 1 \in 0..Len(e) /\ k < n
                       /\ e[k + 1] = Ahead(e, k, n)
      /\ k = Len(e) => Ahead(e, k, n) = n + 1

(* It holds of every number of lines that are passed.                      *)
LEMMA GapHolds ==
  ASSUME NEW lines \in Seq(PamLines), NEW e, e = SignificantNodes(lines), NEW k \in 0..Len(e)
  PROVE  Gap(lines, e, k)
<1> DEFINE n == Len(lines)
<1> HIDE DEF n
<1>0. n = Len(lines)
  BY DEF n
<1>1. /\ n \in Nat /\ e \in Seq(1..n) /\ k \in Nat /\ k <= n
      /\ At(e, k) \in 0..n /\ Ahead(e, k, n) \in At(e, k) + 1..n + 1
  BY <1>0, Gaps
<1>2. \A j \in At(e, k) + 1..Ahead(e, k, n) - 1 : j \in 1..n /\ Skipped(lines[j])
  BY <1>0, Gaps
<1>3. k > 0 => At(e, k) \in 1..n /\ ~Skipped(lines[At(e, k)])
  BY <1>0, Gaps
<1>4. k < Len(e) => /\ Ahead(e, k, n) \in 1..n /\ ~Skipped(lines[Ahead(e, k, n)])
                    /\ At(e, k + 1) = Ahead(e, k, n) /\ k + 1 \in 0..Len(e) /\ k < n
                    /\ e[k + 1] = Ahead(e, k, n)
  BY <1>0, Gaps
<1>5. k = Len(e) => Ahead(e, k, n) = n + 1
  BY <1>0, Gaps
<1> QED BY <1>1, <1>2, <1>3, <1>4, <1>5 DEF Gap, n

(* The states that a task can ask for.                                     *)
States == {"before", "after", "absent", "args_present", "args_absent", "updated"}

(* The tasks that a file can meet, whether a rule of it matches or not.    *)
Tasks == {op \in [state : States, key : KeptKeys, new : Keys \cup {NoKey}, hasargs : BOOLEAN,
                  args : ArgSets, check : BOOLEAN] :
            op.state \in {"before", "after"} => op.new \in Keys}

(* What the model runs are tasks.                                          *)
LEMMA OpsAreTasks ==
  ASSUME NEW lines \in Seq(PamLines)
  PROVE  Ops(lines) \subseteq Tasks
<1>1. KeysOf(lines) \subseteq KeptKeys /\ Given \subseteq ArgSets
  <2> SUFFICES ASSUME NEW l \in ToSet(lines), l.key # NoKey PROVE l.key \in KeptKeys
    BY PamdAssumption DEF KeysOf
  <2>1. l \in PamLines
    BY DEF ToSet
  <2> QED BY <2>1 DEF PamLines, Other
<1>2. {} \in ArgSets
  BY DEF ArgSets
<1> SUFFICES ASSUME NEW op \in AnyOps(lines) PROVE op \in Tasks
  BY DEF Ops
<1>3. CASE \E st \in {"before", "after"} : op \in Op(lines, st, Keys, {TRUE}, Given)
  BY <1>1, <1>3 DEF Op, Tasks, States
<1>4. CASE op \in Op(lines, "updated", Keys \cup {NoKey}, {TRUE}, Given)
  BY <1>1, <1>4 DEF Op, Tasks, States
<1>5. CASE op \in Op(lines, "updated", Keys \cup {NoKey}, {FALSE}, {{}})
  BY <1>1, <1>2, <1>5 DEF Op, Tasks, States
<1>6. CASE \E st \in {"args_present", "args_absent"} : op \in Op(lines, st, {NoKey}, {TRUE}, Given)
  BY <1>1, <1>6 DEF Op, Tasks, States
<1>7. CASE op \in Op(lines, "absent", {NoKey}, {FALSE}, {{}})
  BY <1>1, <1>2, <1>7 DEF Op, Tasks, States
<1>8. \/ \E st \in {"before", "after"} : op \in Op(lines, st, Keys, {TRUE}, Given)
      \/ op \in Op(lines, "updated", Keys \cup {NoKey}, {TRUE}, Given)
      \/ op \in Op(lines, "updated", Keys \cup {NoKey}, {FALSE}, {{}})
      \/ \E st \in {"args_present", "args_absent"} : op \in Op(lines, st, {NoKey}, {TRUE}, Given)
      \/ op \in Op(lines, "absent", {NoKey}, {FALSE}, {{}})
  <2> DEFINE ins(st) == Op(lines, st, Keys, {TRUE}, Given)
             arg(st) == Op(lines, st, {NoKey}, {TRUE}, Given)
             a == UNION {ins(st) : st \in {"before", "after"}}
             b == UNION {arg(st) : st \in {"args_present", "args_absent"}}
             c == Op(lines, "updated", Keys \cup {NoKey}, {TRUE}, Given)
             d == Op(lines, "updated", Keys \cup {NoKey}, {FALSE}, {{}})
             f == Op(lines, "absent", {NoKey}, {FALSE}, {{}})
  <2>1. op \in a \/ op \in b \/ op \in c \/ op \in d \/ op \in f
    <3> HIDE DEF ins, arg, c, d, f
    <3> QED BY DEF AnyOps, ins, arg, c, d, f
  <2>2. op \in a => \E st \in {"before", "after"} : op \in ins(st)
    <3> HIDE DEF ins
    <3> QED OBVIOUS
  <2>3. op \in b => \E st \in {"args_present", "args_absent"} : op \in arg(st)
    <3> HIDE DEF arg
    <3> QED OBVIOUS
  <2> HIDE DEF a, b
  <2> QED BY <2>1, <2>2, <2>3
<1> QED BY <1>3, <1>4, <1>5, <1>6, <1>7, <1>8

(* The rule that a task inserts.                                           *)
LEMMA InsertedRule ==
  ASSUME NEW op \in Tasks, op.state \in {"before", "after"}
  PROVE  /\ NewRule(op) \in SignificantLines /\ NewRule(op) \in PamLines
         /\ Plain(op) => NewRule(op) = Rule(op.new, op.args)
<1>1. op.new \in Keys /\ op.args \in ArgSets
  BY DEF Tasks
<1>2. Plain(op) => Kept[op.new] = op.new
  BY <1>1, KeptSpelling DEF Plain
<1> QED BY <1>1, <1>2, KeptRule DEF NewRule

(* What becomes of one line of a list without comments.                    *)
Piece(op, old, i) ==
  IF ~Matches(old[i], op.key) THEN <<old[i]>>
  ELSE IF op.state = "absent" THEN <<>>
  ELSE IF op.state = "before"
  THEN IF i - 1 \in DOMAIN old /\ Matches(old[i - 1], op.new) THEN <<old[i]>>
       ELSE <<NewRule(op), old[i]>>
  ELSE IF i + 1 \in DOMAIN old /\ Matches(old[i + 1], op.new) THEN <<old[i]>>
       ELSE <<old[i], NewRule(op)>>

(* The pieces of the first k lines, one after the other.                   *)
Made(op, old, k) == FlattenSeq([i \in 1..k |-> Piece(op, old, i)])

(* The states whose loops change the links.                                *)
Moving == {"before", "after", "absent"}

(* A piece is made of lines that count.                                    *)
LEMMA PieceType ==
  ASSUME NEW op \in Tasks, op.state \in Moving, NEW old \in Seq(SignificantLines),
         NEW i \in 1..Len(old)
  PROVE  Piece(op, old, i) \in Seq(SignificantLines)
<1>1. old[i] \in SignificantLines
  OBVIOUS
<1>2. op.state # "absent" => NewRule(op) \in SignificantLines
  BY InsertedRule DEF Moving
<1> DEFINE x == old[i]
           r == NewRule(op)
           L == SignificantLines
<1>3. x \in L /\ (op.state # "absent" => r \in L)
  BY <1>1, <1>2
<1>4. Piece(op, old, i) \in {<<x>>, <<>>} \/ (op.state # "absent" /\ Piece(op, old, i) \in {<<r, x>>, <<x, r>>})
  BY DEF Piece
<1> HIDE DEF x, r, L
<1>5. <<x>> \in Seq(L) /\ <<>> \in Seq(L)
  BY <1>3
<1>6. op.state # "absent" => <<r, x>> \in Seq(L) /\ <<x, r>> \in Seq(L)
  BY <1>3
<1>7. Piece(op, old, i) \in Seq(L)
  BY <1>4, <1>5, <1>6
<1> QED BY <1>7 DEF L

(* One more line is one more piece.                                        *)
LEMMA MadeStep ==
  ASSUME NEW op \in Tasks, op.state \in Moving, NEW old \in Seq(SignificantLines)
  PROVE  /\ Made(op, old, 0) = <<>>
         /\ \A k \in 0..Len(old) : Made(op, old, k) \in Seq(SignificantLines)
         /\ \A k \in 0..Len(old) - 1 : Made(op, old, k + 1) = Made(op, old, k) \o Piece(op, old, k + 1)
<1> DEFINE L == SignificantLines
           P(k) == [i \in 1..k |-> Piece(op, old, i)]
<1>0. Len(old) \in Nat
  OBVIOUS
<1>1. \A i \in 1..Len(old) : Piece(op, old, i) \in Seq(L)
  BY PieceType
<1> HIDE DEF L
<1>2. \A k \in 0..Len(old) : P(k) \in Seq(Seq(L)) /\ Len(P(k)) = k
  BY <1>0, <1>1
<1>3. \A k \in 0..Len(old) : Made(op, old, k) \in Seq(L)
  <2> SUFFICES ASSUME NEW k \in 0..Len(old) PROVE FlattenSeq(P(k)) \in Seq(L)
    BY DEF Made
  <2> DEFINE q == P(k)
  <2>1. q \in Seq(Seq(L))
    BY <1>2
  <2> HIDE DEF q
  <2>2. FlattenSeq(q) \in Seq(L)
    BY <2>1, FlattenType
  <2> QED BY <2>2 DEF q
<1>4. Made(op, old, 0) = <<>>
  <2>1. P(0) = <<>>
    OBVIOUS
  <2> QED BY <2>1, FlattenEmpty DEF Made
<1>5. ASSUME NEW k \in 0..Len(old) - 1
      PROVE  Made(op, old, k + 1) = Made(op, old, k) \o Piece(op, old, k + 1)
  <2> DEFINE q == P(k)
             r == P(k + 1)
             x == Piece(op, old, k + 1)
  <2>1. q \in Seq(Seq(L)) /\ Len(q) = k /\ x \in Seq(L) /\ r \in Seq(Seq(L)) /\ Len(r) = k + 1 /\ k \in Nat
    <3>1. k \in 0..Len(old) /\ k + 1 \in 0..Len(old) /\ k + 1 \in 1..Len(old)
      BY <1>0
    <3> QED BY <1>1, <1>2, <3>1
  <2>2. \A i \in 1..k + 1 : r[i] = IF i = k + 1 THEN x ELSE q[i]
    OBVIOUS
  <2> HIDE DEF q, r, x
  <2>3. r = Append(q, x)
    <3>1. Append(q, x) \in Seq(Seq(L)) /\ Len(Append(q, x)) = k + 1
          /\ \A i \in 1..k + 1 : Append(q, x)[i] = IF i = k + 1 THEN x ELSE q[i]
      BY <2>1
    <3> QED BY <2>1, <2>2, <3>1, SeqEqual
  <2>4. FlattenSeq(Append(q, x)) = FlattenSeq(q) \o x
    BY <2>1, FlattenAppend
  <2> QED BY <2>3, <2>4 DEF Made, q, r, x
<1> QED BY <1>3, <1>4, <1>5 DEF L

(* The reference for inserting is made of these pieces.                    *)
LEMMA InsertedIsMade ==
  ASSUME NEW op \in Tasks, op.state \in {"before", "after"}, Plain(op),
         NEW old \in Seq(SignificantLines)
  PROVE  Inserted(op, old) = Made(op, old, Len(old))
<1> DEFINE rule == Rule(op.new, op.args)
           neighbour(i) == IF op.state = "before" THEN i - 1 ELSE i + 1
           one(i) == IF \/ ~Matches(old[i], op.key)
                        \/ neighbour(i) \in DOMAIN old /\ Matches(old[neighbour(i)], op.new)
                     THEN <<old[i]>>
                     ELSE IF op.state = "before" THEN <<rule, old[i]>> ELSE <<old[i], rule>>
<1>0. NewRule(op) = rule
  BY InsertedRule
<1>1. \A i \in 1..Len(old) : one(i) = Piece(op, old, i)
  <2> SUFFICES ASSUME NEW i \in 1..Len(old) PROVE one(i) = Piece(op, old, i)
    OBVIOUS
  <2>1. CASE op.state = "before"
    BY <1>0, <2>1 DEF Piece
  <2>2. CASE op.state = "after"
    BY <1>0, <2>2 DEF Piece
  <2> QED BY <2>1, <2>2
<1>2. [i \in 1..Len(old) |-> one(i)] = [i \in 1..Len(old) |-> Piece(op, old, i)]
  <2> HIDE DEF one
  <2> QED BY <1>1
<1>3. Inserted(op, old) = FlattenSeq([i \in 1..Len(old) |-> one(i)])
  BY DEF Inserted
<1> QED BY <1>2, <1>3 DEF Made

(* And so is the reference for removing.                                   *)
LEMMA RemovedIsMade ==
  ASSUME NEW op \in Tasks, op.state = "absent", NEW old \in Seq(SignificantLines)
  PROVE  Select(old, {l \in ToSet(old) : ~Matches(l, op.key)}) = Made(op, old, Len(old))
<1> DEFINE T == {l \in ToSet(old) : ~Matches(l, op.key)}
           S == SignificantLines
           U == {k \in Nat : k <= Len(old) => Select(SubSeq(old, 1, k), T) = Made(op, old, k)}
<1>0. op.state \in Moving /\ Len(old) \in Nat
  BY DEF Moving
<1>1. 0 \in U
  <2>1. SubSeq(old, 1, 0) = <<>>
    BY SubSeqEmpty
  <2> QED BY <2>1, <1>0, SelectEmpty, MadeStep
<1>2. ASSUME NEW k \in Nat, k \in U PROVE k + 1 \in U
  <2> SUFFICES ASSUME k + 1 <= Len(old)
               PROVE  Select(SubSeq(old, 1, k + 1), T) = Made(op, old, k + 1)
    OBVIOUS
  <2> DEFINE a == SubSeq(old, 1, k)
             x == old[k + 1]
             b == Made(op, old, k)
  <2>1. a \in Seq(S) /\ x \in S /\ k + 1 \in 1..Len(old) /\ k \in 0..Len(old) - 1 /\ k \in 0..Len(old)
    BY <1>0
  <2>2. SubSeq(old, 1, k + 1) = Append(a, x)
    <3>1. 1 \in 1..Len(old) /\ (k + 1) - 1 = k
      BY <1>0, <2>1
    <3>2. SubSeq(old, 1, k + 1) = SubSeq(old, 1, k) \o <<old[k + 1]>>
      BY <2>1, <3>1, SubSeqRecursiveSecond
    <3> QED BY <2>1, <3>2
  <2>3. x \in ToSet(old)
    BY <2>1 DEF ToSet
  <2>4. Made(op, old, k + 1) = b \o Piece(op, old, k + 1) /\ b \in Seq(S)
    BY <2>1, <1>0, MadeStep
  <2>5. Piece(op, old, k + 1) = IF Matches(x, op.key) THEN <<>> ELSE <<x>>
    BY DEF Piece
  <2>6. Select(a, T) = b
    BY <1>2, <1>0
  <2>7. x \in T <=> ~Matches(x, op.key)
    BY <2>3
  <2> HIDE DEF a, x, b, T, S
  <2>8. Select(Append(a, x), T) = IF x \in T THEN Append(Select(a, T), x) ELSE Select(a, T)
    BY <2>1, SelectAppend
  <2>9. b \o <<x>> = Append(b, x) /\ b \o <<>> = b
    BY <2>1, <2>4
  <2> QED BY <2>2, <2>4, <2>5, <2>6, <2>7, <2>8, <2>9
<1>3. Len(old) \in U
  <2> HIDE DEF U
  <2> QED BY <1>0, <1>1, <1>2, SetInduction
<1>4. SubSeq(old, 1, Len(old)) = old
  BY SubSeqFull
<1>5. Select(SubSeq(old, 1, Len(old)), T) = Made(op, old, Len(old))
  <2> HIDE DEF T
  <2> QED BY <1>0, <1>3
<1> QED BY <1>4, <1>5

(* A turn, by the state that is asked for.                                 *)
LEMMA TurnOf ==
  ASSUME NEW op, NEW s, NEW i
  PROVE  /\ op.state = "before" => Turn(op, s, i) = InsertOneBefore(s, i, NewRule(op), op.new)
         /\ op.state = "after" => Turn(op, s, i) = InsertOneAfter(s, i, NewRule(op), op.new)
         /\ op.state = "absent" => Turn(op, s, i) = RemoveOne(s, i)
         /\ op.state = "args_present" =>
              Turn(op, s, i) = ChangeLine(s, i, [s.line[i] EXCEPT !.args = WithArgs(@, op.args)])
         /\ op.state = "args_absent" =>
              Turn(op, s, i) = ChangeLine(s, i, [s.line[i] EXCEPT !.args = @ \ op.args])
         /\ op.state = "updated" =>
              Turn(op, s, i) = ChangeLine(s, i, Rule(IF op.new = NoKey THEN op.key ELSE op.new,
                                                     IF op.hasargs THEN op.args ELSE s.line[i].args))
BY DEF Turn

(* The list while an insertion or a removal passes the lines that are not  *)
(* skipped: the part w of it is done and leads to the line g.              *)
Pos(n, pos) == \A j \in 1..n : pos[j] = 2 * j

(* The list s while a loop walks over it: k of the lines e are passed, the *)
(* part w is done and leads to the line g, from where on nothing is        *)
(* touched.                                                                *)
Walk(s, lines, e, k, w, g, pos) ==
  LET n == Len(lines)
  IN  /\ s \in Lists(n) /\ ~s.crashed
      /\ w \in Seq(Nodes(n))
      /\ g \in At(e, k) + 1..Ahead(e, k, n)
      /\ Leads(s, w, Onto(g, n))
      /\ \A j \in g..n : s.next[j] = Onto(j + 1, n)
      /\ \A j \in 1..n : s.line[j] = lines[j]
      /\ Forward(s, 2*n, pos) /\ Pos(n, pos)

(* No more lines are new than were passed, the new ones are all rules, and *)
(* nothing leads to a node that is not used yet.                           *)
Grown(s, n, k) ==
  /\ s.fresh = n + 1 + s.changes /\ s.changes <= k
  /\ \A j \in n + 1..s.fresh - 1 : j \in Nodes(n) => ~Skipped(s.line[j])
  /\ \A j \in Nodes(n) : s.next[j] < s.fresh
  /\ \A j \in Nodes(n) : j >= s.fresh => s.next[j] = Nil /\ s.prev[j] = Nil

(* The lines from g up to i are behind the part w.                         *)
Passed(s, n, w, g, i, v) ==
  /\ v \in Seq(Nodes(n)) /\ Leads(s, v, i)
  /\ Content(s, v) = Content(s, w) /\ Content(s, v) \in Seq(SignificantLines)
  /\ \A j \in 1..Len(v) : (j <= Len(w) /\ v[j] = w[j])
                         \/ (j > Len(w) /\ v[j] = g + (j - Len(w)) - 1 /\ v[j] \in g..i - 1)
  /\ Len(v) = Len(w) + (i - g)

(* The line i comes behind them.                                           *)
Taken(s, lines, w, i, v) == Content(s, Append(v, i)) = Append(Content(s, w), lines[i])

(* Where the walk goes on when nothing is changed.                         *)
LEMMA WalkOn ==
  ASSUME NEW lines \in Seq(PamLines), NEW n, n = Len(lines),
         NEW e, e = SignificantNodes(lines), NEW k \in 0..Len(e) - 1,
         NEW s, NEW w, NEW g, NEW pos, Walk(s, lines, e, k, w, g, pos),
         NEW i, i = e[k + 1], NEW v, v = w \o Between(g, i - 1)
  PROVE  /\ Passed(s, n, w, g, i, v)
         /\ Walk(s, lines, e, k + 1, Append(v, i), i + 1, pos)
         /\ Taken(s, lines, w, i, v)
<1>1. k \in 0..Len(e) /\ k < Len(e) /\ Len(e) \in Nat
  BY Gaps
<1>2. /\ n \in Nat /\ At(e, k) \in 0..n /\ Ahead(e, k, n) \in 1..n /\ At(e, k + 1) = i
      /\ Ahead(e, k, n) = i /\ k + 1 \in 0..Len(e) /\ ~Skipped(lines[i])
      /\ \A j \in At(e, k) + 1..i - 1 : j \in 1..n /\ Skipped(lines[j])
  <2> HIDE DEF At, Ahead
  <2>1. /\ n \in Nat /\ At(e, k) \in 0..n
        /\ \A j \in At(e, k) + 1..Ahead(e, k, n) - 1 : j \in 1..n /\ Skipped(lines[j])
        /\ Ahead(e, k, n) \in 1..n /\ ~Skipped(lines[Ahead(e, k, n)])
        /\ At(e, k + 1) = Ahead(e, k, n) /\ k + 1 \in 0..Len(e)
        /\ e[k + 1] = Ahead(e, k, n)
    <3>1. k \in 0..Len(e) /\ n = Len(lines) /\ e = SignificantNodes(lines)
      BY <1>1
    <3>2. n \in Nat /\ At(e, k) \in 0..n
      BY <3>1, Gaps
    <3>3. \A j \in At(e, k) + 1..Ahead(e, k, n) - 1 : j \in 1..n /\ Skipped(lines[j])
      BY <3>1, Gaps
    <3>4. k < Len(e) => /\ Ahead(e, k, n) \in 1..n /\ ~Skipped(lines[Ahead(e, k, n)])
                        /\ At(e, k + 1) = Ahead(e, k, n) /\ k + 1 \in 0..Len(e)
                        /\ e[k + 1] = Ahead(e, k, n)
      BY <3>1, Gaps
    <3> QED BY <1>1, <3>2, <3>3, <3>4
  <2> QED BY <2>1
<1>3. /\ Ahead(e, k + 1, n) \in i + 1..n + 1
  <2> DEFINE kk == k + 1
  <2>1. kk \in 0..Len(e) /\ At(e, kk) = i
    BY <1>2
  <2> HIDE DEF kk
  <2>2. Ahead(e, kk, n) \in At(e, kk) + 1..n + 1
    BY <2>1, Gaps
  <2> QED BY <2>1, <2>2 DEF kk
<1>4. /\ s \in Lists(n) /\ w \in Seq(Nodes(n)) /\ g \in At(e, k) + 1..i /\ Leads(s, w, Onto(g, n))
      /\ \A j \in g..n : s.next[j] = Onto(j + 1, n)
      /\ \A j \in 1..n : s.line[j] = lines[j]
  BY <1>2 DEF Walk
<1>5. g \in 1..n + 1 /\ i \in 1..n /\ i \in g..n /\ i - 1 \in g - 1..n /\ i \in g - 1..n /\ Onto(i, n) = i
      /\ (i - 1) + 1 = i /\ i \in Nodes(n) /\ g \in Nat /\ i - 1 \in Nat /\ g <= (i - 1) + 1
  <2> DEFINE a == At(e, k)
  <2>1. n \in Nat /\ a \in Nat /\ i \in 1..n /\ g \in a + 1..i
    BY <1>2, <1>4
  <2> HIDE DEF a
  <2>2. Onto(i, n) = i
    BY ONLY <2>1 DEF Onto
  <2>3. /\ g \in 1..n + 1 /\ i \in 1..n /\ i \in g..n /\ i - 1 \in g - 1..n /\ i \in g - 1..n
        /\ (i - 1) + 1 = i /\ g \in Nat /\ i - 1 \in Nat /\ g <= (i - 1) + 1
    BY ONLY <2>1
  <2>4. i \in Nodes(n)
    BY ONLY <2>1 DEF Nodes
  <2> QED BY ONLY <2>2, <2>3, <2>4
<1>6. v \in Seq(Nodes(n)) /\ Leads(s, v, i)
  <2> DEFINE h == i - 1
  <2>1. v = w \o Between(g, h) /\ h \in g - 1..n
    BY <1>5
  <2> HIDE DEF h
  <2>3. /\ n \in Nat /\ w \in Seq(Nodes(n)) /\ g \in 1..n + 1 /\ Leads(s, w, Onto(g, n))
        /\ \A j \in g..n : s.next[j] = Onto(j + 1, n)
    BY <1>2, <1>4, <1>5
  <2>4. /\ w \o Between(g, h) \in Seq(Nodes(n))
        /\ Leads(s, w \o Between(g, h), Onto(h + 1, n))
    BY <2>1, <2>3, LeadsAlong
  <2>2. v \in Seq(Nodes(n)) /\ Leads(s, v, Onto(h + 1, n))
    BY <2>1, <2>4
  <2> QED BY <2>2, <1>5 DEF h
<1> DEFINE b == Between(g, i - 1)
<1>7. b \in Seq(g..i - 1) /\ Len(b) = i - g
  <2>1. (i - 1) - g + 1 = i - g
    BY <1>5
  <2> HIDE DEF b
  <2> QED BY <1>5, <2>1, BetweenType DEF b
<1>8. \A j \in 1..i - g : b[j] = g + j - 1
  <2>1. (i - 1) - g + 1 = i - g
    BY ONLY <1>5
  <2>2. b = [j \in 1..i - g |-> g + j - 1]
    BY ONLY <2>1 DEF Between
  <2> QED BY ONLY <2>2
<1>9. b \in Seq(Nodes(n))
  <2>1. \A j \in g..i - 1 : j \in Nodes(n)
    BY ONLY <1>2, <1>4, <1>5, SMTT(30) DEF Nodes
  <2> DEFINE S == g..i - 1
  <2> HIDE DEF b, S
  <2> QED BY <1>7, <2>1, SeqWiden DEF S
<1>10. v = w \o b
  OBVIOUS
<1> HIDE DEF b
<1>11. Len(v) = Len(w) + (i - g)
  <2> DEFINE S == Nodes(n)
  <2>1. w \in Seq(S) /\ b \in Seq(S)
    BY <1>4, <1>9
  <2> HIDE DEF S
  <2>2. Len(w \o b) = Len(w) + Len(b)
    BY <2>1, ConcatProperties
  <2> QED BY <2>2, <1>7, <1>10
<1>12. \A j \in 1..Len(v) : (j <= Len(w) /\ v[j] = w[j])
                           \/ (j > Len(w) /\ v[j] = g + (j - Len(w)) - 1 /\ v[j] \in g..i - 1)
  <2> SUFFICES ASSUME NEW j \in 1..Len(v)
               PROVE  (j <= Len(w) /\ v[j] = w[j])
                      \/ (j > Len(w) /\ v[j] = g + (j - Len(w)) - 1 /\ v[j] \in g..i - 1)
    OBVIOUS
  <2>1. Len(w) \in Nat /\ v[j] = IF j <= Len(w) THEN w[j] ELSE b[j - Len(w)]
    <3> DEFINE S == Nodes(n)
    <3>1. w \in Seq(S) /\ b \in Seq(S) /\ j \in 1..Len(w) + Len(b)
      BY <1>4, <1>7, <1>9, <1>11
    <3> HIDE DEF S
    <3>2. Len(w) \in Nat /\ (w \o b)[j] = IF j <= Len(w) THEN w[j] ELSE b[j - Len(w)]
      BY <3>1, ConcatProperties
    <3> QED BY <3>2, <1>10
  <2>2. CASE j <= Len(w)
    BY <2>1, <2>2
  <2>3. CASE ~(j <= Len(w))
    <3>1. j - Len(w) \in 1..i - g
      <4>1. j \in 1..Len(w) + (i - g)
        BY <1>11
      <4> DEFINE l == Len(w)
      <4>2. l \in Nat /\ j \in 1..l + (i - g) /\ ~(j <= l) /\ i \in 1..n /\ g \in Nat /\ n \in Nat
        BY <1>2, <1>5, <4>1, <2>1, <2>3
      <4> HIDE DEF l
      <4>3. j - l \in 1..i - g
        BY ONLY <4>2
      <4> QED BY <4>3 DEF l
    <3>2. b[j - Len(w)] = g + (j - Len(w)) - 1
      BY <1>8, <3>1
    <3>3. v[j] = g + (j - Len(w)) - 1 /\ j > Len(w)
      BY <2>1, <2>3, <3>2
    <3>4. g + (j - Len(w)) - 1 \in g..i - 1
      <4> DEFINE d == j - Len(w)
      <4>1. d \in 1..i - g
        BY <3>1
      <4> HIDE DEF d
      <4>2. g + d - 1 \in g..i - 1
        <5>1. g \in Nat /\ i \in Nat
          BY <1>5
        <5> QED BY ONLY <4>1, <5>1
      <4> QED BY <4>2 DEF d
    <3> QED BY <3>3, <3>4
  <2> QED BY <2>2, <2>3
<1>13. Content(s, v) = Content(s, w) /\ Content(s, w) \in Seq(SignificantLines)
  <2> DEFINE S == g..i - 1
  <2>1. S \in SUBSET Nodes(n) /\ \A x \in S : Skipped(s.line[x])
    <3>1. \A x \in S : x \in At(e, k) + 1..i - 1 /\ x \in 1..n
      <4>1. At(e, k) \in Nat /\ g \in At(e, k) + 1..i /\ i \in 1..n
        BY <1>2, <1>4, <1>5
      <4> QED BY <4>1
    <3>2. \A x \in S : Skipped(s.line[x])
      BY <1>2, <1>4, <3>1
    <3>3. \A x \in S : x \in Nodes(n)
      BY <1>2, <3>1 DEF Nodes
    <3> HIDE DEF S
    <3> QED BY <3>2, <3>3
  <2>2. b \in Seq(S)
    BY <1>7
  <2> HIDE DEF S
  <2>3. Content(s, b) = <<>>
    <3>1. n \in Nat /\ s \in Lists(n) /\ S \in SUBSET Nodes(n) /\ b \in Seq(S) /\ \A x \in S : Skipped(s.line[x])
      BY <1>2, <1>4, <2>1, <2>2
    <3> QED BY ONLY <3>1, ContentSkipped
  <2>4. Content(s, v) = Content(s, w) \o Content(s, b)
    <3>1. n \in Nat /\ s \in Lists(n) /\ w \in Seq(Nodes(n)) /\ b \in Seq(Nodes(n))
      BY <1>2, <1>4, <1>9
    <3> HIDE DEF b
    <3>2. Content(s, w \o b) = Content(s, w) \o Content(s, b)
      BY <3>1, ContentConcat
    <3> QED BY <3>2, <1>10
  <2>5. Content(s, w) \in Seq(SignificantLines)
    BY <1>2, <1>4, ContentType
  <2> QED BY <2>3, <2>4, <2>5
<1>14. lines[i] \in PamLines /\ lines[i] \in SignificantLines /\ s.line[i] = lines[i]
  <2>1. lines[i] \in PamLines
    BY <1>5
  <2> QED BY <1>2, <1>4, <1>5, <2>1, LineKinds
<1>15. Append(v, i) \in Seq(Nodes(n))
  BY <1>5, <1>6
<1>16. Leads(s, Append(v, i), Onto(i + 1, n))
  <2> DEFINE S == Nodes(n)
  <2>1. v \in Seq(S) /\ i \in S /\ s.next[i] = Onto(i + 1, n)
    BY <1>4, <1>5, <1>6
  <2> HIDE DEF S
  <2>2. Leads(s, Append(v, i), s.next[i])
    BY <1>6, <2>1, LeadsOn
  <2> QED BY <2>1, <2>2
<1>17. Content(s, Append(v, i)) = Append(Content(s, w), lines[i])
  <2>1. Content(s, Append(v, i)) = Append(Content(s, v), s.line[i])
    <3>1. /\ n \in Nat /\ s \in Lists(n) /\ v \in Seq(Nodes(n)) /\ i \in Nodes(n)
          /\ ~Skipped(s.line[i])
      BY <1>2, <1>4, <1>5, <1>6, <1>14
    <3> QED BY <3>1, ContentAppend
  <2> QED BY <2>1, <1>13, <1>14
<1>18. Walk(s, lines, e, k + 1, Append(v, i), i + 1, pos)
  <2>1. i + 1 \in At(e, k + 1) + 1..Ahead(e, k + 1, n)
    BY <1>2, <1>3
  <2>2. \A j \in i + 1..n : s.next[j] = Onto(j + 1, n)
    <3>1. \A j \in i + 1..n : j \in g..n
      <4>1. g \in Nat /\ i \in g..n
        BY <1>5
      <4> QED BY ONLY <4>1
    <3> QED BY <3>1, <1>4
  <2> QED BY <1>2, <1>4, <1>15, <1>16, <2>1, <2>2 DEF Walk
<1>19. Passed(s, n, w, g, i, v)
  BY <1>6, <1>11, <1>12, <1>13 DEF Passed
<1> QED BY <1>17, <1>18, <1>19 DEF Taken

(* When all lines are passed, what the list reaches has the content of the *)
(* part that is done.                                                      *)
LEMMA WalkEnd ==
  ASSUME NEW lines \in Seq(PamLines), NEW n, n = Len(lines),
         NEW e, e = SignificantNodes(lines), NEW k, k = Len(e),
         NEW s, NEW w, NEW g, NEW pos, Walk(s, lines, e, k, w, g, pos)
  PROVE  \E q \in Seq(Nodes(n)) : Reached(s) = q /\ Content(s, q) = Content(s, w)
<1> DEFINE b == Between(g, n)
           q == w \o b
<1>1. k \in 0..Len(e) /\ e \in Seq(1..n) /\ n \in Nat
  <2>1. Len(e) \in Nat
    <3>1. Upto(n) \in Seq(1..n)
      BY DEF Upto
    <3>2. e \in Seq(1..n)
      <4> DEFINE S == 1..n
      <4> HIDE DEF S
      <4> QED BY <3>1, SelectSeqType DEF SignificantNodes, S
    <3> QED BY <3>2
  <2>2. k \in 0..Len(e)
    BY <2>1
  <2> QED BY <2>2, Gaps
<1>2. /\ At(e, k) \in 0..n /\ Ahead(e, k, n) = n + 1
      /\ \A j \in At(e, k) + 1..Ahead(e, k, n) - 1 : j \in 1..n /\ Skipped(lines[j])
  BY <1>1, Gaps
<1>3. /\ s \in Lists(n) /\ w \in Seq(Nodes(n)) /\ g \in At(e, k) + 1..n + 1 /\ Leads(s, w, Onto(g, n))
      /\ \A j \in g..n : s.next[j] = Onto(j + 1, n)
      /\ \A j \in 1..n : s.line[j] = lines[j]
      /\ Forward(s, 2*n, pos)
  BY <1>2 DEF Walk
<1>4. g \in 1..n + 1 /\ n \in g - 1..n /\ g \in Nat /\ g <= n + 1
  BY <1>1, <1>2, <1>3
<1>5. q \in Seq(Nodes(n)) /\ Leads(s, q, Onto(n + 1, n))
  BY <1>1, <1>3, <1>4, LeadsAlong
<1>6. Onto(n + 1, n) = Nil
  BY <1>1 DEF Onto
<1>7. Linked(s, q)
  <2> HIDE DEF q
  <2> QED BY <1>5, <1>6, LeadsToEnd
<1>8. Reached(s) = q
  <2> DEFINE m == 2*n
  <2>1. m \in Nat /\ Len(s.line) = m /\ s.next \in [1..m -> 0..m] /\ Forward(s, m, pos) /\ q \in Seq(1..m)
    BY <1>1, <1>3, <1>5, LinesLength DEF Lists, Nodes
  <2> HIDE DEF m, q
  <2> QED BY <2>1, <1>7, ReachedIsLinked
<1>9. b \in Seq(g..n)
  BY <1>1, <1>4, BetweenType
<1>10. Content(s, q) = Content(s, w)
  <2> DEFINE S == g..n
  <2>1. S \in SUBSET Nodes(n) /\ \A x \in S : Skipped(s.line[x])
    <3>1. \A x \in S : x \in At(e, k) + 1..Ahead(e, k, n) - 1 /\ x \in 1..n /\ x \in Nodes(n)
      <4>1. At(e, k) \in Nat /\ g \in At(e, k) + 1..n + 1 /\ n \in Nat
        BY <1>1, <1>2, <1>3
      <4> QED BY <4>1, <1>2 DEF Nodes
    <3>2. \A x \in S : Skipped(s.line[x])
      BY <1>2, <1>3, <3>1
    <3> HIDE DEF S
    <3> QED BY <3>1, <3>2
  <2>2. b \in Seq(S)
    BY <1>9
  <2> HIDE DEF S, b
  <2>3. Content(s, b) = <<>>
    BY <1>1, <1>3, <2>1, <2>2, ContentSkipped
  <2>4. b \in Seq(Nodes(n))
    BY <2>1, <2>2, SeqWiden
  <2>5. Content(s, w \o b) = Content(s, w) \o Content(s, b)
    <3>1. n \in Nat /\ s \in Lists(n) /\ w \in Seq(Nodes(n)) /\ b \in Seq(Nodes(n))
      BY <1>1, <1>3, <2>4
    <3> QED BY <3>1, ContentConcat
  <2>6. Content(s, w) \in Seq(SignificantLines)
    BY <1>1, <1>3, ContentType
  <2> QED BY <2>3, <2>5, <2>6
<1> QED BY <1>5, <1>8, <1>10

(* The list at first. *)
LEMMA WalkStart ==
  ASSUME NEW lines \in Seq(PamLines), NEW n, n = Len(lines), NEW e, e = SignificantNodes(lines)
  PROVE  /\ \E pos : Walk(Service(lines), lines, e, 0, <<>>, 1, pos)
         /\ Grown(Service(lines), n, 0)
         /\ Content(Service(lines), <<>>) = <<>>
         /\ n \in Nat /\ Len(e) \in Nat
<1> DEFINE s == Service(lines)
           pos == [j \in 1..2*n |-> IF j <= n THEN 2*j ELSE 0]
<1>0. n \in Nat
  OBVIOUS
<1>1. s \in Lists(n)
  <2> HIDE DEF s
  <2> QED BY ServiceIsList DEF s
<1>2. /\ s.head = IF n = 0 THEN Nil ELSE 1
      /\ s.next = [i \in 1..2*n |-> IF i < n THEN i + 1 ELSE Nil]
      /\ s.prev = [i \in 1..2*n |-> IF i \in 2..n THEN i - 1 ELSE Nil]
      /\ s.line = [i \in 1..2*n |-> IF i <= n THEN lines[i] ELSE Comment]
      /\ s.fresh = n + 1 /\ s.changes = 0 /\ ~s.crashed
  BY DEF Service
<1> HIDE DEF s
<1>3. Len(e) \in Nat
  <3>1. Upto(n) \in Seq(1..n)
    BY DEF Upto
  <3>2. e \in Seq(1..n)
    <4> DEFINE S == 1..n
    <4> HIDE DEF S
    <4> QED BY <3>1, SelectSeqType DEF SignificantNodes, S
  <3> QED BY <3>2
<1>4. 1 \in At(e, 0) + 1..Ahead(e, 0, n)
  <2> DEFINE k == 0
  <2>1. k \in 0..Len(e) /\ At(e, k) = 0
    BY <1>3 DEF At
  <2> HIDE DEF k
  <2>2. Ahead(e, k, n) \in At(e, k) + 1..n + 1
    BY <2>1, Gaps
  <2>3. 1 \in At(e, k) + 1..Ahead(e, k, n)
    BY <1>0, <2>1, <2>2
  <2> QED BY <2>3 DEF k
<1>5. Leads(s, <<>>, Onto(1, n))
  BY <1>0, <1>2 DEF Leads, Onto
<1>6. \A j \in 1..n : s.next[j] = Onto(j + 1, n)
  BY <1>0, <1>2 DEF Onto
<1>7. \A j \in 1..n : s.line[j] = lines[j]
  BY <1>0, <1>2
<1>8. Forward(s, 2*n, pos) /\ Pos(n, pos)
  BY <1>0, <1>2 DEF Forward, Pos, Nil
<1>9. Walk(s, lines, e, 0, <<>>, 1, pos)
  <2> HIDE DEF pos
  <2>1. <<>> \in Seq(Nodes(n))
    OBVIOUS
  <2> QED BY <1>1, <1>2, <1>4, <1>5, <1>6, <1>7, <1>8, <2>1 DEF Walk
<1>10. Grown(s, n, 0)
  BY <1>0, <1>2 DEF Grown, Nil, Nodes
<1>11. Content(s, <<>>) = <<>>
  <2>1. Values(s.line, <<>>) = <<>>
    BY DEF Values
  <2> QED BY <2>1, SelectEmpty DEF Content
<1>12. \E p : Walk(s, lines, e, 0, <<>>, 1, p)
  <2> HIDE DEF pos
  <2> QED BY <1>9
<1> QED BY <1>0, <1>3, <1>10, <1>11, <1>12 DEF s

(* A new node with a rule is one more line of the content.                 *)
LEMMA ContentNew ==
  ASSUME NEW n \in Nat, NEW s \in Lists(n), NEW t \in Lists(n), NEW v \in Seq(Nodes(n)),
         NEW new \in Nodes(n), \A j \in 1..Len(v) : v[j] # new,
         NEW rule \in SignificantLines, t.line = [s.line EXCEPT ![new] = rule]
  PROVE  Content(t, Append(v, new)) = Append(Content(s, v), rule)
<1>1. s.line \in [Nodes(n) -> PamLines]
  BY DEF Lists, Nodes
<1>2. rule \in PamLines /\ ~Skipped(rule) /\ t.line[new] = rule
  BY <1>1, LineKinds
<1>3. Content(t, v) = Content(s, v)
  <2>1. \A j \in 1..Len(v) : v[j] \in Nodes(n) /\ v[j] # new
    OBVIOUS
  <2>2. \A j \in 1..Len(v) : t.line[v[j]] = s.line[v[j]]
    BY <2>1, <1>1
  <2> QED BY ONLY <2>2, ContentFrame
<1>4. Content(t, Append(v, new)) = Append(Content(t, v), t.line[new])
  <2>1. n \in Nat /\ t \in Lists(n) /\ v \in Seq(Nodes(n)) /\ new \in Nodes(n) /\ ~Skipped(t.line[new])
    BY <1>2
  <2> QED BY ONLY <2>1, ContentAppend
<1> QED BY <1>2, <1>3, <1>4

(* The lines from g on are as they were.                                   *)
Untouched(s, lines, g, pos) ==
  LET n == Len(lines)
  IN  /\ \A j \in 1..n : s.line[j] = lines[j]
      /\ Forward(s, 2*n, pos) /\ Pos(n, pos)
      /\ \A j \in g..n : s.next[j] = Onto(j + 1, n)

(* A new node comes between the part v and the line g.                     *)
Adds(s, t, n, v, g, new, rule) ==
  /\ ~t.crashed /\ new = s.fresh /\ new \in Nodes(n)
  /\ t.line = [s.line EXCEPT ![new] = rule]
  /\ t.fresh = s.fresh + 1 /\ t.changes = s.changes + 1
  /\ t.next[new] = Onto(g, n)
  /\ \A j \in Nodes(n) \ {new} : t.next[j] = s.next[j] \/ (j \in 1..n /\ j < g /\ t.next[j] = new)
  /\ \A j \in Nodes(n) : j > new => t.prev[j] = s.prev[j]
  /\ \A j \in 1..Len(v) : v[j] # new
  /\ v = <<>> => t.head = new
  /\ v # <<>> => /\ t.head = s.head
                 /\ t.next[v[Len(v)]] = new
                 /\ \A j \in 1..Len(v) - 1 : t.next[v[j]] = s.next[v[j]]

(* A new rule behind the part v keeps the walk going and is counted.       *)
LEMMA Insertion ==
  ASSUME NEW lines \in Seq(PamLines), NEW n, n = Len(lines), NEW e, NEW k \in Nat,
         NEW s \in Lists(n), NEW t \in Lists(n), NEW v \in Seq(Nodes(n)), NEW x, NEW pos, NEW g \in 1..n + 1,
         NEW new, NEW rule \in SignificantLines, NEW i \in Nat,
         Untouched(s, lines, g, pos), Grown(s, n, i), Leads(s, v, x),
         g \in At(e, k) + 1..Ahead(e, k, n), Adds(s, t, n, v, g, new, rule)
  PROVE  /\ Append(v, new) \in Seq(Nodes(n))
         /\ \E p : Walk(t, lines, e, k, Append(v, new), g, p)
         /\ Grown(t, n, i + 1)
         /\ Content(t, Append(v, new)) = Append(Content(s, v), rule)
         /\ Content(s, v) \in Seq(SignificantLines)
<1> USE DEF Untouched, Adds
<1> DEFINE pt == [pos EXCEPT ![new] = 2*g - 1]
           m == 2*n
<1>0. n \in Nat /\ m \in Nat
  OBVIOUS
<1>1. /\ s.fresh = n + 1 + s.changes /\ s.changes <= i /\ s.changes \in Nat
      /\ \A j \in n + 1..s.fresh - 1 : j \in Nodes(n) => ~Skipped(s.line[j])
      /\ \A j \in Nodes(n) : s.next[j] < s.fresh
      /\ \A j \in Nodes(n) : j >= s.fresh => s.next[j] = Nil /\ s.prev[j] = Nil
  BY DEF Grown, Lists
<1>2. new \in n + 1..m /\ new \in Nat
  BY <1>0, <1>1 DEF Nodes
<1>3. \A j \in 1..n : j \in Nodes(n) /\ j # new
  BY <1>0, <1>2 DEF Nodes
<1>4. /\ s.next \in [Nodes(n) -> 0..m] /\ t.next \in [Nodes(n) -> 0..m]
      /\ s.line \in [Nodes(n) -> PamLines]
  BY DEF Lists, Nodes
<1>5. Append(v, new) \in Seq(Nodes(n))
  OBVIOUS
<1>6. Leads(t, Append(v, new), Onto(g, n))
  <2> DEFINE S == Nodes(n)
  <2>1. v \in Seq(S) /\ new \in S
    OBVIOUS
  <2> HIDE DEF S
  <2>2. Leads(t, v, new)
    BY <2>1, Redirected
  <2>3. Leads(t, Append(v, new), t.next[new])
    BY <2>1, <2>2, LeadsOn
  <2> QED BY <2>3
<1>7. \A j \in 1..n : t.line[j] = lines[j]
  BY <1>3, <1>4
<1>8. \A j \in g..n : t.next[j] = Onto(j + 1, n)
  <2> SUFFICES ASSUME NEW j \in g..n PROVE t.next[j] = Onto(j + 1, n)
    OBVIOUS
  <2>1. j \in 1..n /\ ~(j < g)
    BY <1>0
  <2>2. t.next[j] = s.next[j]
    BY <1>3, <2>1
  <2> QED BY <2>2
<1>9. pos \in [1..m -> 0..m + 1] /\ pt \in [1..m -> 0..m + 1] /\ pt[new] = 2*g - 1
      /\ \A j \in 1..m : j # new => pt[j] = pos[j]
  <2>1. pos \in [1..m -> 0..m + 1]
    BY DEF Forward
  <2>2. new \in 1..m /\ 2*g - 1 \in 0..m + 1
    BY <1>0, <1>2
  <2> HIDE DEF m
  <2> QED BY <2>1, <2>2
<1>10. Pos(n, pt)
  <2>1. \A j \in 1..n : pos[j] = 2*j /\ j \in 1..m
    BY <1>0 DEF Pos
  <2> HIDE DEF pt, m
  <2> QED BY <2>1, <1>3, <1>9 DEF Pos
<1>11. Forward(t, m, pt)
  <2> SUFFICES ASSUME NEW j \in 1..m, t.next[j] # Nil PROVE pt[j] < pt[t.next[j]]
    BY <1>9 DEF Forward
  <2>1. j \in Nodes(n)
    BY DEF Nodes
  <2>2. CASE j = new
    <3>1. t.next[j] = g /\ g \in 1..n
      BY <1>0, <2>2 DEF Onto
    <3>2. pt[g] = 2*g
      BY <3>1, <1>10 DEF Pos
    <3>3. 2*g - 1 < 2*g
      BY <3>1
    <3>4. pt[j] = 2*g - 1
      BY <2>2, <1>9
    <3> HIDE DEF pt
    <3> QED BY <3>1, <3>2, <3>3, <3>4
  <2>3. CASE j # new /\ t.next[j] = s.next[j]
    <3> DEFINE l == s.next[j]
    <3>1. l # Nil /\ l \in 1..m /\ l # new
      <4>1. l \in 0..m /\ l < new
        BY <1>1, <1>4, <2>1
      <4> QED BY <1>2, <2>3, <4>1 DEF Nil
    <3>2. pos[j] < pos[l]
      BY <3>1, <2>3 DEF Forward
    <3>3. pt[j] = pos[j] /\ pt[l] = pos[l]
      BY <1>9, <2>3, <3>1
    <3> HIDE DEF pt, l
    <3> QED BY <2>3, <3>2, <3>3 DEF l
  <2>4. CASE j # new /\ t.next[j] # s.next[j]
    <3>1. j \in 1..n /\ j < g /\ t.next[j] = new
      BY <2>1, <2>4
    <3>2. pt[j] = 2*j /\ pt[new] = 2*g - 1
      BY <1>9, <1>10, <3>1 DEF Pos
    <3>3. 2*j < 2*g - 1
      BY <3>1
    <3> HIDE DEF pt
    <3> QED BY <3>1, <3>2, <3>3
  <2> QED BY <2>2, <2>3, <2>4
<1>12. Walk(t, lines, e, k, Append(v, new), g, pt)
  <2> HIDE DEF pt, m
  <2>1. Forward(t, 2*n, pt)
    BY <1>11 DEF m
  <2> QED BY <1>5, <1>6, <1>7, <1>8, <1>10, <2>1 DEF Walk
<1>13. \E p : Walk(t, lines, e, k, Append(v, new), g, p)
  <2> HIDE DEF pt
  <2> QED BY <1>12
<1>14. rule \in PamLines /\ ~Skipped(rule) /\ t.line[new] = rule
  BY <1>4, LineKinds
<1>15. Grown(t, n, i + 1)
  <2>1. t.fresh = n + 1 + t.changes /\ t.changes <= i + 1
    BY <1>0, <1>1
  <2>2. \A j \in n + 1..t.fresh - 1 : j \in Nodes(n) => ~Skipped(t.line[j])
    <3> SUFFICES ASSUME NEW j \in n + 1..t.fresh - 1, j \in Nodes(n) PROVE ~Skipped(t.line[j])
      OBVIOUS
    <3>1. CASE j = new
      BY <3>1, <1>14
    <3>2. CASE j # new
      <4>1. j \in n + 1..s.fresh - 1
        <5>1. j \in n + 1..(s.fresh + 1) - 1 /\ s.fresh \in Nat /\ j # s.fresh
          BY <1>2, <3>2
        <5> QED BY <1>0, <5>1
      <4>2. t.line[j] = s.line[j]
        BY <1>4, <3>2
      <4> QED BY <4>1, <4>2, <1>1
    <3> QED BY <3>1, <3>2
  <2>3. \A j \in Nodes(n) : t.next[j] < t.fresh
    <3> SUFFICES ASSUME NEW j \in Nodes(n) PROVE t.next[j] < t.fresh
      OBVIOUS
    <3>1. CASE j = new
      BY <1>0, <1>2, <3>1 DEF Onto, Nil
    <3>2. CASE j # new
      <4>1. s.next[j] < s.fresh /\ s.next[j] \in 0..m /\ s.fresh \in Nat
        BY <1>1, <1>2, <1>4
      <4> HIDE DEF m
      <4>2. t.next[j] = s.next[j] \/ t.next[j] = s.fresh
        BY <3>2
      <4> QED BY <4>1, <4>2, <1>0
    <3> QED BY <3>1, <3>2
  <2>4. \A j \in Nodes(n) : j >= t.fresh => t.next[j] = Nil /\ t.prev[j] = Nil
    <3> SUFFICES ASSUME NEW j \in Nodes(n), j >= t.fresh PROVE t.next[j] = Nil /\ t.prev[j] = Nil
      OBVIOUS
    <3>1. j > new /\ j >= s.fresh /\ j # new /\ ~(j \in 1..n)
      BY <1>0, <1>2 DEF Nodes
    <3> QED BY <1>1, <3>1
  <2> QED BY <2>1, <2>2, <2>3, <2>4 DEF Grown
<1>16. Content(t, Append(v, new)) = Append(Content(s, v), rule)
  <2>1. /\ n \in Nat /\ s \in Lists(n) /\ t \in Lists(n) /\ v \in Seq(Nodes(n)) /\ new \in Nodes(n)
        /\ \A j \in 1..Len(v) : v[j] # new
        /\ rule \in SignificantLines /\ t.line = [s.line EXCEPT ![new] = rule]
    BY <1>0
  <2> QED BY ONLY <2>1, ContentNew
<1>17. Content(s, v) \in Seq(SignificantLines)
  BY <1>0, ContentType
<1> QED BY <1>5, <1>13, <1>15, <1>16, <1>17

(* The part that is done ends with the line before, and the links back     *)
(* from the lines ahead, and from all comments, are as they were.          *)
BackLinks(s, lines, e, k, w) ==
  LET n == Len(lines)
  IN  /\ IF k = 0 THEN w = <<>>
         ELSE /\ w # <<>> /\ w[Len(w)] = At(e, k)
              /\ \A j \in 1..Len(w) - 1 : w[j] # At(e, k)
      /\ \A j \in At(e, k) + 1..n : s.prev[j] = j - 1
      /\ \A j \in 1..n : Skipped(lines[j]) => s.prev[j] = j - 1
      /\ \A j \in 1..Len(w) : w[j] < s.fresh /\ (w[j] <= At(e, k) \/ w[j] > n)

(* From a line, insert_before finds the last line that counts, which may   *)
(* have been inserted behind.                                              *)
LEMMA FoundBefore ==
  ASSUME NEW lines \in Seq(PamLines), NEW n, n = Len(lines),
         NEW e, e = SignificantNodes(lines), NEW k \in 0..Len(e) - 1,
         NEW s, NEW w, NEW g, NEW pos, Walk(s, lines, e, k, w, g, pos),
         Grown(s, n, k), BackLinks(s, lines, e, k, w), NEW i, i = e[k + 1]
  PROVE  /\ BeforePast(s, i) = At(e, k) /\ s.prev[i] = i - 1
         /\ s.fresh \in Nodes(n) /\ s.fresh > n /\ s.changes \in Nat
<1>1. k \in 0..Len(e) /\ k < Len(e) /\ k \in Nat
  <2>1. Len(e) \in Nat
    BY WalkStart
  <2> QED BY <2>1
<1>2. n \in Nat /\ At(e, k) \in 0..n /\ k <= n
  BY <1>1, Gaps
<1>3. \A j \in At(e, k) + 1..Ahead(e, k, n) - 1 : j \in 1..n /\ Skipped(lines[j])
  BY <1>1, Gaps
<1>4. i = Ahead(e, k, n) /\ i \in 1..n /\ k < n
  BY <1>1, Gaps
<1>5. i \in At(e, k) + 1..n
  <2>1. Ahead(e, k, n) \in At(e, k) + 1..n + 1
    BY <1>1, Gaps
  <2> QED BY <1>2, <1>4, <2>1
<1>6. k > 0 => At(e, k) \in 1..n /\ ~Skipped(lines[At(e, k)])
  BY <1>1, Gaps
<1>7. s \in Lists(n) /\ \A j \in 1..n : s.line[j] = lines[j]
  BY DEF Walk
<1>8. /\ \A j \in At(e, k) + 1..n : s.prev[j] = j - 1
      /\ \A j \in 1..n : Skipped(lines[j]) => s.prev[j] = j - 1
  BY DEF BackLinks
<1> DEFINE m == 2*n
           a == At(e, k)
<1>9. /\ m \in Nat /\ Len(s.line) = m /\ s.prev \in [1..m -> 0..m]
  BY <1>2, <1>7, LinesLength DEF Lists
<1>10. \A j \in 1..m : Skipped(s.line[j]) /\ s.prev[j] # Nil => s.prev[j] < j
  <2> SUFFICES ASSUME NEW j \in 1..m, Skipped(s.line[j]), s.prev[j] # Nil PROVE s.prev[j] < j
    OBVIOUS
  <2>1. CASE j \in 1..n
    BY <1>7, <1>8, <2>1
  <2>2. CASE j \notin 1..n
    <3>1. j \in Nodes(n) /\ j >= n + 1 /\ s.fresh \in Nat
      BY <1>2, <1>7, <2>2 DEF Nodes, Lists
    <3>2. j < s.fresh => j \in n + 1..s.fresh - 1
      BY <1>2, <3>1
    <3>3. j >= s.fresh
      BY <3>1, <3>2 DEF Grown
    <3> QED BY <3>1, <3>3 DEF Grown
  <2> QED BY <2>1, <2>2
<1>11. i - 1 \in 0..m /\ a \in 0..i - 1
  BY <1>2, <1>4, <1>5
<1>12. a = Nil \/ ~Skipped(s.line[a])
  <2>1. CASE k = 0
    BY <2>1 DEF At, Nil
  <2>2. CASE k # 0
    BY <1>1, <1>6, <1>7, <2>2
  <2> QED BY <2>1, <2>2
<1>13. \A j \in a + 1..i - 1 : Skipped(s.line[j]) /\ s.prev[j] = j - 1
  <2> SUFFICES ASSUME NEW j \in a + 1..i - 1 PROVE Skipped(s.line[j]) /\ s.prev[j] = j - 1
    OBVIOUS
  <2>1. j \in 1..n /\ Skipped(lines[j])
    BY <1>3, <1>4
  <2> QED BY <1>7, <1>8, <2>1
<1>14. PastComments(s, s.prev, i - 1) = a
  <2> DEFINE h == i - 1
  <2>1. /\ h \in 0..m /\ a \in 0..h
        /\ SkippedBack(s, s.prev, h, a)
    BY <1>11, <1>12, <1>13 DEF SkippedBack
  <2> HIDE DEF m, a, h
  <2>2. PastComments(s, s.prev, h) = a
    BY <1>9, <1>10, <2>1, PastBackward
  <2> QED BY <2>2 DEF h
<1>15. s.prev[i] = i - 1
  BY <1>5, <1>8
<1>16. s.fresh \in Nodes(n) /\ s.fresh > n /\ s.changes \in Nat
  <2>1. s.fresh = n + 1 + s.changes /\ s.changes <= k /\ s.changes \in Nat
    BY <1>7 DEF Grown, Lists
  <2> QED BY <1>1, <1>2, <1>4, <2>1 DEF Nodes
<1> QED BY <1>14, <1>15, <1>16 DEF BeforePast

(* The lines that count, by their nodes.                                   *)
LEMMA OldLines ==
  ASSUME NEW lines \in Seq(PamLines), NEW e, e = SignificantNodes(lines),
         NEW old, old = Significant(lines)
  PROVE  /\ Len(old) = Len(e) /\ old \in Seq(SignificantLines)
         /\ \A j \in 1..Len(e) : old[j] = lines[e[j]]
<1>1. old = Values(lines, e) /\ old \in Seq(SignificantLines)
  BY SignificantIsValues
<1>2. Len(e) \in Nat
  BY WalkStart
<1> QED BY <1>1, <1>2 DEF Values

(* What a link of n lines leads to.                                        *)
Links(n) == 0..2*n

(* Changes of one field of a list.                                         *)
LEMMA LineField ==
  ASSUME NEW n \in Nat, NEW s \in Lists(n), NEW x \in Nodes(n), NEW l \in PamLines
  PROVE  [s EXCEPT !.line[x] = l] \in Lists(n)
BY DEF Lists, Nodes, Links

(* A link to a next node.                                                  *)
LEMMA NextField ==
  ASSUME NEW n \in Nat, NEW s \in Lists(n), NEW x \in Nodes(n), NEW y \in Links(n)
  PROVE  [s EXCEPT !.next[x] = y] \in Lists(n)
BY DEF Lists, Nodes, Links

(* The head and the tail.                                                  *)
LEMMA HeadField ==
  ASSUME NEW n \in Nat, NEW s \in Lists(n), NEW y \in Links(n)
  PROVE  [s EXCEPT !.head = y] \in Lists(n) /\ [s EXCEPT !.tail = y] \in Lists(n)
BY DEF Lists, Nodes, Links

(* The next free node, and the count of changes.                           *)
LEMMA CountField ==
  ASSUME NEW n \in Nat, NEW s \in Lists(n), NEW c \in Nat
  PROVE  [s EXCEPT !.fresh = c] \in Lists(n) /\ [s EXCEPT !.changes = c] \in Lists(n)
BY DEF Lists, Nodes, Links

(* What the fields of a list are.                                          *)
LEMMA FieldTypes ==
  ASSUME NEW n \in Nat, NEW s \in Lists(n)
  PROVE  /\ s.head \in Links(n) /\ s.tail \in Links(n) /\ s.fresh \in Nat /\ s.changes \in Nat
         /\ s.next \in [Nodes(n) -> Links(n)] /\ s.prev \in [Nodes(n) -> Links(n)]
         /\ s.line \in [Nodes(n) -> PamLines] /\ s.crashed \in BOOLEAN
         /\ \A x \in Nodes(n) : x \in Links(n) /\ x \in Nat /\ x # Nil
BY DEF Lists, Nodes, Links, Nil

(* A fresh node changes its line and the counts.                           *)
LEMMA FreshFields ==
  ASSUME NEW n \in Nat, NEW s \in Lists(n), s.fresh \in Nodes(n), NEW rule \in PamLines,
         NEW t, t = Fresh(s, rule)
  PROVE  /\ t \in Lists(n) /\ t.crashed = s.crashed
         /\ t.line = [s.line EXCEPT ![s.fresh] = rule]
         /\ t.fresh = s.fresh + 1 /\ t.changes = s.changes + 1
         /\ t.next = s.next /\ t.prev = s.prev /\ t.head = s.head /\ t.tail = s.tail
<1> DEFINE u == [s EXCEPT !.line[s.fresh] = rule]
           f == s.fresh + 1
           c == s.changes + 1
           v == [u EXCEPT !.fresh = f]
<1>1. f \in Nat /\ c \in Nat
  BY FieldTypes
<1>2. u \in Lists(n)
  BY LineField
<1>3. t = [v EXCEPT !.changes = c]
  BY DEF Fresh, Lists
<1>4. v \in Lists(n)
  <2> HIDE DEF u, f
  <2> QED BY <1>1, <1>2, CountField
<1>5. t \in Lists(n)
  <2> HIDE DEF v, c
  <2> QED BY <1>1, <1>3, <1>4, CountField
<1>6. /\ t.crashed = s.crashed
      /\ t.line = [s.line EXCEPT ![s.fresh] = rule]
      /\ t.fresh = s.fresh + 1 /\ t.changes = s.changes + 1
      /\ t.next = s.next /\ t.prev = s.prev /\ t.head = s.head /\ t.tail = s.tail
  BY DEF Fresh, Lists
<1> QED BY <1>5, <1>6

(* Two links are set: one forward, one back.                               *)
Linking(s, a, b, c, d) == [s EXCEPT !.next[a] = b, !.prev[c] = d]
(* The head is set.                                                        *)
Heading(s, a) == [s EXCEPT !.head = a]

(* They change nothing else.                                               *)
LEMMA TwoLinks ==
  ASSUME NEW n \in Nat, NEW s \in Lists(n), NEW a \in Nodes(n), NEW b \in Links(n),
         NEW c \in Nodes(n), NEW d \in Links(n), NEW t, t = Linking(s, a, b, c, d)
  PROVE  /\ t \in Lists(n) /\ t.next = [s.next EXCEPT ![a] = b] /\ t.prev = [s.prev EXCEPT ![c] = d]
         /\ t.head = s.head /\ t.tail = s.tail /\ t.line = s.line
         /\ t.fresh = s.fresh /\ t.changes = s.changes /\ t.crashed = s.crashed
<1>1. t \in Lists(n)
  BY DEF Lists, Nodes, Links, Linking
<1>2. /\ t.next = [s.next EXCEPT ![a] = b] /\ t.prev = [s.prev EXCEPT ![c] = d]
      /\ t.head = s.head /\ t.tail = s.tail /\ t.line = s.line
      /\ t.fresh = s.fresh /\ t.changes = s.changes /\ t.crashed = s.crashed
  BY DEF Lists, Nodes, Links, Linking
<1> QED BY <1>1, <1>2

(* It changes nothing else.                                                *)
LEMMA NewHead ==
  ASSUME NEW n \in Nat, NEW s \in Lists(n), NEW a \in Links(n), NEW t, t = Heading(s, a)
  PROVE  /\ t \in Lists(n) /\ t.next = s.next /\ t.prev = s.prev
         /\ t.head = a /\ t.tail = s.tail /\ t.line = s.line
         /\ t.fresh = s.fresh /\ t.changes = s.changes /\ t.crashed = s.crashed
<1>1. t \in Lists(n)
  BY HeadField DEF Heading
<1>2. /\ t.next = s.next /\ t.prev = s.prev
      /\ t.head = a /\ t.tail = s.tail /\ t.line = s.line
      /\ t.fresh = s.fresh /\ t.changes = s.changes /\ t.crashed = s.crashed
  BY DEF Lists, Heading
<1> QED BY <1>1, <1>2

(* A fresh node that is linked before i.                                   *)
LEMMA NewBefore ==
  ASSUME NEW n \in Nat, NEW s \in Lists(n), s.fresh \in Nodes(n), NEW i \in Nodes(n), NEW rule \in PamLines,
         NEW u, u = Linking(Fresh(s, rule), s.fresh, i, i, s.fresh)
  PROVE  /\ u \in Lists(n)
         /\ u.next = [s.next EXCEPT ![s.fresh] = i] /\ u.prev = [s.prev EXCEPT ![i] = s.fresh]
         /\ u.head = s.head /\ u.tail = s.tail /\ u.line = [s.line EXCEPT ![s.fresh] = rule]
         /\ u.fresh = s.fresh + 1 /\ u.changes = s.changes + 1 /\ u.crashed = s.crashed
<1> DEFINE f == Fresh(s, rule)
           new == s.fresh
<1>1. /\ f \in Lists(n) /\ f.crashed = s.crashed
      /\ f.line = [s.line EXCEPT ![new] = rule]
      /\ f.fresh = s.fresh + 1 /\ f.changes = s.changes + 1
      /\ f.next = s.next /\ f.prev = s.prev /\ f.head = s.head /\ f.tail = s.tail
  <2> HIDE DEF f
  <2> QED BY FreshFields DEF f
<1>2. new \in Nodes(n) /\ new \in Links(n) /\ i \in Links(n)
  BY DEF Nodes, Links
<1>3. u = Linking(f, new, i, i, new)
  OBVIOUS
<1> HIDE DEF f, new
<1>4. /\ u \in Lists(n) /\ u.next = [f.next EXCEPT ![new] = i] /\ u.prev = [f.prev EXCEPT ![i] = new]
      /\ u.head = f.head /\ u.tail = f.tail /\ u.line = f.line
      /\ u.fresh = f.fresh /\ u.changes = f.changes /\ u.crashed = f.crashed
  BY <1>1, <1>2, <1>3, TwoLinks
<1> QED BY <1>1, <1>4 DEF new

(* What a turn of insert_before that inserts does to the list.             *)
LEMMA BeforeFields ==
  ASSUME NEW n \in Nat, NEW s \in Lists(n), NEW i \in 1..n, NEW p \in 0..i - 1,
         BeforePast(s, i) = p, s.prev[i] = i - 1,
         NEW new, new = s.fresh, new \in Nodes(n), new > n,
         NEW rule \in PamLines, NEW key, p = Nil \/ ~Matches(s.line[p], key),
         NEW h, h = IF p # Nil THEN p ELSE i - 1,
         NEW t, t = InsertOneBefore(s, i, rule, key)
  PROVE  /\ t \in Lists(n) /\ t.crashed = s.crashed
         /\ t.line = [s.line EXCEPT ![new] = rule]
         /\ t.fresh = s.fresh + 1 /\ t.changes = s.changes + 1
         /\ t.next[new] = i
         /\ \A j \in Nodes(n) : j # new /\ j # h => t.next[j] = s.next[j]
         /\ h # Nil => t.next[h] = new /\ t.head = s.head
         /\ h = Nil => t.head = new
         /\ \A j \in Nodes(n) : j # new /\ j # i => t.prev[j] = s.prev[j]
<1> DEFINE u == Linking(Fresh(s, rule), s.fresh, i, i, s.fresh)
<1>1. /\ i \in Nodes(n) /\ new # i
      /\ h \in Nat /\ (h # Nil => h \in Nodes(n) /\ h \in Links(n)) /\ h # new /\ h # i
  BY DEF Nodes, Links, Nil
<1>2. t = IF h # Nil THEN Linking(u, h, new, new, h) ELSE Heading(u, new)
  <2>1. CASE p # Nil
    BY <2>1 DEF InsertOneBefore, Linking, Heading
  <2>2. CASE p = Nil /\ i - 1 = Nil
    BY <2>2 DEF InsertOneBefore, Linking, Heading
  <2>3. CASE p = Nil /\ i - 1 # Nil
    BY <2>3 DEF InsertOneBefore, Linking, Heading
  <2> QED BY <2>1, <2>2, <2>3
<1>3. /\ u \in Lists(n)
      /\ u.next = [s.next EXCEPT ![new] = i] /\ u.prev = [s.prev EXCEPT ![i] = new]
      /\ u.head = s.head /\ u.line = [s.line EXCEPT ![new] = rule]
      /\ u.fresh = s.fresh + 1 /\ u.changes = s.changes + 1 /\ u.crashed = s.crashed
  <2> HIDE DEF u
  <2> QED BY <1>1, NewBefore DEF u
<1> HIDE DEF u
<1>5. s.next \in [Nodes(n) -> Links(n)] /\ s.prev \in [Nodes(n) -> Links(n)] /\ new \in Links(n)
  BY FieldTypes DEF Nodes, Links
<1>6. CASE h # Nil
  <2>1. \A x \in Lists(n), a, b \in Nodes(n) : \A y : y = Linking(x, a, b, b, a) =>
          /\ y \in Lists(n) /\ y.next = [x.next EXCEPT ![a] = b] /\ y.prev = [x.prev EXCEPT ![b] = a]
          /\ y.head = x.head /\ y.line = x.line
          /\ y.fresh = x.fresh /\ y.changes = x.changes /\ y.crashed = x.crashed
    <3> SUFFICES ASSUME NEW x \in Lists(n), NEW a \in Nodes(n), NEW b \in Nodes(n),
                        NEW y, y = Linking(x, a, b, b, a)
                 PROVE  /\ y \in Lists(n) /\ y.next = [x.next EXCEPT ![a] = b] /\ y.prev = [x.prev EXCEPT ![b] = a]
                        /\ y.head = x.head /\ y.line = x.line
                        /\ y.fresh = x.fresh /\ y.changes = x.changes /\ y.crashed = x.crashed
      OBVIOUS
    <3>1. a \in Links(n) /\ b \in Links(n)
      BY DEF Nodes, Links
    <3> QED BY <3>1, TwoLinks
  <2>2. /\ t \in Lists(n) /\ t.next = [u.next EXCEPT ![h] = new] /\ t.prev = [u.prev EXCEPT ![new] = h]
        /\ t.head = u.head /\ t.line = u.line
        /\ t.fresh = u.fresh /\ t.changes = u.changes /\ t.crashed = u.crashed
    <3>1. h \in Nodes(n) /\ u \in Lists(n) /\ new \in Nodes(n) /\ t = Linking(u, h, new, new, h)
      BY <1>1, <1>2, <1>3, <1>6
    <3> QED BY <2>1, <3>1
  <2> QED BY <1>1, <1>3, <1>5, <1>6, <2>2
<1>7. CASE h = Nil
  <2>1. t = Heading(u, new)
    BY <1>2, <1>7
  <2>2. /\ t \in Lists(n) /\ t.next = u.next /\ t.prev = u.prev /\ t.head = new /\ t.line = u.line
        /\ t.fresh = u.fresh /\ t.changes = u.changes /\ t.crashed = u.crashed
    <3>1. \A x \in Lists(n), y \in Links(n) : \A z : z = Heading(x, y) =>
            /\ z \in Lists(n) /\ z.next = x.next /\ z.prev = x.prev /\ z.head = y /\ z.line = x.line
            /\ z.fresh = x.fresh /\ z.changes = x.changes /\ z.crashed = x.crashed
      BY NewHead
    <3>2. u \in Lists(n) /\ new \in Links(n)
      BY <1>3, <1>5
    <3> QED BY <2>1, <3>1, <3>2
  <2> QED BY <1>1, <1>3, <1>5, <1>7, <2>2
<1> QED BY <1>6, <1>7

(* The links back hold at the next line as well.                           *)
LEMMA KeptBackLinks ==
  ASSUME NEW lines \in Seq(PamLines), NEW n, n = Len(lines),
         NEW e, e = SignificantNodes(lines), NEW k \in 0..Len(e) - 1,
         NEW s, NEW t, NEW w, BackLinks(s, lines, e, k, w), NEW i, i = e[k + 1],
         NEW u \in Seq(Nodes(n)), \A j \in 1..Len(u) : u[j] < t.fresh /\ (u[j] < i \/ u[j] > n),
         t.fresh \in Nat, t.fresh > n,
         \A j \in 1..n : j # i => t.prev[j] = s.prev[j]
  PROVE  BackLinks(t, lines, e, k + 1, Append(u, i))
<1>1. k \in 0..Len(e) /\ k < Len(e) /\ k \in Nat
  <2>1. Len(e) \in Nat
    BY WalkStart
  <2> QED BY <2>1
<1>2. n \in Nat /\ At(e, k) \in 0..n
  BY <1>1, Gaps
<1>3. At(e, k + 1) = i /\ i \in 1..n /\ ~Skipped(lines[i])
  BY <1>1, Gaps
<1>4. At(e, k) < i
  <2>1. Ahead(e, k, n) \in At(e, k) + 1..n + 1
    BY <1>1, Gaps
  <2>2. i = Ahead(e, k, n)
    BY <1>1, Gaps
  <2> QED BY <1>2, <1>3, <2>1, <2>2
<1> DEFINE v == Append(u, i)
<1>5. /\ Len(v) = Len(u) + 1 /\ v # <<>> /\ v[Len(v)] = i /\ Len(u) \in Nat
      /\ \A j \in 1..Len(u) : v[j] = u[j] /\ u[j] \in Nat
  <2>1. \A j \in 1..Len(u) : u[j] \in Nodes(n)
    OBVIOUS
  <2> QED BY <1>2, <2>1 DEF Nodes
<1> HIDE DEF v
<1>6. \A j \in 1..Len(v) - 1 : v[j] # i
  <2>1. \A j \in 1..Len(v) - 1 : j \in 1..Len(u)
    BY <1>5
  <2>2. \A j \in 1..Len(u) : v[j] = u[j] /\ u[j] \in Nat /\ (u[j] < i \/ u[j] > n)
    BY <1>5
  <2>3. i \in Nat /\ n \in Nat /\ i <= n
    BY <1>2, <1>3
  <2>4. \A x \in Nat : x < i \/ x > n => x # i
    BY ONLY <2>3
  <2> QED BY ONLY <2>1, <2>2, <2>4
<1>7. \A j \in i + 1..n : t.prev[j] = j - 1
  <2>1. \A j \in i + 1..n : j \in At(e, k) + 1..n /\ j \in 1..n /\ j # i
    BY <1>2, <1>3, <1>4
  <2> QED BY <2>1 DEF BackLinks
<1>8. \A j \in 1..n : Skipped(lines[j]) => t.prev[j] = j - 1
  BY <1>3 DEF BackLinks
<1>9. \A j \in 1..Len(v) : v[j] < t.fresh /\ (v[j] <= i \/ v[j] > n)
  <2> SUFFICES ASSUME NEW j \in 1..Len(v) PROVE v[j] < t.fresh /\ (v[j] <= i \/ v[j] > n)
    OBVIOUS
  <2>1. CASE j = Len(v)
    BY <1>2, <1>3, <1>5, <2>1
  <2>2. CASE j # Len(v)
    <3>1. j \in 1..Len(u)
      BY <1>5, <2>2
    <3> QED BY <1>3, <1>5, <3>1
  <2> QED BY <2>1, <2>2
<1>10. k + 1 # 0
  BY <1>1
<1>11. BackLinks(t, lines, e, k + 1, v)
  BY <1>3, <1>5, <1>6, <1>7, <1>8, <1>9, <1>10 DEF BackLinks
<1> QED BY <1>11 DEF v

(* A turn makes the piece p of the line x, and counts it if it is not x.   *)
Counted(s, t, p, x) ==
  \/ t.changes = s.changes /\ p = <<x>>
  \/ t.changes = s.changes + 1 /\ Len(p) = 2

(* The list t once the rule stands before the line i.                      *)
RuleBefore(op, lines, e, k, s, w, t, i) ==
  LET n == Len(lines)
  IN  \E wt, pt : /\ Walk(t, lines, e, k + 1, wt, At(e, k + 1) + 1, pt)
                  /\ Grown(t, n, k + 1) /\ BackLinks(t, lines, e, k + 1, wt)
                  /\ Content(t, wt) = Content(s, w) \o <<NewRule(op), lines[i]>>
                  /\ t.changes = s.changes + 1

(* A turn of insert_before that inserts takes the walk to the next line,   *)
(* with the rule before it.                                                *)
LEMMA BeforeInsertion ==
  ASSUME NEW op \in Tasks, op.state = "before", NEW lines \in Seq(PamLines), NEW n, n = Len(lines),
         NEW e, e = SignificantNodes(lines), NEW k \in 0..Len(e) - 1,
         NEW s, NEW w, NEW pos, Walk(s, lines, e, k, w, At(e, k) + 1, pos),
         Grown(s, n, k), BackLinks(s, lines, e, k, w), NEW i, i = e[k + 1],
         At(e, k) = Nil \/ ~Matches(lines[At(e, k)], op.new),
         NEW t, t = InsertOneBefore(s, i, NewRule(op), op.new)
  PROVE  RuleBefore(op, lines, e, k, s, w, t, i)
<1> DEFINE a == At(e, k)
           rule == NewRule(op)
           new == s.fresh
           u == w \o Between(a + 1, i - 1)
           h == IF a # Nil THEN a ELSE i - 1
           v == IF a # Nil THEN w ELSE u
           x == IF a # Nil THEN a + 1 ELSE i
<1>0. /\ k \in 0..Len(e) /\ k < Len(e) /\ k \in Nat
  <2>1. Len(e) \in Nat
    BY WalkStart
  <2> QED BY <2>1
<1>1. n \in Nat /\ a \in 0..n
  BY <1>0, Gaps
<1>2. i = Ahead(e, k, n) /\ i \in 1..n /\ At(e, k + 1) = i /\ lines[i] \in SignificantLines
  <2>1. i = Ahead(e, k, n) /\ i \in 1..n /\ At(e, k + 1) = i /\ ~Skipped(lines[i])
    BY <1>0, Gaps
  <2>2. lines[i] \in PamLines
    BY <2>1
  <2> QED BY <2>1, <2>2, LineKinds
<1>3. a < i /\ i \in a + 1..Ahead(e, k, n)
  <2>1. Ahead(e, k, n) \in a + 1..n + 1
    BY <1>0, Gaps
  <2> QED BY <1>1, <1>2, <2>1
<1>4. /\ BeforePast(s, i) = a /\ s.prev[i] = i - 1
      /\ new \in Nodes(n) /\ new > n /\ s.changes \in Nat
  BY FoundBefore
<1>5. /\ s \in Lists(n) /\ ~s.crashed /\ w \in Seq(Nodes(n))
      /\ Leads(s, w, Onto(a + 1, n)) /\ \A j \in a + 1..n : s.next[j] = Onto(j + 1, n)
      /\ \A j \in 1..n : s.line[j] = lines[j]
      /\ Forward(s, 2*n, pos) /\ Pos(n, pos)
  BY DEF Walk
<1>6. rule \in PamLines /\ rule \in SignificantLines
  BY InsertedRule
<1>7. /\ t \in Lists(n) /\ t.crashed = s.crashed
      /\ t.line = [s.line EXCEPT ![new] = rule]
      /\ t.fresh = s.fresh + 1 /\ t.changes = s.changes + 1
      /\ t.next[new] = i
      /\ \A j \in Nodes(n) : j # new /\ j # h => t.next[j] = s.next[j]
      /\ h # Nil => t.next[h] = new /\ t.head = s.head
      /\ h = Nil => t.head = new
      /\ \A j \in Nodes(n) : j # new /\ j # i => t.prev[j] = s.prev[j]
  <2>1. a \in 0..i - 1
    BY <1>1, <1>2, <1>3
  <2>2. a = Nil \/ ~Matches(s.line[a], op.new)
    <3>1. CASE a = Nil
      BY <3>1
    <3>2. CASE a # Nil
      <4>1. s.line[a] = lines[a]
        BY <1>1, <1>5, <3>2 DEF Nil
      <4> QED BY <4>1, <3>2
    <3> QED BY <3>1, <3>2
  <2>3. /\ t = InsertOneBefore(s, i, rule, op.new) /\ new = s.fresh /\ h = IF a # Nil THEN a ELSE i - 1
    OBVIOUS
  <2> HIDE DEF a, rule, new, h
  <2>4. /\ n \in Nat /\ s \in Lists(n) /\ i \in 1..n /\ a \in 0..i - 1
        /\ BeforePast(s, i) = a /\ s.prev[i] = i - 1 /\ new \in Nodes(n) /\ new > n
        /\ rule \in PamLines
    BY <1>1, <1>2, <1>4, <1>5, <1>6, <2>1
  <2> QED BY ONLY <2>2, <2>3, <2>4, BeforeFields
<1>8. /\ u \in Seq(Nodes(n)) /\ Leads(s, u, i)
      /\ Content(s, u) = Content(s, w)
      /\ \A j \in 1..Len(u) : (j <= Len(w) /\ u[j] = w[j])
                             \/ (j > Len(w) /\ u[j] = a + 1 + (j - Len(w)) - 1 /\ u[j] \in a + 1..i - 1)
      /\ Len(u) = Len(w) + (i - (a + 1))
  <2> DEFINE g == a + 1
  <2>1. /\ Walk(s, lines, e, k, w, g, pos) /\ u = w \o Between(g, i - 1)
        /\ k \in 0..Len(e) - 1 /\ i = e[k + 1] /\ n = Len(lines) /\ e = SignificantNodes(lines)
    OBVIOUS
  <2> HIDE DEF g, u
  <2>2. Passed(s, n, w, g, i, u)
    BY ONLY <2>1, lines \in Seq(PamLines), WalkOn
  <2> QED BY <2>2 DEF g, Passed
<1>9. /\ a = Nil => w = <<>> /\ Len(w) = 0
      /\ a # Nil => w # <<>> /\ w[Len(w)] = a /\ \A j \in 1..Len(w) - 1 : w[j] # a
      /\ \A j \in 1..Len(w) : w[j] < s.fresh /\ (w[j] <= a \/ w[j] > n)
  <2>1. k = 0 => a = Nil
    BY DEF At, Nil
  <2>2. k # 0 => a # Nil
    <3>1. k > 0 => At(e, k) \in 1..n
      BY <1>0, Gaps
    <3> QED BY <1>0, <3>1 DEF Nil
  <2>3. IF k = 0 THEN w = <<>>
        ELSE w # <<>> /\ w[Len(w)] = At(e, k) /\ \A j \in 1..Len(w) - 1 : w[j] # At(e, k)
    BY DEF BackLinks
  <2>4. \A j \in 1..Len(w) : w[j] < s.fresh /\ (w[j] <= At(e, k) \/ w[j] > n)
    BY DEF BackLinks
  <2>5. w = <<>> => Len(w) = 0
    OBVIOUS
  <2> QED BY <2>1, <2>2, <2>3, <2>4, <2>5
<1>10. v \in Seq(Nodes(n)) /\ Leads(s, v, IF a # Nil THEN Onto(a + 1, n) ELSE i) /\ Content(s, v) = Content(s, w)
  BY <1>5, <1>8
<1>11. /\ h = Nil => v = <<>>
       /\ h # Nil => v # <<>> /\ v[Len(v)] = h /\ \A j \in 1..Len(v) - 1 : v[j] # h
       /\ h \in Nat /\ h < i
       /\ \A j \in 1..Len(v) : v[j] < s.fresh /\ (v[j] < i \/ v[j] > n)
  <2>1. CASE a # Nil
    <3>1. \A j \in 1..Len(w) : w[j] \in Nodes(n)
      BY <1>5
    <3>2. \A j \in 1..Len(w) : w[j] < i \/ w[j] > n
      BY <1>1, <1>2, <1>3, <1>9, <3>1 DEF Nodes
    <3> QED BY <2>1, <1>1, <1>3, <1>9, <3>2
  <2>2. CASE a = Nil
    <3>1. w = <<>> /\ Len(w) = 0 /\ a = 0
      BY <1>9, <2>2 DEF Nil
    <3>2. Len(u) = i - 1 /\ \A j \in 1..i - 1 : u[j] = j
      <4>1. Len(u) = i - 1
        BY <1>2, <1>8, <3>1
      <4>2. \A j \in 1..i - 1 : j > 0 /\ ~(j <= 0) /\ 0 + 1 + (j - 0) - 1 = j
        BY <1>2
      <4> QED BY <1>8, <3>1, <4>1, <4>2
    <3>3. h = i - 1 /\ v = u
      BY <2>2
    <3>4. h = Nil => v = <<>>
      <4>1. h = Nil => Len(u) = 0
        BY <3>2, <3>3 DEF Nil
      <4>2. Len(u) = 0 => u = <<>>
        BY <1>8
      <4> QED BY <3>3, <4>1, <4>2
    <3>5. h # Nil => v # <<>> /\ v[Len(v)] = h /\ \A j \in 1..Len(v) - 1 : v[j] # h
      <4> HIDE DEF u, v, h
      <4>1. h \in Nat /\ Len(v) = h /\ \A j \in 1..h : v[j] = j
        BY <1>2, <3>2, <3>3
      <4> QED BY <4>1 DEF Nil
    <3>6. \A j \in 1..Len(v) : v[j] < s.fresh /\ (v[j] < i \/ v[j] > n)
      <4> HIDE DEF u, v, h
      <4>1. s.fresh \in Nat /\ s.fresh > n
        BY <1>4 DEF Nodes
      <4> QED BY <1>1, <1>2, <3>2, <3>3, <4>1
    <3> HIDE DEF u, v
    <3> QED BY <1>2, <3>3, <3>4, <3>5, <3>6
  <2> QED BY <2>1, <2>2
<1>12. /\ Append(v, new) \in Seq(Nodes(n))
       /\ \E p : Walk(t, lines, e, k, Append(v, new), i, p)
       /\ Grown(t, n, k + 1)
       /\ Content(t, Append(v, new)) = Append(Content(s, v), rule)
       /\ Content(s, v) \in Seq(SignificantLines)
  <2> DEFINE y == IF a # Nil THEN Onto(a + 1, n) ELSE i
  <2> HIDE DEF a, rule, new, h, v, u, x
  <2>1. v \in Seq(Nodes(n)) /\ Leads(s, v, y)
    BY <1>10
  <2>2. \A j \in 1..Len(v) : v[j] # new /\ v[j] \in Nodes(n)
    <3>1. \A j \in 1..Len(v) : v[j] \in Nodes(n)
      BY <2>1
    <3>2. new = s.fresh
      BY DEF new
    <3> HIDE DEF y
    <3> QED BY <1>11, <3>1, <3>2 DEF Nodes
  <2>3. \A j \in i..n : s.next[j] = Onto(j + 1, n)
    <3>1. \A j \in i..n : j \in a + 1..n
      BY <1>1, <1>2, <1>3
    <3> QED BY <1>5, <3>1
  <2>4. t.next[new] = Onto(i, n)
    BY <1>1, <1>2, <1>7 DEF Onto
  <2>5. \A j \in Nodes(n) \ {new} : t.next[j] = s.next[j] \/ (j \in 1..n /\ j < i /\ t.next[j] = new)
    <3> SUFFICES ASSUME NEW j \in Nodes(n), j # new, t.next[j] # s.next[j]
                 PROVE  j \in 1..n /\ j < i /\ t.next[j] = new
      OBVIOUS
    <3>1. j = h
      BY <1>7
    <3>2. j \in Nat /\ j # Nil /\ j >= 1
      BY DEF Nil, Nodes
    <3> QED BY <1>1, <1>2, <1>7, <1>11, <3>1, <3>2
  <2>6. \A j \in Nodes(n) : j > new => t.prev[j] = s.prev[j]
    <3>1. \A j \in Nodes(n) : j > new => j # new /\ j # i
      BY <1>1, <1>2, <1>4 DEF Nodes
    <3> QED BY <1>7, <3>1
  <2>7. v = <<>> => t.head = new
    BY <1>7, <1>11
  <2>8. v # <<>> => /\ t.head = s.head
                    /\ t.next[v[Len(v)]] = new
                    /\ \A j \in 1..Len(v) - 1 : t.next[v[j]] = s.next[v[j]]
    <3> HAVE v # <<>>
    <3>1. h # Nil /\ v[Len(v)] = h /\ \A j \in 1..Len(v) - 1 : v[j] # h
      BY <1>11
    <3>2. \A j \in 1..Len(v) - 1 : j \in 1..Len(v)
      BY <2>1
    <3>3. \A j \in 1..Len(v) - 1 : v[j] # h /\ v[j] # new /\ v[j] \in Nodes(n)
      BY <2>2, <3>1, <3>2
    <3> HIDE DEF y
    <3> QED BY <1>7, <3>1, <3>3
  <2>9. /\ n = Len(lines) /\ k \in Nat /\ s \in Lists(n) /\ t \in Lists(n) /\ i \in 1..n + 1
        /\ ~t.crashed /\ new = s.fresh /\ new \in Nodes(n) /\ rule \in SignificantLines
        /\ \A j \in 1..n : s.line[j] = lines[j]
        /\ Forward(s, 2*n, pos) /\ Pos(n, pos) /\ Grown(s, n, k)
        /\ i \in At(e, k) + 1..Ahead(e, k, n)
        /\ t.line = [s.line EXCEPT ![new] = rule] /\ t.fresh = s.fresh + 1 /\ t.changes = s.changes + 1
    BY <1>0, <1>1, <1>2, <1>3, <1>4, <1>5, <1>6, <1>7 DEF a, new
  <2> HIDE DEF y
  <2>10. Adds(s, t, n, v, i, new, rule)
    BY <2>2, <2>4, <2>5, <2>6, <2>7, <2>8, <2>9 DEF Adds
  <2>11. Untouched(s, lines, i, pos)
    BY <2>3, <2>9 DEF Untouched
  <2> QED BY ONLY <2>1, <2>9, <2>10, <2>11, lines \in Seq(PamLines), Insertion
<1> DEFINE v1 == Append(v, new)
           w1 == Append(v1, i)
<1>13. PICK p : Walk(t, lines, e, k, v1, i, p)
  BY <1>12
<1> HIDE DEF v
<1>14. Len(v1) = Len(v) + 1 /\ \A j \in 1..Len(v) + 1 : v1[j] = IF j = Len(v) + 1 THEN new ELSE v[j]
  <2> DEFINE S == Nodes(n)
  <2>1. v \in Seq(S) /\ new \in S
    BY <1>4, <1>10
  <2> HIDE DEF S, new
  <2> QED BY <2>1
<1>15. v1 \o Between(i, i - 1) = v1
  <2>1. Between(i, i - 1) = <<>>
    BY <1>1, <1>2 DEF Between
  <2> DEFINE S == Nodes(n)
  <2>2. v1 \in Seq(S)
    BY <1>12
  <2> HIDE DEF v1, S
  <2> QED BY <2>1, <2>2
<1>16. /\ Walk(t, lines, e, k + 1, w1, i + 1, p)
       /\ Content(t, w1) = Append(Content(t, v1), lines[i])
  <2>1. /\ n = Len(lines) /\ e = SignificantNodes(lines) /\ k \in 0..Len(e) - 1
        /\ Walk(t, lines, e, k, v1, i, p) /\ i = e[k + 1] /\ v1 = v1 \o Between(i, i - 1)
    BY <1>13, <1>15
  <2> HIDE DEF v1, w1
  <2>2. Walk(t, lines, e, k + 1, Append(v1, i), i + 1, p)
    BY ONLY <2>1, lines \in Seq(PamLines), WalkOn
  <2>3. Taken(t, lines, v1, i, v1)
    BY ONLY <2>1, lines \in Seq(PamLines), WalkOn
  <2> QED BY <2>2, <2>3 DEF w1, Taken
<1>17. BackLinks(t, lines, e, k + 1, w1)
  <2>1. \A j \in 1..Len(v1) : v1[j] < t.fresh /\ (v1[j] < i \/ v1[j] > n)
    <3> SUFFICES ASSUME NEW j \in 1..Len(v1) PROVE v1[j] < t.fresh /\ (v1[j] < i \/ v1[j] > n)
      OBVIOUS
    <3>1. t.fresh = new + 1 /\ new \in Nat /\ new > n
      BY <1>4, <1>7 DEF Nodes
    <3> HIDE DEF v1, new
    <3>2. Len(v) \in Nat
      BY <1>10
    <3>3. CASE j = Len(v) + 1
      BY <1>14, <3>1, <3>2, <3>3
    <3>4. CASE j # Len(v) + 1
      <4>1. j \in 1..Len(v) /\ v1[j] = v[j]
        BY <1>14, <3>2, <3>4
      <4>2. v[j] < s.fresh /\ (v[j] < i \/ v[j] > n) /\ v[j] \in Nat /\ s.fresh = new
        <5>1. v[j] \in Nodes(n)
          BY <1>10, <4>1
        <5> QED BY <1>11, <4>1, <5>1 DEF Nodes, new
      <4> QED BY <3>1, <4>1, <4>2
    <3> QED BY <3>3, <3>4
  <2>2. t.fresh \in Nat /\ t.fresh > n
    BY <1>1, <1>4, <1>7 DEF Nodes
  <2>3. \A j \in 1..n : j # i => t.prev[j] = s.prev[j]
    <3>1. \A j \in 1..n : j \in Nodes(n) /\ j # new
      BY <1>1, <1>4 DEF Nodes
    <3> QED BY <1>7, <3>1
  <2>4. /\ n = Len(lines) /\ e = SignificantNodes(lines) /\ k \in 0..Len(e) - 1
        /\ BackLinks(s, lines, e, k, w) /\ i = e[k + 1] /\ v1 \in Seq(Nodes(n))
    BY <1>12
  <2> HIDE DEF v1
  <2> QED BY ONLY <2>1, <2>2, <2>3, <2>4, lines \in Seq(PamLines), KeptBackLinks DEF w1
<1>18. Content(t, w1) = Content(s, w) \o <<rule, lines[i]>>
  <2> DEFINE c == Content(s, w)
             y == lines[i]
             S == SignificantLines
  <2>1. c \in Seq(S) /\ rule \in S /\ y \in S
    BY <1>2, <1>6, <1>8, <1>10, <1>12
  <2>2. Content(t, w1) = Append(Append(c, rule), y)
    BY <1>10, <1>12, <1>16
  <2> HIDE DEF c, y, rule, S, w1
  <2>3. Append(Append(c, rule), y) = c \o <<rule, y>>
    BY ONLY <2>1
  <2> QED BY <2>2, <2>3 DEF c, y
<1>19. Walk(t, lines, e, k + 1, w1, At(e, k + 1) + 1, p)
  BY <1>2, <1>16
<1> HIDE DEF w1
<1> QED BY <1>7, <1>12, <1>17, <1>18, <1>19 DEF RuleBefore

(* A turn that changes nothing makes the line itself, and one that changes *)
(* something makes one line more, or none of it.                           *)
Counts(op, c, d, piece, x) ==
  /\ c \in Nat
  /\ \/ d = c /\ piece = <<x>>
     \/ d = c + 1 /\ Len(piece) = IF op.state = "absent" THEN 0 ELSE 2

(* As many changes as lines are too many, or missing.                      *)
Tally(op, old, k, c) ==
  /\ c \in Nat
  /\ Len(Made(op, old, k)) = IF op.state = "absent" THEN k - c ELSE k + c
  /\ c = 0 => Made(op, old, k) = SubSeq(old, 1, k)

(* At first nothing is made and nothing changed.                           *)
LEMMA TallyStart ==
  ASSUME NEW op \in Tasks, op.state \in Moving, NEW old \in Seq(SignificantLines)
  PROVE  Tally(op, old, 0, 0)
<1>1. Made(op, old, 0) = <<>>
  BY MadeStep
<1>2. SubSeq(old, 1, 0) = <<>> /\ Len(<<>>) = 0
  BY SubSeqEmpty
<1>3. Len(Made(op, old, 0)) = 0 /\ Made(op, old, 0) = SubSeq(old, 1, 0)
  BY <1>1, <1>2
<1>4. 0 \in Nat /\ 0 - 0 = 0 /\ 0 + 0 = 0
  OBVIOUS
<1> QED BY ONLY <1>3, <1>4 DEF Tally

(* A turn that counts its piece keeps the tally.                           *)
LEMMA TallyStep ==
  ASSUME NEW op \in Tasks, op.state \in Moving, NEW old \in Seq(SignificantLines),
         NEW k \in 0..Len(old) - 1, NEW c, NEW d, Tally(op, old, k, c),
         Counts(op, c, d, Piece(op, old, k + 1), old[k + 1])
  PROVE  Tally(op, old, k + 1, d)
<1> DEFINE m == Made(op, old, k)
           p == Piece(op, old, k + 1)
           L == SignificantLines
           x == old[k + 1]
           y == Made(op, old, k + 1)
           z == SubSeq(old, 1, k)
<1>1. Len(old) \in Nat /\ k \in Nat /\ k + 1 \in 1..Len(old) /\ k \in 0..Len(old) /\ x \in L
  <2>1. Len(old) \in Nat
    OBVIOUS
  <2>2. k + 1 \in 1..Len(old) /\ k \in 0..Len(old) /\ k \in Nat
    BY <2>1
  <2>3. x \in L
    BY <2>2
  <2> QED BY <2>1, <2>2, <2>3
<1>2. y = m \o p
  BY MadeStep
<1>3. m \in Seq(L)
  BY <1>1, MadeStep
<1>4. p \in Seq(L)
  <2> DEFINE h == k + 1
  <2>1. h \in 1..Len(old)
    BY <1>1
  <2> HIDE DEF h
  <2>2. Piece(op, old, h) \in Seq(L)
    BY <2>1, PieceType
  <2> QED BY <2>2 DEF h
<1>5. c \in Nat /\ Len(m) = (IF op.state = "absent" THEN k - c ELSE k + c) /\ (c = 0 => m = z)
  BY DEF Tally
<1>6. SubSeq(old, 1, k + 1) = z \o <<x>>
  <2>1. 1 \in 1..Len(old) /\ (k + 1) - 1 = k
    BY <1>1
  <2> QED BY <1>1, <2>1, SubSeqRecursiveSecond
<1>7. (d = c /\ p = <<x>>) \/ (d = c + 1 /\ Len(p) = IF op.state = "absent" THEN 0 ELSE 2)
  BY DEF Counts
<1> HIDE DEF m, p, L, x, y, z
<1>8. Len(y) = Len(m) + Len(p) /\ Len(m) \in Nat /\ Len(p) \in Nat
  BY <1>2, <1>3, <1>4
<1>9. d \in Nat /\ Len(y) = IF op.state = "absent" THEN (k + 1) - d ELSE (k + 1) + d
  <2>1. CASE d = c /\ p = <<x>>
    <3>1. Len(p) = 1
      BY <2>1
    <3> QED BY <1>1, <1>5, <1>8, <2>1, <3>1
  <2>2. CASE d = c + 1 /\ Len(p) = IF op.state = "absent" THEN 0 ELSE 2
    BY <1>1, <1>5, <1>8, <2>2
  <2> QED BY <1>7, <2>1, <2>2
<1>10. d = 0 => y = SubSeq(old, 1, k + 1)
  <2> HAVE d = 0
  <2>1. d = c /\ p = <<x>>
    BY <1>5, <1>7
  <2> QED BY <1>2, <1>5, <1>6, <2>1
<1> QED BY <1>9, <1>10 DEF Tally, y

(* In the end something is counted if and only if something else was made. *)
LEMMA TallyEnd ==
  ASSUME NEW op \in Tasks, op.state \in Moving, NEW old \in Seq(SignificantLines),
         NEW c, Tally(op, old, Len(old), c)
  PROVE  c > 0 <=> Made(op, old, Len(old)) # old
<1>1. SubSeq(old, 1, Len(old)) = old /\ Len(old) \in Nat
  BY SubSeqFull
<1>2. c = 0 => Made(op, old, Len(old)) = old
  BY <1>1 DEF Tally
<1>3. c \in Nat /\ (c # 0 => Len(Made(op, old, Len(old))) # Len(old))
  <2> DEFINE m == Len(Made(op, old, Len(old)))
             l == Len(old)
  <2>1. c \in Nat /\ l \in Nat /\ m = IF op.state = "absent" THEN l - c ELSE l + c
    BY <1>1 DEF Tally
  <2> HIDE DEF m, l
  <2>2. c # 0 => m # l
    BY <2>1
  <2> QED BY <2>1, <2>2 DEF m, l
<1> QED BY <1>2, <1>3

-----------------------------------------------------------------------------
(* The list of insert_before after the first k lines that are not skipped. *)
BeforeList(op, lines, k, s, w, pos) ==
  LET n == Len(lines)
      e == SignificantNodes(lines)
  IN  /\ Walk(s, lines, e, k, w, At(e, k) + 1, pos)
      /\ Grown(s, n, k) /\ BackLinks(s, lines, e, k, w)

(* A line where nothing is inserted is passed.                             *)
LEMMA BeforePassed ==
  ASSUME NEW op \in Tasks, NEW lines \in Seq(PamLines),
         NEW e, e = SignificantNodes(lines), NEW k \in 0..Len(e) - 1,
         NEW s, NEW w, NEW pos, BeforeList(op, lines, k, s, w, pos), NEW i, i = e[k + 1]
  PROVE  \E wt : /\ BeforeList(op, lines, k + 1, s, wt, pos)
                 /\ Content(s, wt) = Content(s, w) \o <<lines[i]>>
<1> DEFINE n == Len(lines)
           a == At(e, k)
           g == a + 1
           v == w \o Between(g, i - 1)
           wt == Append(v, i)
<1>0. /\ Walk(s, lines, e, k, w, g, pos) /\ Grown(s, n, k) /\ BackLinks(s, lines, e, k, w)
      /\ n = Len(lines)
  BY DEF BeforeList
<1>1. k \in 0..Len(e) /\ k < Len(e) /\ k \in Nat
  <2>1. Len(e) \in Nat
    BY WalkStart
  <2> QED BY <2>1
<1>2. /\ n \in Nat /\ a \in 0..n /\ i \in a + 1..n /\ i \in 1..n /\ At(e, k + 1) = i
      /\ Ahead(e, k, n) = i
  <2>1. /\ n \in Nat /\ a \in 0..n /\ Ahead(e, k, n) \in a + 1..n + 1
        /\ Ahead(e, k, n) \in 1..n /\ At(e, k + 1) = Ahead(e, k, n) /\ e[k + 1] = Ahead(e, k, n)
    BY <1>1, Gaps
  <2> QED BY <2>1
<1>3. /\ s.fresh \in Nodes(n) /\ s.fresh > n /\ s.changes \in Nat
  BY <1>0, FoundBefore
<1>4. /\ Passed(s, n, w, g, i, v)
      /\ Walk(s, lines, e, k + 1, wt, i + 1, pos)
      /\ Content(s, wt) = Append(Content(s, w), lines[i])
  <2>1. /\ v = w \o Between(g, i - 1) /\ Walk(s, lines, e, k, w, g, pos) /\ n = Len(lines)
        /\ k \in 0..Len(e) - 1 /\ i = e[k + 1] /\ e = SignificantNodes(lines)
    BY <1>0
  <2> HIDE DEF v, g, n, wt
  <2>2. Passed(s, n, w, g, i, v)
    BY ONLY <2>1, lines \in Seq(PamLines), WalkOn
  <2>3. Walk(s, lines, e, k + 1, Append(v, i), i + 1, pos)
    BY ONLY <2>1, lines \in Seq(PamLines), WalkOn
  <2>4. Taken(s, lines, w, i, v)
    BY ONLY <2>1, lines \in Seq(PamLines), WalkOn
  <2> QED BY <2>2, <2>3, <2>4 DEF wt, Taken
<1>5. \A j \in 1..Len(v) : v[j] < s.fresh /\ (v[j] < i \/ v[j] > n)
  <2> SUFFICES ASSUME NEW j \in 1..Len(v) PROVE v[j] < s.fresh /\ (v[j] < i \/ v[j] > n)
    OBVIOUS
  <2>1. v[j] \in Nodes(n) /\ Len(w) \in Nat
    <3>1. v \in Seq(Nodes(n)) /\ w \in Seq(Nodes(n))
      BY <1>4, <1>0 DEF Passed, Walk
    <3> HIDE DEF v
    <3> QED BY <3>1
  <2>2. \/ j \in 1..Len(w) /\ v[j] = w[j]
        \/ v[j] \in g..i - 1
    <3>1. (j <= Len(w) /\ v[j] = w[j]) \/ v[j] \in g..i - 1
      BY <1>4 DEF Passed
    <3>2. j \in Nat /\ 1 <= j
      OBVIOUS
    <3> HIDE DEF v, g
    <3> QED BY <2>1, <3>1, <3>2
  <2>3. \A x \in 1..Len(w) : w[x] < s.fresh /\ (w[x] <= a \/ w[x] > n)
    BY <1>0 DEF BackLinks
  <2>4. v[j] \in Nat /\ s.fresh \in Nat
    BY <2>1, <1>3 DEF Nodes
  <2>5. CASE j \in 1..Len(w) /\ v[j] = w[j]
    <3>1. v[j] < s.fresh /\ (v[j] <= a \/ v[j] > n)
      BY <2>3, <2>5
    <3> HIDE DEF v, a
    <3> QED BY <1>2, <2>4, <3>1
  <2>6. CASE v[j] \in g..i - 1
    <3>1. g <= v[j] /\ v[j] <= i - 1
      BY <2>6
    <3> HIDE DEF v, a, g
    <3> QED BY <1>2, <1>3, <2>4, <3>1
  <2> QED BY <2>2, <2>5, <2>6
<1>6. BackLinks(s, lines, e, k + 1, wt)
  <2>1. v \in Seq(Nodes(n))
    BY <1>4 DEF Passed
  <2>2. s.fresh \in Nat /\ s.fresh > n
    BY <1>3 DEF Nodes
  <2>3. \A j \in 1..n : j # i => s.prev[j] = s.prev[j]
    OBVIOUS
  <2>4. /\ n = Len(lines) /\ e = SignificantNodes(lines) /\ k \in 0..Len(e) - 1 /\ i = e[k + 1]
    BY <1>0
  <2> HIDE DEF v, n
  <2> QED BY ONLY <1>0, <1>5, <2>1, <2>2, <2>3, <2>4, lines \in Seq(PamLines), KeptBackLinks DEF wt
<1>7. Grown(s, n, k + 1)
  <2>1. s.changes <= k + 1
    BY <1>0, <1>1, <1>3 DEF Grown
  <2> QED BY <1>0, <2>1 DEF Grown
<1>8. BeforeList(op, lines, k + 1, s, wt, pos)
  <2>1. Walk(s, lines, e, k + 1, wt, At(e, k + 1) + 1, pos)
    BY <1>2, <1>4
  <2> HIDE DEF wt
  <2> QED BY <1>6, <1>7, <2>1 DEF BeforeList
<1>9. Content(s, wt) = Content(s, w) \o <<lines[i]>>
  <2>1. Content(s, w) \in Seq(SignificantLines)
    BY <1>4 DEF Passed
  <2>2. lines[i] \in SignificantLines
    <3>1. ~Skipped(lines[i])
      <4>1. ~Skipped(lines[Ahead(e, k, n)])
        BY <1>1, Gaps
      <4> QED BY <4>1, <1>2
    <3>2. lines[i] \in PamLines
      BY <1>2
    <3> QED BY <3>1, <3>2, LineKinds
  <2> DEFINE c == Content(s, w)
             L == SignificantLines
             y == lines[i]
  <2> HIDE DEF c, L, y
  <2>3. c \in Seq(L) /\ y \in L
    BY <2>1, <2>2 DEF c, L, y
  <2>4. Append(c, y) = c \o <<y>>
    BY <2>3
  <2> QED BY <1>4, <2>4 DEF c, y
<1> HIDE DEF wt
<1> QED BY <1>8, <1>9

(* The list t after a turn at the next line: its piece is behind the rest, *)
(* and counted.                                                            *)
BeforeTurned(op, lines, old, k, s, w, t) ==
  \E wt, pt : /\ BeforeList(op, lines, k + 1, t, wt, pt)
              /\ Content(t, wt) = Content(s, w) \o Piece(op, old, k + 1)
              /\ Counts(op, s.changes, t.changes, Piece(op, old, k + 1), old[k + 1])

(* A turn of insert_before, at a line that matches or not.                 *)
LEMMA BeforeTurn ==
  ASSUME NEW op \in Tasks, op.state = "before", NEW lines \in Seq(PamLines),
         NEW e, e = SignificantNodes(lines), NEW old, old = Significant(lines),
         NEW k \in 0..Len(e) - 1, NEW s, NEW w, NEW pos, BeforeList(op, lines, k, s, w, pos),
         NEW i, i = e[k + 1],
         NEW t, t = IF i \notin Targets(op, lines) THEN s ELSE Turn(op, s, i)
  PROVE  BeforeTurned(op, lines, old, k, s, w, t)
<1> USE DEF BeforeTurned
<1> DEFINE n == Len(lines)
           a == At(e, k)
           rule == NewRule(op)
<1>0. /\ Walk(s, lines, e, k, w, a + 1, pos) /\ Grown(s, n, k) /\ BackLinks(s, lines, e, k, w)
      /\ n = Len(lines)
  BY DEF BeforeList
<1>1. k \in 0..Len(e) /\ k < Len(e) /\ k \in Nat /\ Len(e) \in Nat /\ k + 1 \in 1..Len(e)
      /\ (k + 1) - 1 = k
  <2>1. Len(e) \in Nat
    BY WalkStart
  <2> QED BY <2>1
<1>2. /\ n \in Nat /\ a \in 0..n /\ i \in 1..n
  <2>1. /\ n \in Nat /\ a \in 0..n /\ Ahead(e, k, n) \in 1..n /\ e[k + 1] = Ahead(e, k, n)
    BY <1>1, Gaps
  <2> QED BY <2>1
<1>3. /\ BeforePast(s, i) = a /\ s.changes \in Nat
  BY <1>0, FoundBefore
<1>4. old[k + 1] = lines[i] /\ Len(old) = Len(e) /\ (k > 0 => k \in 1..Len(old) /\ old[k] = lines[a])
  <2>1. Len(old) = Len(e) /\ \A j \in 1..Len(e) : old[j] = lines[e[j]]
    BY OldLines
  <2>2. k > 0 => k \in 1..Len(e) /\ a = e[k]
    BY <1>1 DEF At
  <2> HIDE DEF a
  <2> QED BY <1>1, <2>1, <2>2
<1>5. /\ op.state # "absent"
      /\ Piece(op, old, k + 1) =
           IF ~Matches(lines[i], op.key) \/ (k \in DOMAIN old /\ Matches(old[k], op.new))
           THEN <<lines[i]>> ELSE <<rule, lines[i]>>
  BY <1>1, <1>4 DEF Piece
<1>6. DOMAIN old = 1..Len(old)
  <2>1. old \in Seq(SignificantLines)
    BY OldLines
  <2> QED BY <2>1
<1>7. (k \in DOMAIN old /\ Matches(old[k], op.new)) <=> (a # Nil /\ Matches(lines[a], op.new))
  <2>1. CASE k = 0
    <3>1. a = Nil /\ k \notin DOMAIN old
      BY <1>6, <2>1 DEF At, Nil
    <3> QED BY <3>1
  <2>2. CASE k # 0
    <3>1. k > 0
      BY <1>1, <2>2
    <3>2. a \in 1..n
      BY <1>1, <3>1, Gaps
    <3>3. a # Nil /\ k \in DOMAIN old /\ old[k] = lines[a]
      BY <1>4, <1>6, <3>1, <3>2 DEF Nil
    <3> QED BY <3>3
  <2> QED BY <2>1, <2>2
<1>8. i \in Targets(op, lines) <=> Matches(lines[i], op.key)
  BY <1>2 DEF Targets
<1>9. Turn(op, s, i) = InsertOneBefore(s, i, rule, op.new)
  BY TurnOf
<1>10. CASE i \notin Targets(op, lines) \/ (a # Nil /\ Matches(lines[a], op.new))
  <2>1. t = s
    <3>1. CASE i \notin Targets(op, lines)
      BY <3>1
    <3>2. CASE i \in Targets(op, lines) /\ a # Nil /\ Matches(lines[a], op.new)
      <4>1. s.line[a] = lines[a]
        <5>1. \A j \in 1..n : s.line[j] = lines[j]
          BY <1>0 DEF Walk
        <5>2. a \in 1..n
          BY <1>2, <3>2 DEF Nil
        <5> QED BY <5>1, <5>2
      <4>2. BeforePast(s, i) # Nil /\ Matches(s.line[BeforePast(s, i)], op.new)
        BY <1>3, <3>2, <4>1
      <4>3. InsertOneBefore(s, i, rule, op.new) = s
        <5> HIDE DEF a, rule
        <5> QED BY <4>2 DEF InsertOneBefore
      <4> QED BY <1>9, <3>2, <4>3
    <3> QED BY <1>10, <3>1, <3>2
  <2>2. Piece(op, old, k + 1) = <<lines[i]>>
    BY <1>5, <1>7, <1>8, <1>10
  <2>3. PICK wt : /\ BeforeList(op, lines, k + 1, s, wt, pos)
                  /\ Content(s, wt) = Content(s, w) \o <<lines[i]>>
    BY BeforePassed
  <2>4. Counts(op, s.changes, t.changes, Piece(op, old, k + 1), old[k + 1])
    BY <1>3, <1>4, <2>1, <2>2 DEF Counts
  <2> QED BY <2>1, <2>2, <2>3, <2>4
<1>11. CASE i \in Targets(op, lines) /\ (a = Nil \/ ~Matches(lines[a], op.new))
  <2>1. t = InsertOneBefore(s, i, rule, op.new)
    BY <1>9, <1>11
  <2>2. Piece(op, old, k + 1) = <<rule, lines[i]>>
    BY <1>5, <1>7, <1>8, <1>11
  <2>3. PICK wt, pt : /\ Walk(t, lines, e, k + 1, wt, At(e, k + 1) + 1, pt)
                      /\ Grown(t, n, k + 1) /\ BackLinks(t, lines, e, k + 1, wt)
                      /\ Content(t, wt) = Content(s, w) \o <<NewRule(op), lines[i]>>
                      /\ t.changes = s.changes + 1
    <3>1. /\ op \in Tasks /\ op.state = "before" /\ lines \in Seq(PamLines) /\ n = Len(lines)
          /\ e = SignificantNodes(lines) /\ k \in 0..Len(e) - 1
          /\ Walk(s, lines, e, k, w, At(e, k) + 1, pos)
          /\ Grown(s, n, k) /\ BackLinks(s, lines, e, k, w) /\ i = e[k + 1]
          /\ At(e, k) = Nil \/ ~Matches(lines[At(e, k)], op.new)
          /\ t = InsertOneBefore(s, i, NewRule(op), op.new)
      BY <1>0, <1>11, <2>1
    <3> HIDE DEF n
    <3>2. RuleBefore(op, lines, e, k, s, w, t, i)
      BY ONLY <3>1, BeforeInsertion
    <3> QED BY <3>2 DEF RuleBefore, n
  <2>4. Counts(op, s.changes, t.changes, Piece(op, old, k + 1), old[k + 1])
    <3>1. Len(<<rule, lines[i]>>) = 2
      OBVIOUS
    <3> HIDE DEF rule
    <3> QED BY <1>3, <1>5, <2>2, <2>3, <3>1 DEF Counts
  <2>5. BeforeList(op, lines, k + 1, t, wt, pt)
    BY <2>3 DEF BeforeList
  <2> QED BY <2>2, <2>3, <2>4, <2>5
<1> QED BY <1>10, <1>11

-----------------------------------------------------------------------------
(* What an insertion or a removal has come to at a line.                   *)
Moved(op, lines, k, s, w) ==
  /\ Content(s, w) = Made(op, Significant(lines), k)
  /\ Tally(op, Significant(lines), k, s.changes)

(* At first it has come to nothing.                                        *)
LEMMA MovedStart ==
  ASSUME NEW op \in Tasks, op.state \in Moving, NEW lines \in Seq(PamLines)
  PROVE  Moved(op, lines, 0, Service(lines), <<>>)
<1>1. Significant(lines) \in Seq(SignificantLines)
  BY OldLines
<1>2. Made(op, Significant(lines), 0) = <<>>
  BY <1>1, MadeStep
<1>3. Content(Service(lines), <<>>) = <<>>
  BY WalkStart
<1>4. Service(lines).changes = 0
  BY DEF Service
<1>5. Tally(op, Significant(lines), 0, 0)
  BY <1>1, TallyStart
<1> QED BY <1>2, <1>3, <1>4, <1>5 DEF Moved

(* A turn that makes its piece brings it to the next line.                 *)
LEMMA MovedOn ==
  ASSUME NEW op \in Tasks, op.state \in Moving, NEW lines \in Seq(PamLines),
         NEW old, old = Significant(lines), NEW k \in 0..Len(old) - 1,
         NEW s, NEW w, Moved(op, lines, k, s, w), NEW t, NEW wt,
         Content(t, wt) = Content(s, w) \o Piece(op, old, k + 1),
         Counts(op, s.changes, t.changes, Piece(op, old, k + 1), old[k + 1])
  PROVE  Moved(op, lines, k + 1, t, wt)
<1>1. old \in Seq(SignificantLines)
  BY OldLines
<1>2. Made(op, old, k + 1) = Made(op, old, k) \o Piece(op, old, k + 1)
  BY <1>1, MadeStep
<1>3. Content(s, w) = Made(op, old, k) /\ Tally(op, old, k, s.changes)
  BY DEF Moved
<1>4. Tally(op, old, k + 1, t.changes)
  BY <1>1, <1>3, TallyStep
<1> QED BY <1>2, <1>3, <1>4 DEF Moved

(* What has come of the whole file.                                        *)
Result(op, lines, s) ==
  \E q \in Seq(Nodes(Len(lines))) :
    /\ Reached(s) = q
    /\ Content(s, q) = Made(op, Significant(lines), Len(Significant(lines)))
    /\ s.changes > 0 <=> Content(s, q) # Significant(lines)

(* insert_before never crashes and makes what it should.                   *)
LEMMA BeforeResult ==
  ASSUME NEW op \in Tasks, op.state = "before", NEW lines \in Seq(PamLines),
         NEW s, s = Edited(op, lines)
  PROVE  ~s.crashed /\ s \in Lists(Len(lines)) /\ Result(op, lines, s)
<1> DEFINE e == SignificantNodes(lines)
           old == Significant(lines)
           S(k) == Stage(op, lines, k)
           U == {k \in Nat : k <= Len(e) =>
                   \E w, pos : BeforeList(op, lines, k, S(k), w, pos) /\ Moved(op, lines, k, S(k), w)}
<1>0. Len(e) \in Nat /\ Len(old) = Len(e) /\ op.state \in Moving /\ old \in Seq(SignificantLines)
  BY WalkStart, OldLines DEF Moving
<1>1. 0 \in U
  <2>1. S(0) = Service(lines)
    BY Stages
  <2>2. PICK pos : Walk(Service(lines), lines, e, 0, <<>>, 1, pos)
    BY WalkStart
  <2>3. Grown(Service(lines), Len(lines), 0)
    BY WalkStart
  <2>4. BackLinks(Service(lines), lines, e, 0, <<>>)
    <3>1. \A j \in 1..Len(lines) : Service(lines).prev[j] = j - 1
      <4> DEFINE n == Len(lines)
      <4>1. n \in Nat
        OBVIOUS
      <4> HIDE DEF n
      <4>2. ASSUME NEW j \in 1..n PROVE (IF j \in 2..n THEN j - 1 ELSE 0) = j - 1 /\ j \in 1..2*n
        BY <4>1
      <4>3. \A j \in 1..2*n : Service(lines).prev[j] = IF j \in 2..n THEN j - 1 ELSE 0
        BY DEF Service, n, Nil
      <4> QED BY <4>2, <4>3 DEF n
    <3>2. \A j \in 0 + 1..Len(lines) : j \in 1..Len(lines)
      OBVIOUS
    <3> QED BY <3>1, <3>2 DEF BackLinks, At
  <2>5. BeforeList(op, lines, 0, Service(lines), <<>>, pos)
    <3>1. At(e, 0) + 1 = 1
      BY DEF At
    <3> QED BY <2>2, <2>3, <2>4, <3>1 DEF BeforeList
  <2>6. Moved(op, lines, 0, Service(lines), <<>>)
    BY <1>0, MovedStart
  <2> HIDE DEF e
  <2> QED BY <2>1, <2>5, <2>6
<1>2. ASSUME NEW k \in Nat, k \in U PROVE k + 1 \in U
  <2> SUFFICES ASSUME k + 1 <= Len(e)
               PROVE  \E w, pos : BeforeList(op, lines, k + 1, S(k + 1), w, pos)
                                  /\ Moved(op, lines, k + 1, S(k + 1), w)
    OBVIOUS
  <2>0. k \in 0..Len(e) - 1 /\ k <= Len(e) /\ k \in 0..Len(old) - 1
    BY <1>0
  <2>1. PICK w, pos : BeforeList(op, lines, k, S(k), w, pos) /\ Moved(op, lines, k, S(k), w)
    BY <1>2, <2>0
  <2> DEFINE sk == S(k)
             t == IF e[k + 1] \notin Targets(op, lines) THEN sk ELSE Turn(op, sk, e[k + 1])
  <2>2. ~sk.crashed
    BY <2>1 DEF BeforeList, Walk
  <2>3. S(k + 1) = t
    BY <2>0, <2>2, Stages
  <2>4. PICK wt, pt : /\ BeforeList(op, lines, k + 1, t, wt, pt)
                      /\ Content(t, wt) = Content(sk, w) \o Piece(op, old, k + 1)
                      /\ Counts(op, sk.changes, t.changes, Piece(op, old, k + 1), old[k + 1])
    <3> HIDE DEF S, old, e
    <3>1. BeforeList(op, lines, k, sk, w, pos) /\ e = SignificantNodes(lines) /\ old = Significant(lines)
      BY <2>1 DEF e, old
    <3>2. t = IF e[k + 1] \notin Targets(op, lines) THEN sk ELSE Turn(op, sk, e[k + 1])
      OBVIOUS
    <3> HIDE DEF t, sk
    <3>3. /\ op \in Tasks /\ op.state = "before" /\ lines \in Seq(PamLines) /\ k \in 0..Len(e) - 1
      BY <2>0
    <3>4. BeforeTurned(op, lines, old, k, sk, w, t)
      BY ONLY <3>1, <3>2, <3>3, BeforeTurn
    <3> QED BY <3>4 DEF BeforeTurned
  <2>5. Moved(op, lines, k + 1, t, wt)
    <3>1. Moved(op, lines, k, sk, w) /\ old = Significant(lines)
      BY <2>1
    <3> HIDE DEF S, old, e, t, sk
    <3> QED BY <1>0, <2>0, <2>4, <3>1, MovedOn
  <2> HIDE DEF S, t
  <2> QED BY <2>3, <2>4, <2>5
<1>3. Len(e) \in U
  <2> HIDE DEF U
  <2> QED BY <1>0, <1>1, <1>2, SetInduction
<1>4. S(Len(e)) = s
  BY Stages
<1>5. PICK w, pos : BeforeList(op, lines, Len(e), s, w, pos) /\ Moved(op, lines, Len(e), s, w)
  <2> HIDE DEF e, S
  <2> QED BY <1>0, <1>3, <1>4
<1>6. Walk(s, lines, e, Len(e), w, At(e, Len(e)) + 1, pos)
  BY <1>5 DEF BeforeList
<1>7. PICK q \in Seq(Nodes(Len(lines))) : Reached(s) = q /\ Content(s, q) = Content(s, w)
  BY <1>6, WalkEnd
<1>8. ~s.crashed /\ s \in Lists(Len(lines))
  BY <1>6 DEF Walk
<1>9. Content(s, w) = Made(op, old, Len(old)) /\ Tally(op, old, Len(old), s.changes)
  BY <1>0, <1>5 DEF Moved
<1>10. s.changes > 0 <=> Content(s, w) # old
  BY <1>0, <1>9, TallyEnd
<1> QED BY <1>7, <1>8, <1>9, <1>10 DEF Result

(* A new rule between the line i and the line p, with its four links.      *)
AfterLine(f, i, new, p) ==
  [f EXCEPT !.prev[p] = new, !.next[new] = p, !.prev[new] = i, !.next[i] = new]
(* A new rule behind the last line.                                        *)
AtEnd(f, z, i, new) ==
  [f EXCEPT !.prev[new] = z, !.next[z] = new, !.tail = new, !.next[i] = new]

(* One link back or forward.                                               *)
LEMMA LinkFields ==
  ASSUME NEW n \in Nat, NEW s \in Lists(n), NEW a \in Nodes(n), NEW b \in Links(n),
         NEW c \in Nodes(n), NEW d \in Links(n), NEW t, t = [s EXCEPT !.prev[c] = d, !.next[a] = b]
  PROVE  t \in Lists(n)
BY DEF Lists, Nodes, Links

(* The first of them changes these links and no other.                     *)
LEMMA LineAfter ==
  ASSUME NEW n \in Nat, NEW f \in Lists(n), NEW i \in Nodes(n), NEW new \in Nodes(n), NEW p \in Nodes(n),
         NEW t, t = AfterLine(f, i, new, p)
  PROVE  /\ t \in Lists(n) /\ t.next = [f.next EXCEPT ![new] = p, ![i] = new]
         /\ t.prev = [f.prev EXCEPT ![p] = new, ![new] = i]
         /\ t.head = f.head /\ t.tail = f.tail /\ t.line = f.line
         /\ t.fresh = f.fresh /\ t.changes = f.changes /\ t.crashed = f.crashed
<1>1. t.next = [f.next EXCEPT ![new] = p, ![i] = new]
  BY DEF Lists, Nodes, Links, AfterLine
<1>2. t.prev = [f.prev EXCEPT ![p] = new, ![new] = i]
  BY DEF Lists, Nodes, Links, AfterLine
<1>3. /\ t.head = f.head /\ t.tail = f.tail /\ t.line = f.line
      /\ t.fresh = f.fresh /\ t.changes = f.changes /\ t.crashed = f.crashed
  BY DEF Lists, AfterLine
<1>4. t \in Lists(n)
  <2> DEFINE u == [f EXCEPT !.prev[p] = new, !.next[new] = p]
  <2>1. new \in Links(n) /\ i \in Links(n) /\ p \in Links(n)
    BY FieldTypes
  <2>2. u \in Lists(n)
    BY <2>1, LinkFields
  <2>3. t = [u EXCEPT !.prev[new] = i, !.next[i] = new]
    BY DEF AfterLine
  <2> HIDE DEF u
  <2>4. new \in Nodes(n) /\ i \in Nodes(n) /\ n \in Nat
    OBVIOUS
  <2> QED BY ONLY <2>1, <2>2, <2>3, <2>4, LinkFields
<1> QED BY <1>1, <1>2, <1>3, <1>4

(* And so does the second.                                                 *)
LEMMA LineAtEnd ==
  ASSUME NEW n \in Nat, NEW f \in Lists(n), NEW i \in Nodes(n), NEW new \in Nodes(n), NEW z \in Nodes(n),
         NEW t, t = AtEnd(f, z, i, new)
  PROVE  /\ t \in Lists(n) /\ t.next = [f.next EXCEPT ![z] = new, ![i] = new]
         /\ t.prev = [f.prev EXCEPT ![new] = z]
         /\ t.head = f.head /\ t.tail = new /\ t.line = f.line
         /\ t.fresh = f.fresh /\ t.changes = f.changes /\ t.crashed = f.crashed
<1>1. t.next = [f.next EXCEPT ![z] = new, ![i] = new]
  BY DEF Lists, Nodes, Links, AtEnd
<1>2. t.prev = [f.prev EXCEPT ![new] = z]
  BY DEF Lists, Nodes, Links, AtEnd
<1>3. /\ t.head = f.head /\ t.tail = new /\ t.line = f.line
      /\ t.fresh = f.fresh /\ t.changes = f.changes /\ t.crashed = f.crashed
  BY DEF Lists, AtEnd
<1>4. t \in Lists(n)
  <2> DEFINE u == [f EXCEPT !.prev[new] = z, !.next[z] = new]
             v == [u EXCEPT !.tail = new]
  <2>1. new \in Links(n) /\ z \in Links(n)
    BY FieldTypes
  <2>2. u \in Lists(n)
    BY <2>1, LinkFields
  <2>3. t = [v EXCEPT !.next[i] = new]
    BY DEF AtEnd
  <2>4. v \in Lists(n)
    <3> HIDE DEF u
    <3> QED BY <2>1, <2>2, HeadField
  <2> HIDE DEF u, v
  <2> QED BY <2>1, <2>3, <2>4, NextField
<1> QED BY <1>1, <1>2, <1>3, <1>4

(* What a turn of insert_after that inserts does to the list.              *)
LEMMA AfterFields ==
  ASSUME NEW n \in Nat, NEW s \in Lists(n), NEW i \in 1..n, NEW p \in 0..n,
         PastComments(s, s.next, s.next[i]) = p, s.tail = n,
         NEW new, new = s.fresh, new \in Nodes(n), new > n, s.next[new] = Nil,
         NEW rule \in PamLines, NEW key, p = Nil \/ (p > i /\ ~Matches(s.line[p], key)),
         NEW t, t = InsertOneAfter(s, i, rule, key)
  PROVE  /\ t \in Lists(n) /\ t.crashed = s.crashed
         /\ t.line = [s.line EXCEPT ![new] = rule]
         /\ t.fresh = s.fresh + 1 /\ t.changes = s.changes + 1
         /\ t.next[new] = p /\ t.next[i] = new /\ t.head = s.head
         /\ \A j \in Nodes(n) : j # new /\ j # i /\ (j # n \/ p # Nil) => t.next[j] = s.next[j]
         /\ t.next[n] \in {s.next[n], new}
         /\ \A j \in Nodes(n) : j > new => t.prev[j] = s.prev[j]
         /\ p # Nil => t.tail = s.tail
<1> DEFINE f == Fresh(s, rule)
<1>1. /\ i \in Nodes(n) /\ n \in Nodes(n) /\ new # i /\ new # n
      /\ (p # Nil => p \in Nodes(n) /\ p # new /\ p # i)
  BY DEF Nodes, Nil
<1>2. t = IF p # Nil THEN AfterLine(f, i, new, p) ELSE AtEnd(f, n, i, new)
  <2> HIDE DEF f
  <2>1. CASE p # Nil
    BY <2>1 DEF InsertOneAfter, AfterLine, f
  <2>2. CASE p = Nil
    BY <2>2 DEF InsertOneAfter, AtEnd, f
  <2> QED BY <2>1, <2>2
<1>3. /\ f \in Lists(n) /\ f.crashed = s.crashed
      /\ f.line = [s.line EXCEPT ![new] = rule]
      /\ f.fresh = s.fresh + 1 /\ f.changes = s.changes + 1
      /\ f.next = s.next /\ f.prev = s.prev /\ f.head = s.head /\ f.tail = s.tail
  <2> HIDE DEF f
  <2> QED BY FreshFields DEF f
<1> HIDE DEF f
<1>4. s.next \in [Nodes(n) -> Links(n)] /\ s.prev \in [Nodes(n) -> Links(n)]
  BY FieldTypes
<1>5. CASE p # Nil
  <2>1. /\ n \in Nat /\ f \in Lists(n) /\ i \in Nodes(n) /\ new \in Nodes(n) /\ p \in Nodes(n)
        /\ t = AfterLine(f, i, new, p)
    BY <1>1, <1>2, <1>3, <1>5
  <2>2. /\ t \in Lists(n) /\ t.next = [f.next EXCEPT ![new] = p, ![i] = new]
        /\ t.prev = [f.prev EXCEPT ![p] = new, ![new] = i]
        /\ t.head = f.head /\ t.tail = f.tail /\ t.line = f.line
        /\ t.fresh = f.fresh /\ t.changes = f.changes /\ t.crashed = f.crashed
    BY ONLY <2>1, LineAfter, SMTT(30)
  <2>3. \A j \in Nodes(n) : j > new => j # new /\ j # p
    BY DEF Nodes
  <2> QED BY <1>1, <1>3, <1>4, <1>5, <2>2, <2>3
<1>6. CASE p = Nil
  <2>1. /\ n \in Nat /\ f \in Lists(n) /\ i \in Nodes(n) /\ new \in Nodes(n) /\ n \in Nodes(n)
        /\ t = AtEnd(f, n, i, new)
    BY <1>1, <1>2, <1>3, <1>6
  <2>2. /\ t \in Lists(n) /\ t.next = [f.next EXCEPT ![n] = new, ![i] = new]
        /\ t.prev = [f.prev EXCEPT ![new] = n]
        /\ t.head = f.head /\ t.tail = new /\ t.line = f.line
        /\ t.fresh = f.fresh /\ t.changes = f.changes /\ t.crashed = f.crashed
    BY ONLY <2>1, LineAtEnd
  <2>3. \A j \in Nodes(n) : j > new => j # new
    BY DEF Nodes
  <2> QED BY <1>1, <1>3, <1>4, <1>6, <2>2, <2>3
<1> QED BY <1>5, <1>6

(* The list of insert_after after the first k lines that are not skipped.  *)
AfterList(lines, k, s, w, g, pos) ==
  LET n == Len(lines)
      e == SignificantNodes(lines)
  IN  /\ Walk(s, lines, e, k, w, g, pos)
      /\ Grown(s, n, k)
      /\ \A j \in 1..n : Skipped(lines[j]) => s.next[j] = Nil \/ s.next[j] > j
      /\ k < Len(e) => s.tail = n
      /\ \A j \in 1..Len(w) : w[j] < s.fresh /\ (w[j] <= At(e, k) \/ w[j] > n)

(* The line i is the next that is not skipped.                             *)
Coming(lines, e, k, i) ==
  LET n == Len(lines)
      f == Ahead(e, k + 1, n)
  IN  /\ k \in 0..Len(e) /\ k < Len(e) /\ k \in Nat /\ Len(e) \in Nat /\ k + 1 \in 1..Len(e)
      /\ n \in Nat /\ n >= 1 /\ k < n /\ i \in 1..n /\ At(e, k + 1) = i /\ Ahead(e, k, n) = i
      /\ At(e, k) \in 0..n /\ At(e, k) < i
      /\ lines[i] \in SignificantLines /\ ~Skipped(lines[i])
      /\ f \in i + 1..n + 1
      /\ \A j \in i + 1..f - 1 : j \in 1..n /\ Skipped(lines[j])
      /\ f # n + 1 => k + 1 < Len(e) /\ ~Skipped(lines[f]) /\ e[(k + 1) + 1] = f
      /\ f = n + 1 => k + 1 = Len(e)

(* It holds of the line that comes next.                                   *)
LEMMA NextLine ==
  ASSUME NEW lines \in Seq(PamLines), NEW n, n = Len(lines),
         NEW e, e = SignificantNodes(lines), NEW k \in 0..Len(e) - 1, NEW i, i = e[k + 1]
  PROVE  Coming(lines, e, k, i)
<1>1. k \in 0..Len(e) /\ k < Len(e) /\ k \in Nat /\ Len(e) \in Nat /\ k + 1 \in 1..Len(e)
  <2>1. Len(e) \in Nat
    BY WalkStart
  <2> QED BY <2>1
<1>2. /\ n \in Nat /\ k < n /\ i \in 1..n /\ At(e, k + 1) = i /\ Ahead(e, k, n) = i
      /\ At(e, k) \in 0..n /\ i \in At(e, k) + 1..n + 1 /\ ~Skipped(lines[i])
  <2>1. /\ n \in Nat /\ k < n /\ Ahead(e, k, n) \in 1..n /\ At(e, k + 1) = Ahead(e, k, n)
        /\ e[k + 1] = Ahead(e, k, n)
        /\ At(e, k) \in 0..n /\ Ahead(e, k, n) \in At(e, k) + 1..n + 1
        /\ ~Skipped(lines[Ahead(e, k, n)])
    <3>1. Gap(lines, e, k)
      BY <1>1, GapHolds
    <3> QED BY <1>1, <3>1 DEF Gap
  <2> QED BY <2>1
<1>3. lines[i] \in SignificantLines
  <2>1. lines[i] \in PamLines
    BY <1>2
  <2> QED BY <1>2, <2>1, LineKinds
<1>4. At(e, k) < i /\ n >= 1
  BY <1>2
<1> DEFINE h == k + 1
           f == Ahead(e, h, n)
<1>5. h \in 0..Len(e) /\ At(e, h) = i
  BY <1>1, <1>2
<1> HIDE DEF h
<1>6. /\ f \in i + 1..n + 1
      /\ \A j \in i + 1..f - 1 : j \in 1..n /\ Skipped(lines[j])
      /\ h < Len(e) => f \in 1..n /\ ~Skipped(lines[f]) /\ e[h + 1] = f
      /\ h = Len(e) => f = n + 1
  <2>1. lines \in Seq(PamLines) /\ n = Len(lines) /\ e = SignificantNodes(lines) /\ h \in 0..Len(e)
    BY <1>5
  <2>0. Gap(lines, e, h)
    BY ONLY <2>1, GapHolds
  <2>2. Ahead(e, h, n) \in At(e, h) + 1..n + 1
    BY ONLY <2>0, <2>1 DEF Gap
  <2>3. \A j \in At(e, h) + 1..Ahead(e, h, n) - 1 : j \in 1..n /\ Skipped(lines[j])
    BY ONLY <2>0, <2>1 DEF Gap
  <2>4. h < Len(e) => Ahead(e, h, n) \in 1..n /\ ~Skipped(lines[Ahead(e, h, n)]) /\ e[h + 1] = Ahead(e, h, n)
    BY ONLY <2>0, <2>1 DEF Gap
  <2>5. h = Len(e) => Ahead(e, h, n) = n + 1
    BY ONLY <2>0, <2>1 DEF Gap
  <2> QED BY <1>5, <2>2, <2>3, <2>4, <2>5
<1>7. h < Len(e) \/ h = Len(e)
  BY <1>1, <1>5
<1>8. /\ f # n + 1 => h < Len(e) /\ ~Skipped(lines[f]) /\ e[h + 1] = f
      /\ f = n + 1 => h = Len(e)
  <2>1. f \in 1..n => f # n + 1
    BY <1>2
  <2> HIDE DEF f
  <2> QED BY <1>6, <1>7, <2>1
<1> HIDE DEF f
<1> QED BY <1>1, <1>2, <1>3, <1>4, <1>6, <1>8 DEF h, f, Coming

(* From a line, insert_after finds the next line that counts.              *)
LEMMA FoundAfter ==
  ASSUME NEW lines \in Seq(PamLines), NEW n, n = Len(lines),
         NEW e, e = SignificantNodes(lines), NEW k \in 0..Len(e) - 1,
         NEW s, NEW w, NEW g, NEW pos, AfterList(lines, k, s, w, g, pos), NEW i, i = e[k + 1],
         NEW f, f = Ahead(e, k + 1, n)
  PROVE  /\ PastComments(s, s.next, s.next[i]) = Onto(f, n)
         /\ s.fresh \in Nodes(n) /\ s.fresh > n /\ s.changes \in Nat /\ s.next[s.fresh] = Nil
         /\ s.tail = n
<1>1. /\ k < Len(e) /\ k \in Nat /\ n \in Nat /\ n >= 1 /\ k < n /\ i \in 1..n
      /\ Ahead(e, k, n) = i /\ ~Skipped(lines[i])
      /\ f \in i + 1..n + 1
      /\ \A j \in i + 1..f - 1 : j \in 1..n /\ Skipped(lines[j])
      /\ f # n + 1 => ~Skipped(lines[f])
  <2>1. Coming(lines, e, k, i)
    BY NextLine
  <2>2. Ahead(e, k + 1, n) = f
    OBVIOUS
  <2> QED BY <2>1, <2>2 DEF Coming
<1>2. /\ Walk(s, lines, e, k, w, g, pos) /\ Grown(s, n, k)
      /\ \A j \in 1..n : Skipped(lines[j]) => s.next[j] = Nil \/ s.next[j] > j
      /\ s.tail = n
  BY <1>1 DEF AfterList
<1>3. /\ s \in Lists(n) /\ \A j \in 1..n : s.line[j] = lines[j]
      /\ g \in At(e, k) + 1..i
      /\ \A j \in g..n : s.next[j] = Onto(j + 1, n)
  BY <1>1, <1>2 DEF Walk
<1>4. At(e, k) \in 0..n
  BY NextLine DEF Coming
<1>5. g \in Nat /\ g <= i /\ \A j \in i..n : s.next[j] = Onto(j + 1, n)
  <2>1. g \in Nat /\ g <= i
    BY <1>3, <1>4
  <2>2. \A j \in i..n : j \in g..n
    BY <1>1, <2>1
  <2> QED BY <1>3, <2>1, <2>2
<1> DEFINE m == 2*n
           h == i + 1
<1>6. /\ m \in Nat /\ Len(s.line) = m /\ s.next \in [1..m -> 0..m] /\ n \in 0..m
  <2>1. n \in Nat /\ s \in Lists(n)
    BY <1>1, <1>3
  <2>2. Len(s.line) = m
    BY ONLY <2>1, LinesLength
  <2>3. s.next \in [1..m -> 0..m]
    BY ONLY <2>1 DEF Lists
  <2> QED BY ONLY <2>1, <2>2, <2>3
<1>7. \A j \in 1..m : Skipped(s.line[j]) /\ s.next[j] # Nil => j < s.next[j]
  <2> SUFFICES ASSUME NEW j \in 1..m, Skipped(s.line[j]), s.next[j] # Nil PROVE j < s.next[j]
    OBVIOUS
  <2>1. CASE j \in 1..n
    BY <1>2, <1>3, <2>1
  <2>2. CASE j \notin 1..n
    <3>1. j \in Nodes(n) /\ j >= n + 1 /\ s.fresh \in Nat
      BY <1>1, <1>3, <2>2 DEF Nodes, Lists
    <3>2. j < s.fresh => j \in n + 1..s.fresh - 1
      BY <1>1, <3>1
    <3>3. j >= s.fresh
      BY <1>2, <3>1, <3>2 DEF Grown
    <3> QED BY <1>2, <3>1, <3>3 DEF Grown
  <2> QED BY <2>1, <2>2
<1>8. h \in 1..n + 1 /\ f \in h..n + 1
  BY <1>1
<1> DEFINE x == IF h = n + 1 THEN Nil ELSE h
           y == IF f = n + 1 THEN Nil ELSE f
<1>9. SkippedOn(s, s.next, n, h, f, x, y)
  <2>1. f = n + 1 \/ ~Skipped(s.line[f])
    <3>1. f # n + 1 => f \in 1..n
      BY <1>1
    <3> QED BY <1>1, <1>3, <3>1
  <2>2. \A j \in h..f - 1 : Skipped(s.line[j]) /\ s.next[j] = IF j = n THEN Nil ELSE j + 1
    <3> SUFFICES ASSUME NEW j \in h..f - 1
                 PROVE  Skipped(s.line[j]) /\ s.next[j] = IF j = n THEN Nil ELSE j + 1
      OBVIOUS
    <3>1. j \in 1..n /\ Skipped(lines[j]) /\ j \in i..n
      BY <1>1
    <3>2. s.next[j] = Onto(j + 1, n)
      BY <1>5, <3>1
    <3>3. Onto(j + 1, n) = IF j = n THEN Nil ELSE j + 1
      BY <1>1, <3>1 DEF Onto
    <3> QED BY <1>3, <3>1, <3>2, <3>3
  <2> QED BY <2>1, <2>2 DEF SkippedOn
<1>10. s.next[i] = IF h = n + 1 THEN Nil ELSE h
  <2>1. s.next[i] = Onto(i + 1, n)
    <3>1. i \in i..n
      BY <1>1
    <3> QED BY ONLY <1>5, <3>1
  <2>2. Onto(i + 1, n) = IF i + 1 = n + 1 THEN Nil ELSE i + 1
    BY <1>1 DEF Onto
  <2> QED BY <2>1, <2>2
<1>11. PastComments(s, s.next, x) = y
  <2> HIDE DEF m, h, x, y
  <2>1. /\ m \in Nat /\ Len(s.line) = m /\ s.next \in [1..m -> 0..m] /\ n \in 0..m
        /\ \A j \in 1..m : Skipped(s.line[j]) /\ s.next[j] # Nil => j < s.next[j]
        /\ h \in 1..n + 1 /\ f \in h..n + 1 /\ SkippedOn(s, s.next, n, h, f, x, y)
    BY <1>6, <1>7, <1>8, <1>9
  <2> QED BY ONLY <2>1, PastForward
<1>12. Onto(f, n) = IF f = n + 1 THEN Nil ELSE f
  <2>1. f \in i + 1..n + 1 /\ i \in 1..n /\ n \in Nat
    BY <1>1
  <2>2. f > n <=> f = n + 1
    BY ONLY <2>1
  <2> QED BY <2>2 DEF Onto
<1>13. s.fresh \in Nodes(n) /\ s.fresh > n /\ s.changes \in Nat
  <2>1. s.fresh = n + 1 + s.changes /\ s.changes <= k /\ s.changes \in Nat
    BY <1>2, <1>3 DEF Grown, Lists
  <2>2. n \in Nat /\ k \in Nat /\ k < n
    BY <1>1
  <2> QED BY ONLY <2>1, <2>2 DEF Nodes
<1>14. s.next[s.fresh] = Nil
  <2>1. s.fresh >= s.fresh
    BY <1>13 DEF Nodes
  <2> QED BY <1>2, <1>13, <2>1 DEF Grown
<1> HIDE DEF h
<1> QED BY <1>2, <1>10, <1>11, <1>12, <1>13, <1>14

(* The line i comes behind the part v, which is before it or new.          *)
Rises(s, n, i, v) ==
  /\ \A j \in 1..Len(v) : v[j] < s.fresh /\ (v[j] < i \/ v[j] > n)
  /\ Append(v, i) \in Seq(Nodes(n))
  /\ \A j \in 1..Len(Append(v, i)) : /\ Append(v, i)[j] < s.fresh
                                     /\ Append(v, i)[j] <= i \/ Append(v, i)[j] > n
  /\ Len(Append(v, i)) = Len(v) + 1 /\ Append(v, i)[Len(v) + 1] = i
  /\ \A j \in 1..Len(v) : Append(v, i)[j] = v[j]

(* The lines that are passed are in their order, and new ones between.     *)
LEMMA PartRises ==
  ASSUME NEW n \in Nat, NEW s, s.fresh \in Nat, s.fresh > n, NEW a \in 0..n, NEW i \in 1..n, a < i,
         NEW w \in Seq(Nodes(n)), NEW g \in a + 1..i, NEW v, Passed(s, n, w, g, i, v),
         \A j \in 1..Len(w) : w[j] < s.fresh /\ (w[j] <= a \/ w[j] > n)
  PROVE  Rises(s, n, i, v)
<1>1. v \in Seq(Nodes(n)) /\ i \in Nodes(n)
  BY DEF Passed, Nodes
<1>2. \A j \in 1..Len(v) : v[j] < s.fresh /\ (v[j] < i \/ v[j] > n)
  <2> SUFFICES ASSUME NEW j \in 1..Len(v) PROVE v[j] < s.fresh /\ (v[j] < i \/ v[j] > n)
    OBVIOUS
  <2>1. v[j] \in Nat /\ Len(w) \in Nat /\ j \in Nat /\ 1 <= j
    <3>1. v[j] \in Nodes(n)
      BY <1>1
    <3> QED BY <3>1 DEF Nodes
  <2>2. (j <= Len(w) /\ v[j] = w[j]) \/ v[j] \in g..i - 1
    BY DEF Passed
  <2>3. CASE j <= Len(w) /\ v[j] = w[j]
    <3>1. j \in 1..Len(w)
      BY <2>1, <2>3
    <3>2. v[j] < s.fresh /\ (v[j] <= a \/ v[j] > n)
      BY <2>3, <3>1
    <3> QED BY <2>1, <3>2
  <2>4. CASE v[j] \in g..i - 1
    BY <2>1, <2>4
  <2> QED BY <2>2, <2>3, <2>4
<1> DEFINE S == Nodes(n)
           u == Append(v, i)
<1>3. v \in Seq(S) /\ i \in S
  BY <1>1
<1> HIDE DEF S
<1>4. /\ u \in Seq(S) /\ Len(u) = Len(v) + 1 /\ u[Len(v) + 1] = i /\ Len(v) \in Nat
      /\ \A j \in 1..Len(v) : u[j] = v[j]
  BY <1>3, AppendProperties
<1> HIDE DEF u
<1>5. ASSUME NEW j \in 1..Len(u) PROVE u[j] < s.fresh /\ (u[j] <= i \/ u[j] > n)
  <2>1. CASE j = Len(v) + 1
    BY <1>4, <2>1
  <2>2. CASE j # Len(v) + 1
    <3>1. j \in 1..Len(v) /\ u[j] = v[j]
      BY <1>4, <2>2
    <3>2. v[j] \in Nodes(n)
      BY <1>1, <3>1
    <3>3. v[j] \in Nat
      BY <3>2 DEF Nodes
    <3> QED BY <1>2, <3>1, <3>3
  <2> QED BY <2>1, <2>2
<1> QED BY <1>2, <1>4, <1>5 DEF u, S, Rises

(* One more line is passed, without a new one.                             *)
LEMMA GrownOn ==
  ASSUME NEW n \in Nat, NEW s, s.changes \in Nat, NEW k \in Nat, Grown(s, n, k)
  PROVE  Grown(s, n, k + 1)
<1>1. s.changes <= k + 1
  BY DEF Grown
<1> QED BY <1>1 DEF Grown

(* What insert_after comes to at the next line: nothing changed.           *)
AfterPart(lines, k, s, w, g, i, v) ==
  LET n == Len(lines)
  IN  /\ Passed(s, n, w, g, i, v)
      /\ Rises(s, n, i, v)
      /\ Content(s, Append(v, i)) = Content(s, w) \o <<lines[i]>>
      /\ Content(s, Append(v, i)) \in Seq(SignificantLines)

(* A line where nothing is inserted is passed.                             *)
LEMMA AfterPassed ==
  ASSUME NEW lines \in Seq(PamLines), NEW e, e = SignificantNodes(lines), NEW k \in 0..Len(e) - 1,
         NEW s, NEW w, NEW g, NEW pos, AfterList(lines, k, s, w, g, pos), NEW i, i = e[k + 1],
         NEW v, v = w \o Between(g, i - 1)
  PROVE  /\ AfterPart(lines, k, s, w, g, i, v)
         /\ AfterList(lines, k + 1, s, Append(v, i), i + 1, pos)
<1> DEFINE n == Len(lines)
           a == At(e, k)
           u == Append(v, i)
<1>0. Coming(lines, e, k, i)
  BY NextLine
<1>1. /\ Walk(s, lines, e, k, w, g, pos) /\ Grown(s, n, k)
      /\ \A j \in 1..n : Skipped(lines[j]) => s.next[j] = Nil \/ s.next[j] > j
      /\ s.tail = n
      /\ \A j \in 1..Len(w) : w[j] < s.fresh /\ (w[j] <= a \/ w[j] > n)
  BY <1>0 DEF AfterList, Coming
<1>2. s.fresh \in Nat /\ s.fresh > n /\ s.changes \in Nat
  <2>1. s.fresh \in Nodes(n) /\ s.fresh > n /\ s.changes \in Nat
    <3>1. n = Len(lines) /\ e = SignificantNodes(lines) /\ k \in 0..Len(e) - 1 /\ i = e[k + 1]
          /\ AfterList(lines, k, s, w, g, pos)
      OBVIOUS
    <3> HIDE DEF n
    <3> QED BY <3>1, FoundAfter
  <2> QED BY <2>1 DEF Nodes
<1>3. /\ Passed(s, n, w, g, i, v)
      /\ Walk(s, lines, e, k + 1, u, i + 1, pos)
      /\ Taken(s, lines, w, i, v)
  <2>1. /\ v = w \o Between(g, i - 1) /\ Walk(s, lines, e, k, w, g, pos) /\ n = Len(lines)
        /\ k \in 0..Len(e) - 1 /\ i = e[k + 1] /\ e = SignificantNodes(lines)
    BY <1>1
  <2> HIDE DEF n, u
  <2>2. Passed(s, n, w, g, i, v)
    BY ONLY <2>1, lines \in Seq(PamLines), WalkOn
  <2>3. Walk(s, lines, e, k + 1, Append(v, i), i + 1, pos)
    BY ONLY <2>1, lines \in Seq(PamLines), WalkOn
  <2>4. Taken(s, lines, w, i, v)
    BY ONLY <2>1, lines \in Seq(PamLines), WalkOn
  <2> QED BY <2>2, <2>3, <2>4 DEF u
<1>4. n \in Nat /\ a \in 0..n /\ i \in 1..n /\ a < i /\ w \in Seq(Nodes(n)) /\ g \in a + 1..i
      /\ At(e, k + 1) = i /\ k \in Nat /\ lines[i] \in SignificantLines
  BY <1>0, <1>1 DEF Coming, Walk
<1>5. Rises(s, n, i, v)
  <2>1. n \in Nat /\ s.fresh \in Nat /\ s.fresh > n /\ a \in 0..n /\ i \in 1..n /\ a < i
        /\ w \in Seq(Nodes(n)) /\ g \in a + 1..i /\ Passed(s, n, w, g, i, v)
        /\ \A j \in 1..Len(w) : w[j] < s.fresh /\ (w[j] <= a \/ w[j] > n)
    BY <1>1, <1>2, <1>3, <1>4
  <2> HIDE DEF n, a
  <2>2. Rises(s, n, i, v)
    BY ONLY <2>1, PartRises
  <2> QED BY <2>2
<1>6. /\ Content(s, u) = Content(s, w) \o <<lines[i]>>
      /\ Content(s, u) \in Seq(SignificantLines)
  <2> DEFINE c == Content(s, w)
             L == SignificantLines
             y == lines[i]
  <2>1. c \in Seq(L) /\ y \in L /\ Content(s, u) = Append(c, y)
    BY <1>3, <1>4 DEF Passed, Taken
  <2> HIDE DEF c, L, y, u
  <2>2. Append(c, y) = c \o <<y>> /\ Append(c, y) \in Seq(L)
    BY <2>1
  <2> QED BY <2>1, <2>2 DEF c, y, L
<1>7. AfterPart(lines, k, s, w, g, i, v)
  BY <1>3, <1>5, <1>6 DEF AfterPart
<1>8. Grown(s, n, k + 1)
  <2> HIDE DEF n
  <2> QED BY <1>1, <1>2, <1>4, GrownOn
<1>9. AfterList(lines, k + 1, s, u, i + 1, pos)
  <2>1. \A j \in 1..Len(u) : u[j] < s.fresh /\ (u[j] <= i \/ u[j] > n)
    BY <1>5 DEF Rises
  <2> HIDE DEF u
  <2> QED BY <1>1, <1>3, <1>4, <2>1, <1>8 DEF AfterList
<1> QED BY <1>7, <1>9

(* The list t after a turn that has inserted the rule behind the line i.   *)
RuleAfter(op, lines, k, s, w, t, i, f) ==
  \E wt, pt : /\ AfterList(lines, k + 1, t, wt, f, pt)
              /\ Content(t, wt) = Content(s, w) \o <<lines[i], NewRule(op)>>
              /\ t.changes = s.changes + 1 /\ s.changes \in Nat

(* A turn of insert_after that inserts takes the walk on, with the rule    *)
(* behind its line.                                                        *)
LEMMA AfterInsertion ==
  ASSUME NEW op \in Tasks, op.state = "after", NEW lines \in Seq(PamLines),
         NEW e, e = SignificantNodes(lines), NEW k \in 0..Len(e) - 1,
         NEW s, NEW w, NEW g, NEW pos, AfterList(lines, k, s, w, g, pos), NEW i, i = e[k + 1],
         NEW f, f = Ahead(e, k + 1, Len(lines)),
         f = Len(lines) + 1 \/ ~Matches(lines[f], op.new),
         NEW t, t = InsertOneAfter(s, i, NewRule(op), op.new)
  PROVE  RuleAfter(op, lines, k, s, w, t, i, f)
<1> DEFINE n == Len(lines)
           h == k + 1
           v == w \o Between(g, i - 1)
           u == Append(v, i)
           rule == NewRule(op)
           new == s.fresh
           p == Onto(f, n)
<1>1. /\ n \in Nat /\ n >= 1 /\ i \in 1..n /\ At(e, h) = i /\ Ahead(e, h, n) = f /\ h \in Nat /\ k \in Nat
      /\ f \in i + 1..n + 1 /\ ~Skipped(lines[i]) /\ lines[i] \in SignificantLines
      /\ (f = n + 1 => h = Len(e)) /\ Len(e) \in Nat
  <2>1. Coming(lines, e, k, i)
    BY NextLine
  <2> QED BY <2>1 DEF Coming
<1>2. /\ PastComments(s, s.next, s.next[i]) = p
      /\ new \in Nodes(n) /\ new > n /\ s.changes \in Nat /\ s.next[new] = Nil /\ s.tail = n
  <2>1. lines \in Seq(PamLines) /\ n = Len(lines) /\ e = SignificantNodes(lines) /\ k \in 0..Len(e) - 1
        /\ AfterList(lines, k, s, w, g, pos) /\ i = e[k + 1] /\ f = Ahead(e, k + 1, n)
    OBVIOUS
  <2> HIDE DEF n
  <2>2. PastComments(s, s.next, s.next[i]) = Onto(f, n)
    BY ONLY <2>1, FoundAfter
  <2>3. s.fresh \in Nodes(n) /\ s.fresh > n /\ s.changes \in Nat /\ s.next[s.fresh] = Nil /\ s.tail = n
    BY ONLY <2>1, FoundAfter
  <2> QED BY <2>2, <2>3 DEF new, p
<1>3. AfterPart(lines, k, s, w, g, i, v) /\ AfterList(lines, h, s, u, i + 1, pos)
  <2>1. v = w \o Between(g, i - 1)
    OBVIOUS
  <2> HIDE DEF v
  <2> QED BY <2>1, AfterPassed
<1>4. Rises(s, n, i, v) /\ v \in Seq(Nodes(n)) /\ Len(v) \in Nat
      /\ Content(s, u) = Content(s, w) \o <<lines[i]>> /\ Content(s, w) \in Seq(SignificantLines)
  <2>1. Passed(s, n, w, g, i, v)
    BY <1>3 DEF AfterPart
  <2>2. v \in Seq(Nodes(n)) /\ Content(s, w) \in Seq(SignificantLines)
    BY <2>1 DEF Passed
  <2>3. Len(v) \in Nat
    <3> HIDE DEF v
    <3> QED BY <2>2
  <2> QED BY <1>3, <2>2, <2>3 DEF AfterPart
<1> HIDE DEF v
<1>5. /\ Len(u) = Len(v) + 1 /\ u \in Seq(Nodes(n)) /\ u[Len(u)] = i /\ u # <<>>
      /\ \A j \in 1..Len(u) - 1 : u[j] = v[j] /\ j \in 1..Len(v)
      /\ \A j \in 1..Len(u) : u[j] < new /\ (u[j] <= i \/ u[j] > n) /\ u[j] \in Nat
  <2>1. /\ u \in Seq(Nodes(n)) /\ Len(u) = Len(v) + 1 /\ u[Len(v) + 1] = i
        /\ \A j \in 1..Len(v) : u[j] = v[j]
        /\ \A j \in 1..Len(u) : u[j] < new /\ (u[j] <= i \/ u[j] > n)
    BY <1>4 DEF Rises
  <2> HIDE DEF u
  <2>2. \A j \in 1..Len(u) : u[j] \in Nodes(n)
    BY <2>1
  <2>3. \A j \in 1..Len(u) - 1 : j \in 1..Len(v)
    BY <1>4, <2>1
  <2>4. u # <<>>
    BY <1>4, <2>1
  <2> QED BY <2>1, <2>2, <2>3, <2>4 DEF Nodes
<1>6. /\ Walk(s, lines, e, h, u, i + 1, pos) /\ Grown(s, n, k)
      /\ \A j \in 1..n : Skipped(lines[j]) => s.next[j] = Nil \/ s.next[j] > j
  BY <1>3 DEF AfterList
<1> HIDE DEF u
<1>7. /\ s \in Lists(n) /\ ~s.crashed /\ Leads(s, u, Onto(i + 1, n))
      /\ \A j \in i + 1..n : s.next[j] = Onto(j + 1, n)
      /\ \A j \in 1..n : s.line[j] = lines[j]
      /\ Forward(s, 2*n, pos) /\ Pos(n, pos)
  BY <1>6 DEF Walk
<1>8. rule \in PamLines /\ rule \in SignificantLines
  BY InsertedRule
<1>9. p \in 0..n /\ (p = Nil <=> f = n + 1) /\ (p # Nil => p = f /\ p > i)
  BY <1>1 DEF Onto, Nil
<1>10. /\ t \in Lists(n) /\ t.crashed = s.crashed
       /\ t.line = [s.line EXCEPT ![new] = rule]
       /\ t.fresh = s.fresh + 1 /\ t.changes = s.changes + 1
       /\ t.next[new] = p /\ t.next[i] = new /\ t.head = s.head
       /\ \A j \in Nodes(n) : j # new /\ j # i /\ (j # n \/ p # Nil) => t.next[j] = s.next[j]
       /\ t.next[n] \in {s.next[n], new}
       /\ \A j \in Nodes(n) : j > new => t.prev[j] = s.prev[j]
       /\ p # Nil => t.tail = s.tail
  <2>1. p = Nil \/ (p > i /\ ~Matches(s.line[p], op.new))
    <3>1. CASE f = n + 1
      BY <1>9, <3>1
    <3>2. CASE f # n + 1
      <4>1. f \in 1..n /\ p = f /\ p > i /\ ~Matches(lines[f], op.new)
        BY <1>1, <1>9, <3>2
      <4> QED BY <1>7, <4>1
    <3> QED BY <3>1, <3>2
  <2>2. /\ n \in Nat /\ s \in Lists(n) /\ i \in 1..n /\ p \in 0..n
        /\ PastComments(s, s.next, s.next[i]) = p /\ s.tail = n
        /\ new = s.fresh /\ new \in Nodes(n) /\ new > n /\ s.next[new] = Nil
        /\ rule \in PamLines /\ t = InsertOneAfter(s, i, rule, op.new)
    BY <1>1, <1>2, <1>7, <1>8, <1>9
  <2> HIDE DEF n, new, rule, p
  <2> QED BY ONLY <2>1, <2>2, AfterFields
<1> HIDE DEF p
<1>11. Adds(s, t, n, u, f, new, rule)
  <2>1. ~t.crashed /\ new = s.fresh /\ new \in Nodes(n) /\ t.next[new] = Onto(f, n)
    BY <1>2, <1>7, <1>10 DEF p
  <2>2. \A j \in Nodes(n) \ {new} : t.next[j] = s.next[j] \/ (j \in 1..n /\ j < f /\ t.next[j] = new)
    <3> SUFFICES ASSUME NEW j \in Nodes(n), j # new, t.next[j] # s.next[j]
                 PROVE  j \in 1..n /\ j < f /\ t.next[j] = new
      OBVIOUS
    <3>1. j = i \/ (j = n /\ p = Nil)
      BY <1>10
    <3>2. CASE j = i
      BY <1>1, <1>10, <3>2
    <3>3. CASE j = n /\ p = Nil
      <4>1. f = n + 1 /\ t.next[j] = new
        BY <1>9, <1>10, <3>3
      <4> QED BY <1>1, <3>3, <4>1
    <3> QED BY <3>1, <3>2, <3>3
  <2>3. \A j \in 1..Len(u) : u[j] # new
    <3>1. new \in Nat
      BY <1>2 DEF Nodes
    <3> HIDE DEF new
    <3> QED BY <1>5, <3>1
  <2>4. t.next[u[Len(u)]] = new
    BY <1>5, <1>10
  <2>5. \A j \in 1..Len(u) - 1 : t.next[u[j]] = s.next[u[j]]
    <3> SUFFICES ASSUME NEW j \in 1..Len(u) - 1 PROVE t.next[u[j]] = s.next[u[j]]
      OBVIOUS
    <3>1. u[j] = v[j] /\ j \in 1..Len(v)
      BY <1>5
    <3>2. v[j] < new /\ (v[j] < i \/ v[j] > n)
      BY <1>4, <3>1 DEF Rises
    <3>3. v[j] \in Nodes(n)
      BY <1>4, <3>1
    <3>4. v[j] \in Nat /\ new \in Nat
      BY <1>2, <3>3 DEF Nodes
    <3>5. v[j] # new /\ v[j] # i /\ v[j] # n
      <4> HIDE DEF new
      <4>1. i \in Nat /\ n \in Nat /\ i <= n
        BY <1>1
      <4>2. v[j] # n
        BY <1>1, <3>2, <3>4
      <4> QED BY ONLY <3>2, <3>4, <4>1, <4>2
    <3> QED BY <1>10, <3>1, <3>3, <3>5
  <2> HIDE DEF rule
  <2> QED BY <1>5, <1>10, <2>1, <2>2, <2>3, <2>4, <2>5 DEF Adds
<1>12. Untouched(s, lines, f, pos)
  <2>1. \A j \in f..n : j \in i + 1..n
    BY <1>1
  <2> QED BY <1>7, <2>1 DEF Untouched
<1> DEFINE x == Append(u, new)
<1>13. /\ x \in Seq(Nodes(n))
       /\ \E q : Walk(t, lines, e, h, x, f, q)
       /\ Grown(t, n, k + 1)
       /\ Content(t, x) = Append(Content(s, u), rule)
  <2> DEFINE y == Onto(i + 1, n)
  <2>1. /\ lines \in Seq(PamLines) /\ n = Len(lines) /\ h \in Nat /\ s \in Lists(n) /\ t \in Lists(n)
        /\ u \in Seq(Nodes(n)) /\ f \in 1..n + 1 /\ rule \in SignificantLines /\ k \in Nat
        /\ Untouched(s, lines, f, pos) /\ Grown(s, n, k) /\ Leads(s, u, y)
        /\ f \in At(e, h) + 1..Ahead(e, h, n) /\ Adds(s, t, n, u, f, new, rule)
    BY <1>1, <1>5, <1>6, <1>7, <1>8, <1>10, <1>11, <1>12
  <2> HIDE DEF n, h, rule, new, y
  <2> QED BY ONLY <2>1, Insertion DEF x
<1>14. PICK q : Walk(t, lines, e, h, x, f, q)
  BY <1>13
<1>15. \A j \in 1..n : Skipped(lines[j]) => t.next[j] = Nil \/ t.next[j] > j
  <2> SUFFICES ASSUME NEW j \in 1..n, Skipped(lines[j]) PROVE t.next[j] = Nil \/ t.next[j] > j
    OBVIOUS
  <2>1. j \in Nodes(n) /\ j # new /\ j # i
    BY <1>1, <1>2 DEF Nodes
  <2>2. CASE t.next[j] = s.next[j]
    BY <1>6, <2>2
  <2>3. CASE t.next[j] # s.next[j]
    <3>1. j = n /\ t.next[j] = new
      BY <1>10, <2>1, <2>3
    <3> QED BY <1>2, <3>1
  <2> QED BY <2>2, <2>3
<1>16. h < Len(e) => t.tail = n
  <2>1. h < Len(e) => f # n + 1
    <3>1. h \in Nat /\ Len(e) \in Nat
      BY <1>1
    <3> HIDE DEF h, n
    <3> QED BY <1>1, <3>1
  <2> QED BY <1>2, <1>9, <1>10, <2>1
<1>17. \A j \in 1..Len(x) : x[j] < t.fresh /\ (x[j] <= At(e, h) \/ x[j] > n)
  <2> DEFINE S == Nodes(n)
  <2>1. u \in Seq(S) /\ new \in S
    BY <1>2, <1>5
  <2>2. new \in Nat /\ t.fresh = new + 1
    BY <1>2, <1>10 DEF Nodes
  <2> HIDE DEF S, new
  <2>3. Len(x) = Len(u) + 1 /\ Len(u) \in Nat /\ \A j \in 1..Len(u) + 1 : x[j] = IF j = Len(u) + 1 THEN new ELSE u[j]
    BY <2>1
  <2> HIDE DEF x
  <2> SUFFICES ASSUME NEW j \in 1..Len(x) PROVE x[j] < t.fresh /\ (x[j] <= i \/ x[j] > n)
    BY <1>1
  <2>4. CASE j = Len(u) + 1
    BY <1>2, <2>2, <2>3, <2>4
  <2>5. CASE j # Len(u) + 1
    <3>1. j \in 1..Len(u) /\ x[j] = u[j]
      BY <2>3, <2>5
    <3> QED BY <1>5, <2>2, <3>1
  <2> QED BY <2>4, <2>5
<1>18. AfterList(lines, h, t, x, f, q)
  <2>1. Grown(t, n, h)
    BY <1>13
  <2> HIDE DEF h, x
  <2> QED BY <1>14, <1>15, <1>16, <1>17, <2>1 DEF AfterList
<1>19. Content(t, x) = Content(s, w) \o <<lines[i], rule>>
  <2> DEFINE c == Content(s, w)
             y == lines[i]
             S == SignificantLines
  <2>1. c \in Seq(S) /\ rule \in S /\ y \in S
    BY <1>1, <1>4, <1>8
  <2>2. Content(t, x) = Append(c \o <<y>>, rule)
    BY <1>4, <1>13
  <2> HIDE DEF c, y, rule, S, x
  <2>3. Append(c \o <<y>>, rule) = c \o <<y, rule>>
    <3> DEFINE a == <<y>>
               b == <<rule>>
    <3>1. a \in Seq(S) /\ b \in Seq(S) /\ c \o a \in Seq(S)
      BY <2>1
    <3>2. a \o b = <<y, rule>>
      BY ONLY <2>1, Pair
    <3>3. Append(c \o a, rule) = (c \o a) \o b
      BY <2>1, <3>1, AppendIsConcat
    <3> HIDE DEF a, b
    <3>4. (c \o a) \o b = c \o (a \o b)
      BY ONLY <2>1, <3>1, ConcatAssociative, SMTT(30)
    <3> QED BY <3>2, <3>3, <3>4 DEF a
  <2> QED BY <2>2, <2>3 DEF c, y
<1> HIDE DEF x
<1> QED BY <1>2, <1>10, <1>18, <1>19 DEF RuleAfter

(* The list t after a turn at the next line: its piece is behind the rest, *)
(* and counted.                                                            *)
AfterTurned(op, lines, old, k, s, w, t) ==
  \E wt, gt, pt : /\ AfterList(lines, k + 1, t, wt, gt, pt)
                  /\ Content(t, wt) = Content(s, w) \o Piece(op, old, k + 1)
                  /\ Counts(op, s.changes, t.changes, Piece(op, old, k + 1), old[k + 1])

(* A turn of insert_after, at a line that matches or not.                  *)
LEMMA AfterTurn ==
  ASSUME NEW op \in Tasks, op.state = "after", NEW lines \in Seq(PamLines),
         NEW e, e = SignificantNodes(lines), NEW old, old = Significant(lines),
         NEW k \in 0..Len(e) - 1, NEW s, NEW w, NEW g, NEW pos, AfterList(lines, k, s, w, g, pos),
         NEW i, i = e[k + 1],
         NEW t, t = IF i \notin Targets(op, lines) THEN s ELSE Turn(op, s, i)
  PROVE  AfterTurned(op, lines, old, k, s, w, t)
<1> DEFINE n == Len(lines)
           h == k + 1
           rule == NewRule(op)
           f == Ahead(e, h, n)
           p == Onto(f, n)
<1>1. /\ n \in Nat /\ i \in 1..n /\ h \in 1..Len(e) /\ Len(e) \in Nat /\ f \in i + 1..n + 1
      /\ f # n + 1 => h < Len(e) /\ e[h + 1] = f
      /\ f = n + 1 => h = Len(e)
  <2>1. Coming(lines, e, k, i)
    BY NextLine
  <2> QED BY <2>1 DEF Coming
<1>2. PastComments(s, s.next, s.next[i]) = p /\ s.changes \in Nat
  <2>1. lines \in Seq(PamLines) /\ n = Len(lines) /\ e = SignificantNodes(lines) /\ k \in 0..Len(e) - 1
        /\ AfterList(lines, k, s, w, g, pos) /\ i = e[k + 1] /\ f = Ahead(e, k + 1, n)
    OBVIOUS
  <2> HIDE DEF n, f
  <2>2. PastComments(s, s.next, s.next[i]) = Onto(f, n)
    BY ONLY <2>1, FoundAfter
  <2>3. s.changes \in Nat
    BY ONLY <2>1, FoundAfter
  <2> QED BY <2>2, <2>3 DEF p
<1>3. Len(old) = Len(e) /\ old \in Seq(SignificantLines) /\ \A j \in 1..Len(e) : old[j] = lines[e[j]]
  BY OldLines
<1>4. old[h] = lines[i] /\ DOMAIN old = 1..Len(e)
  BY <1>1, <1>3
<1>5. (h + 1 \in DOMAIN old /\ Matches(old[h + 1], op.new)) <=> (f # n + 1 /\ Matches(lines[f], op.new))
  <2>1. CASE f = n + 1
    <3>1. h = Len(e)
      BY <1>1, <2>1
    <3>2. h + 1 \notin 1..Len(e)
      <4> HIDE DEF h
      <4> QED BY <1>1, <3>1
    <3> QED BY <1>4, <2>1, <3>2
  <2>2. CASE f # n + 1
    <3>1. h < Len(e) /\ e[h + 1] = f
      BY <1>1, <2>2
    <3> HIDE DEF f, n, h
    <3>2. h + 1 \in 1..Len(e)
      BY <1>1, <3>1
    <3>3. old[h + 1] = lines[f]
      BY <1>3, <3>1, <3>2
    <3> QED BY <1>4, <2>2, <3>2, <3>3
  <2> QED BY <2>1, <2>2
<1>6. Piece(op, old, h) =
        IF ~Matches(lines[i], op.key) \/ (f # n + 1 /\ Matches(lines[f], op.new))
        THEN <<lines[i]>> ELSE <<lines[i], rule>>
  <2> HIDE DEF f, n, h
  <2> QED BY <1>4, <1>5 DEF Piece
<1>7. i \in Targets(op, lines) <=> Matches(lines[i], op.key)
  BY <1>1 DEF Targets
<1>8. Turn(op, s, i) = InsertOneAfter(s, i, rule, op.new)
  BY TurnOf
<1>9. CASE i \notin Targets(op, lines) \/ (f # n + 1 /\ Matches(lines[f], op.new))
  <2>1. t = s
    <3>1. CASE i \notin Targets(op, lines)
      BY <3>1
    <3>2. CASE i \in Targets(op, lines) /\ f # n + 1 /\ Matches(lines[f], op.new)
      <4>1. \A j \in 1..n : s.line[j] = lines[j]
        BY DEF AfterList, Walk
      <4>2. p = f /\ f \in 1..n /\ f # Nil
        <5> HIDE DEF f, n
        <5> QED BY <1>1, <3>2 DEF p, Onto, Nil
      <4>3. s.line[f] = lines[f]
        BY <4>1, <4>2
      <4>4. /\ PastComments(s, s.next, s.next[i]) # Nil
            /\ Matches(s.line[PastComments(s, s.next, s.next[i])], op.new)
        BY <1>2, <3>2, <4>2, <4>3
      <4>5. InsertOneAfter(s, i, rule, op.new) = s
        <5> HIDE DEF rule
        <5> QED BY <4>4 DEF InsertOneAfter
      <4> QED BY <1>8, <3>2, <4>5
    <3> QED BY <1>9, <3>1, <3>2
  <2>2. Piece(op, old, h) = <<lines[i]>>
    BY <1>6, <1>7, <1>9
  <2> DEFINE v == w \o Between(g, i - 1)
             u == Append(v, i)
  <2>3. AfterPart(lines, k, s, w, g, i, v) /\ AfterList(lines, k + 1, s, u, i + 1, pos)
    <3>1. v = w \o Between(g, i - 1)
      OBVIOUS
    <3> HIDE DEF v
    <3> QED BY <3>1, AfterPassed
  <2>4. Content(s, u) = Content(s, w) \o <<lines[i]>>
    BY <2>3 DEF AfterPart
  <2>5. Counts(op, s.changes, t.changes, Piece(op, old, h), old[h])
    BY <1>2, <1>4, <2>1, <2>2 DEF Counts
  <2> HIDE DEF u
  <2> QED BY <2>1, <2>2, <2>3, <2>4, <2>5 DEF AfterTurned
<1>10. CASE i \in Targets(op, lines) /\ (f = n + 1 \/ ~Matches(lines[f], op.new))
  <2>1. t = InsertOneAfter(s, i, rule, op.new)
    BY <1>8, <1>10
  <2>2. Piece(op, old, h) = <<lines[i], rule>>
    BY <1>6, <1>7, <1>10
  <2>3. RuleAfter(op, lines, k, s, w, t, i, f)
    <3>1. /\ op \in Tasks /\ op.state = "after" /\ lines \in Seq(PamLines)
          /\ e = SignificantNodes(lines) /\ k \in 0..Len(e) - 1
          /\ AfterList(lines, k, s, w, g, pos) /\ i = e[k + 1]
          /\ f = Ahead(e, k + 1, Len(lines))
          /\ f = Len(lines) + 1 \/ ~Matches(lines[f], op.new)
          /\ t = InsertOneAfter(s, i, NewRule(op), op.new)
      BY <1>10, <2>1
    <3> HIDE DEF f
    <3> QED BY ONLY <3>1, AfterInsertion
  <2>4. PICK wt, pt : /\ AfterList(lines, k + 1, t, wt, f, pt)
                      /\ Content(t, wt) = Content(s, w) \o <<lines[i], rule>>
                      /\ t.changes = s.changes + 1 /\ s.changes \in Nat
    BY <2>3 DEF RuleAfter
  <2>5. Counts(op, s.changes, t.changes, Piece(op, old, h), old[h])
    <3>1. Len(<<lines[i], rule>>) = 2 /\ op.state # "absent"
      OBVIOUS
    <3> HIDE DEF rule
    <3> QED BY <2>2, <2>4, <3>1 DEF Counts
  <2> HIDE DEF f
  <2> QED BY <2>2, <2>4, <2>5 DEF AfterTurned
<1> QED BY <1>9, <1>10

(* The list that is read is one that insert_after has not begun with.      *)
LEMMA AfterStart ==
  ASSUME NEW lines \in Seq(PamLines)
  PROVE  \E pos : AfterList(lines, 0, Service(lines), <<>>, 1, pos)
<1> DEFINE n == Len(lines)
           e == SignificantNodes(lines)
           s == Service(lines)
<1>1. PICK pos : Walk(s, lines, e, 0, <<>>, 1, pos)
  BY WalkStart
<1>2. Grown(s, n, 0)
  BY WalkStart
<1>3. \A j \in 1..n : s.next[j] = Nil \/ s.next[j] > j
  <2>0. n \in Nat
    OBVIOUS
  <2>1. \A j \in 1..2*n : s.next[j] = IF j < n THEN j + 1 ELSE Nil
    BY DEF Service
  <2> HIDE DEF n, s
  <2>2. \A j \in 1..n : j \in 1..2*n
    BY <2>0
  <2> QED BY <2>1, <2>2
<1>4. s.tail = n
  BY DEF Service
<1>5. AfterList(lines, 0, s, <<>>, 1, pos)
  <2>1. \A j \in 1..Len(<<>>) : FALSE
    OBVIOUS
  <2> HIDE DEF s
  <2> QED BY <1>1, <1>2, <1>3, <1>4, <2>1 DEF AfterList
<1> QED BY <1>5

(* insert_after never crashes and makes what it should.                    *)
LEMMA AfterResult ==
  ASSUME NEW op \in Tasks, op.state = "after", NEW lines \in Seq(PamLines),
         NEW s, s = Edited(op, lines)
  PROVE  ~s.crashed /\ s \in Lists(Len(lines)) /\ Result(op, lines, s)
<1> DEFINE e == SignificantNodes(lines)
           old == Significant(lines)
           S(k) == Stage(op, lines, k)
           U == {k \in Nat : k <= Len(e) =>
                   \E w, g, pos : AfterList(lines, k, S(k), w, g, pos) /\ Moved(op, lines, k, S(k), w)}
<1>0. Len(e) \in Nat /\ Len(old) = Len(e) /\ op.state \in Moving /\ old \in Seq(SignificantLines)
  BY WalkStart, OldLines DEF Moving
<1>1. 0 \in U
  <2>1. S(0) = Service(lines)
    BY Stages
  <2>2. PICK pos : AfterList(lines, 0, Service(lines), <<>>, 1, pos)
    BY AfterStart
  <2>3. Moved(op, lines, 0, Service(lines), <<>>)
    BY <1>0, MovedStart
  <2> HIDE DEF e
  <2> QED BY <2>1, <2>2, <2>3
<1>2. ASSUME NEW k \in Nat, k \in U PROVE k + 1 \in U
  <2> SUFFICES ASSUME k + 1 <= Len(e)
               PROVE  \E w, g, pos : AfterList(lines, k + 1, S(k + 1), w, g, pos)
                                     /\ Moved(op, lines, k + 1, S(k + 1), w)
    OBVIOUS
  <2>0. k \in 0..Len(e) - 1 /\ k <= Len(e) /\ k \in 0..Len(old) - 1
    BY <1>0
  <2>1. PICK w, g, pos : AfterList(lines, k, S(k), w, g, pos) /\ Moved(op, lines, k, S(k), w)
    BY <1>2, <2>0
  <2> DEFINE sk == S(k)
             t == IF e[k + 1] \notin Targets(op, lines) THEN sk ELSE Turn(op, sk, e[k + 1])
  <2>2. ~sk.crashed
    BY <2>1 DEF AfterList, Walk
  <2>3. S(k + 1) = t
    BY <2>0, <2>2, Stages
  <2>4. PICK wt, gt, pt : /\ AfterList(lines, k + 1, t, wt, gt, pt)
                          /\ Content(t, wt) = Content(sk, w) \o Piece(op, old, k + 1)
                          /\ Counts(op, sk.changes, t.changes, Piece(op, old, k + 1), old[k + 1])
    <3> HIDE DEF S, old, e
    <3>1. AfterList(lines, k, sk, w, g, pos) /\ e = SignificantNodes(lines) /\ old = Significant(lines)
      BY <2>1 DEF e, old
    <3>2. t = IF e[k + 1] \notin Targets(op, lines) THEN sk ELSE Turn(op, sk, e[k + 1])
      OBVIOUS
    <3> HIDE DEF t, sk
    <3>3. /\ op \in Tasks /\ op.state = "after" /\ lines \in Seq(PamLines) /\ k \in 0..Len(e) - 1
      BY <2>0
    <3>4. AfterTurned(op, lines, old, k, sk, w, t)
      BY ONLY <3>1, <3>2, <3>3, AfterTurn
    <3> QED BY <3>4 DEF AfterTurned
  <2>5. Moved(op, lines, k + 1, t, wt)
    <3>1. Moved(op, lines, k, sk, w) /\ old = Significant(lines)
      BY <2>1
    <3> HIDE DEF S, old, e, t, sk
    <3> QED BY <1>0, <2>0, <2>4, <3>1, MovedOn
  <2> HIDE DEF S, t
  <2> QED BY <2>3, <2>4, <2>5
<1>3. Len(e) \in U
  <2> HIDE DEF U
  <2> QED BY <1>0, <1>1, <1>2, SetInduction
<1>4. S(Len(e)) = s
  BY Stages
<1>5. PICK w, g, pos : AfterList(lines, Len(e), s, w, g, pos) /\ Moved(op, lines, Len(e), s, w)
  <2> HIDE DEF e, S
  <2> QED BY <1>0, <1>3, <1>4
<1>6. Walk(s, lines, e, Len(e), w, g, pos)
  BY <1>5 DEF AfterList
<1>7. PICK q \in Seq(Nodes(Len(lines))) : Reached(s) = q /\ Content(s, q) = Content(s, w)
  BY <1>6, WalkEnd
<1>8. ~s.crashed /\ s \in Lists(Len(lines))
  BY <1>6 DEF Walk
<1>9. Content(s, w) = Made(op, old, Len(old)) /\ Tally(op, old, Len(old), s.changes)
  BY <1>0, <1>5 DEF Moved
<1>10. s.changes > 0 <=> Content(s, w) # old
  BY <1>0, <1>9, TallyEnd
<1> QED BY <1>7, <1>8, <1>9, <1>10 DEF Result

(* The lines up to i that are left, in their order.                        *)
Untaken(v, n, i) ==
  /\ v \in Seq(Nodes(n))
  /\ \A j \in 1..Len(v) : v[j] \in 1..i
  /\ \A j, l \in 1..Len(v) : j < l => v[j] < v[l]

(* The last node of a part.                                                *)
LastOf(w) == IF w = <<>> THEN Nil ELSE w[Len(w)]

(* The list of remove after the first k lines that are not skipped.        *)
AbsentList(lines, k, s, w, pos) ==
  LET n == Len(lines)
      e == SignificantNodes(lines)
      a == At(e, k)
  IN  /\ Walk(s, lines, e, k, w, a + 1, pos)
      /\ Untaken(w, n, a)
      /\ \A j \in a + 1..n : s.prev[j] = IF j = a + 1 THEN LastOf(w) ELSE j - 1

(* A link to the node before.                                              *)
LEMMA PrevField ==
  ASSUME NEW n \in Nat, NEW s \in Lists(n), NEW x \in Nodes(n), NEW y \in Links(n)
  PROVE  [s EXCEPT !.prev[x] = y] \in Lists(n)
BY DEF Lists, Nodes, Links

(* What a turn of remove does to the list, unless it crashes.              *)
LEMMA RemoveFields ==
  ASSUME NEW n \in Nat, NEW s \in Lists(n), NEW i \in Nodes(n),
         NEW p, p = s.prev[i], NEW q, q = s.next[i], p # Nil \/ q # Nil,
         NEW t, t = RemoveOne(s, i)
  PROVE  /\ t \in Lists(n) /\ t.crashed = s.crashed /\ t.line = s.line /\ t.changes = s.changes + 1
         /\ t.head = IF p = Nil THEN q ELSE s.head
         /\ \A j \in Nodes(n) : t.next[j] = IF p # Nil /\ j = p THEN q ELSE s.next[j]
         /\ \A j \in Nodes(n) : t.prev[j] = IF q # Nil /\ j = q THEN p ELSE s.prev[j]
<1> DEFINE c == s.changes + 1
           u == [s EXCEPT !.changes = c]
<1>1. /\ s.next \in [Nodes(n) -> Links(n)] /\ s.prev \in [Nodes(n) -> Links(n)]
      /\ p \in Links(n) /\ q \in Links(n) /\ c \in Nat /\ Nil \in Links(n)
      /\ (p # Nil => p \in Nodes(n)) /\ (q # Nil => q \in Nodes(n))
  <2>1. /\ s.next \in [Nodes(n) -> Links(n)] /\ s.prev \in [Nodes(n) -> Links(n)] /\ c \in Nat
    BY FieldTypes
  <2>2. \A x \in Links(n) : x # Nil => x \in Nodes(n)
    BY DEF Links, Nodes, Nil
  <2>3. Nil \in Links(n)
    BY DEF Links, Nil
  <2>4. p \in Links(n) /\ q \in Links(n)
    BY <2>1
  <2> QED BY <2>1, <2>2, <2>3, <2>4
<1>2. /\ u \in Lists(n) /\ u.crashed = s.crashed /\ u.line = s.line /\ u.changes = c
      /\ u.head = s.head /\ u.next = s.next /\ u.prev = s.prev
  <2>1. u \in Lists(n)
    <3> HIDE DEF c, u
    <3> QED BY <1>1, CountField DEF u
  <2> HIDE DEF c
  <2>2. /\ u.crashed = s.crashed /\ u.line = s.line /\ u.changes = c
        /\ u.head = s.head /\ u.next = s.next /\ u.prev = s.prev
    BY DEF Lists
  <2> QED BY <2>1, <2>2
<1>3. t = IF p = Nil THEN [u EXCEPT !.head = q, !.prev[q] = Nil]
          ELSE IF q = Nil THEN [u EXCEPT !.next[p] = Nil]
          ELSE Linking(u, p, q, q, p)
  BY DEF RemoveOne, Linking
<1> HIDE DEF u, c
<1>4. CASE p = Nil
  <2>1. t = [u EXCEPT !.head = q, !.prev[q] = Nil] /\ q \in Nodes(n)
    BY <1>1, <1>3, <1>4
  <2>2. t \in Lists(n)
    <3> DEFINE v == [u EXCEPT !.head = q]
    <3>1. v \in Lists(n)
      BY <1>1, <1>2, HeadField
    <3>2. t = [v EXCEPT !.prev[q] = Nil]
      BY <2>1
    <3>3. n \in Nat /\ q \in Nodes(n) /\ Nil \in Links(n)
      BY <1>1, <2>1
    <3> HIDE DEF v
    <3> QED BY ONLY <3>1, <3>2, <3>3, PrevField
  <2>3. /\ t.crashed = u.crashed /\ t.line = u.line /\ t.changes = u.changes
        /\ t.head = q /\ t.next = u.next /\ t.prev = [u.prev EXCEPT ![q] = Nil]
    BY <1>1, <1>2, <2>1 DEF Lists
  <2>4. \A j \in Nodes(n) : t.prev[j] = IF j = q THEN Nil ELSE s.prev[j]
    BY <1>1, <1>2, <2>3
  <2> QED BY <1>2, <1>4, <2>1, <2>2, <2>3, <2>4 DEF c
<1>5. CASE p # Nil /\ q = Nil
  <2>1. t = [u EXCEPT !.next[p] = Nil] /\ p \in Nodes(n)
    BY <1>1, <1>3, <1>5
  <2>2. t \in Lists(n)
    BY <1>1, <1>2, <2>1, NextField
  <2>3. /\ t.crashed = u.crashed /\ t.line = u.line /\ t.changes = u.changes
        /\ t.head = u.head /\ t.prev = u.prev /\ t.next = [u.next EXCEPT ![p] = Nil]
    BY <1>1, <1>2, <2>1 DEF Lists
  <2>4. \A j \in Nodes(n) : t.next[j] = IF j = p THEN Nil ELSE s.next[j]
    BY <1>1, <1>2, <2>3
  <2> QED BY <1>2, <1>5, <2>1, <2>2, <2>3, <2>4 DEF c
<1>6. CASE p # Nil /\ q # Nil
  <2>1. /\ n \in Nat /\ u \in Lists(n) /\ p \in Nodes(n) /\ q \in Links(n) /\ q \in Nodes(n) /\ p \in Links(n)
        /\ t = Linking(u, p, q, q, p)
    BY <1>1, <1>2, <1>3, <1>6
  <2>2. /\ t \in Lists(n) /\ t.next = [u.next EXCEPT ![p] = q] /\ t.prev = [u.prev EXCEPT ![q] = p]
        /\ t.head = u.head /\ t.line = u.line
        /\ t.changes = u.changes /\ t.crashed = u.crashed
    BY ONLY <2>1, TwoLinks
  <2>3. \A j \in Nodes(n) : t.next[j] = IF j = p THEN q ELSE s.next[j]
    BY <1>1, <1>2, <2>2
  <2>4. \A j \in Nodes(n) : t.prev[j] = IF j = q THEN p ELSE s.prev[j]
    BY <1>1, <1>2, <2>2
  <2> QED BY <1>2, <1>6, <2>2, <2>3, <2>4 DEF c
<1> QED BY <1>4, <1>5, <1>6

(* The line i is kept behind the part v.                                   *)
KeptTo(v, w, n, g, i) ==
  /\ Untaken(v, n, i - 1)
  /\ LastOf(v) = IF i = g THEN LastOf(w) ELSE i - 1

(* The lines that are passed are kept in their order.                      *)
LEMMA KeptPassed ==
  ASSUME NEW n \in Nat, NEW s, NEW a \in 0..n, NEW i \in a + 1..n, NEW w, Untaken(w, n, a),
         NEW g, g = a + 1, NEW v, v = w \o Between(g, i - 1), Passed(s, n, w, g, i, v)
  PROVE  KeptTo(v, w, n, g, i)
<1> DEFINE h == i - 1
<1>1. /\ v \in Seq(Nodes(n)) /\ w \in Seq(Nodes(n)) /\ Len(v) = Len(w) + (i - (a + 1))
      /\ \A j \in 1..Len(v) : (j <= Len(w) /\ v[j] = w[j])
                              \/ (j > Len(w) /\ v[j] = a + 1 + (j - Len(w)) - 1 /\ v[j] \in a + 1..i - 1)
      /\ \A j \in 1..Len(w) : w[j] \in 1..a
      /\ \A j, l \in 1..Len(w) : j < l => w[j] < w[l]
  BY DEF Passed, Untaken
<1>2. Len(w) \in Nat /\ Len(v) \in Nat
  BY <1>1
<1>3. \A j \in 1..Len(v) : /\ j <= Len(w) => j \in 1..Len(w) /\ v[j] = w[j] /\ v[j] \in 1..a
                           /\ j > Len(w) => v[j] = a + (j - Len(w)) /\ v[j] \in a + 1..i - 1
  <2> SUFFICES ASSUME NEW j \in 1..Len(v)
               PROVE  /\ j <= Len(w) => j \in 1..Len(w) /\ v[j] = w[j] /\ v[j] \in 1..a
                      /\ j > Len(w) => v[j] = a + (j - Len(w)) /\ v[j] \in a + 1..i - 1
    OBVIOUS
  <2>1. (j <= Len(w) /\ v[j] = w[j])
        \/ (j > Len(w) /\ v[j] = a + 1 + (j - Len(w)) - 1 /\ v[j] \in a + 1..i - 1)
    BY <1>1
  <2>2. a + 1 + (j - Len(w)) - 1 = a + (j - Len(w))
    BY <1>2
  <2>3. j <= Len(w) => j \in 1..Len(w)
    BY <1>2
  <2>4. j <= Len(w) => ~(j > Len(w))
    BY <1>2
  <2> QED BY <1>1, <2>1, <2>2, <2>3, <2>4
<1>4. \A j \in 1..Len(v) : v[j] \in 1..h
  <2> SUFFICES ASSUME NEW j \in 1..Len(v) PROVE v[j] \in 1..h
    OBVIOUS
  <2>1. v[j] \in 1..a \/ v[j] \in a + 1..i - 1
    BY <1>2, <1>3
  <2> QED BY <2>1
<1>5. \A j, l \in 1..Len(v) : j < l => v[j] < v[l]
  <2> SUFFICES ASSUME NEW j \in 1..Len(v), NEW l \in 1..Len(v), j < l PROVE v[j] < v[l]
    OBVIOUS
  <2>1. CASE l <= Len(w)
    <3>1. j \in 1..Len(w) /\ l \in 1..Len(w) /\ v[j] = w[j] /\ v[l] = w[l]
      BY <1>2, <1>3, <2>1
    <3> QED BY <1>1, <3>1
  <2>2. CASE l > Len(w) /\ j <= Len(w)
    <3>1. v[j] \in 1..a /\ v[l] \in a + 1..i - 1
      BY <1>3, <2>2
    <3> QED BY <3>1
  <2>3. CASE j > Len(w)
    <3>1. l > Len(w)
      BY <1>2, <2>3
    <3>2. v[j] = a + (j - Len(w)) /\ v[l] = a + (l - Len(w))
      BY <1>3, <2>3, <3>1
    <3> QED BY <1>2, <3>2
  <2> QED BY <1>2, <2>1, <2>2, <2>3
<1>6. Untaken(v, n, h)
  BY <1>1, <1>4, <1>5 DEF Untaken
<1>7. CASE i = a + 1
  <2>1. Between(a + 1, i - 1) = <<>>
    BY <1>7 DEF Between
  <2> DEFINE S == Nodes(n)
  <2>2. w \in Seq(S)
    BY <1>1
  <2> HIDE DEF S
  <2>3. v = w
    BY <2>1, <2>2
  <2> QED BY <1>6, <1>7, <2>3 DEF KeptTo
<1>8. CASE i # a + 1
  <2>1. Len(v) > Len(w) /\ Len(v) \in 1..Len(v) /\ Len(v) - Len(w) = i - (a + 1)
    BY <1>1, <1>2, <1>8
  <2>2. v[Len(v)] = a + (Len(v) - Len(w))
    BY <1>3, <2>1
  <2>3. v[Len(v)] = i - 1
    <3>1. v[Len(v)] = a + (i - (a + 1))
      BY <2>1, <2>2
    <3>2. a + (i - (a + 1)) = i - 1
      OBVIOUS
    <3> QED BY <3>1, <3>2
  <2>4. v # <<>>
    BY <1>2, <2>1
  <2> QED BY <1>6, <1>8, <2>3, <2>4 DEF LastOf, KeptTo
<1> QED BY <1>7, <1>8

(* A line that is not removed is passed.                                   *)
LEMMA KeptOn ==
  ASSUME NEW n \in Nat, NEW i \in 1..n, NEW v, Untaken(v, n, i - 1)
  PROVE  Untaken(Append(v, i), n, i) /\ LastOf(Append(v, i)) = i /\ Untaken(v, n, i)
<1> DEFINE u == Append(v, i)
           S == Nodes(n)
<1>1. v \in Seq(S) /\ i \in S
  BY DEF Untaken, Nodes
<1>2. /\ \A j \in 1..Len(v) : v[j] \in 1..i - 1
      /\ \A j, l \in 1..Len(v) : j < l => v[j] < v[l]
  BY DEF Untaken
<1> HIDE DEF S
<1>3. /\ u \in Seq(S) /\ Len(u) = Len(v) + 1 /\ Len(v) \in Nat /\ u # <<>>
      /\ \A j \in 1..Len(v) + 1 : u[j] = IF j = Len(v) + 1 THEN i ELSE v[j]
  <2>1. /\ u \in Seq(S) /\ Len(u) = Len(v) + 1 /\ Len(v) \in Nat /\ u[Len(v) + 1] = i
        /\ \A j \in 1..Len(v) : u[j] = v[j]
    BY <1>1, AppendProperties
  <2> HIDE DEF u
  <2>2. u # <<>>
    BY <2>1
  <2>3. \A j \in 1..Len(v) + 1 : u[j] = IF j = Len(v) + 1 THEN i ELSE v[j]
    BY <2>1
  <2> QED BY <2>1, <2>2, <2>3
<1> HIDE DEF u
<1>4. \A j \in 1..Len(u) : u[j] \in 1..i
  <2> SUFFICES ASSUME NEW j \in 1..Len(u) PROVE u[j] \in 1..i
    OBVIOUS
  <2>1. CASE j = Len(v) + 1
    BY <1>3, <2>1
  <2>2. CASE j # Len(v) + 1
    <3>1. j \in 1..Len(v) /\ u[j] = v[j]
      BY <1>3, <2>2
    <3>2. v[j] \in 1..i - 1
      BY <1>2, <3>1
    <3> QED BY <3>1, <3>2
  <2> QED BY <2>1, <2>2
<1>5. \A j, l \in 1..Len(u) : j < l => u[j] < u[l]
  <2> SUFFICES ASSUME NEW j \in 1..Len(u), NEW l \in 1..Len(u), j < l PROVE u[j] < u[l]
    OBVIOUS
  <2>1. j \in 1..Len(v) /\ u[j] = v[j]
    BY <1>3
  <2>2. CASE l = Len(v) + 1
    <3>1. v[j] \in 1..i - 1 /\ u[l] = i
      BY <1>2, <1>3, <2>1, <2>2
    <3> QED BY <2>1, <3>1
  <2>3. CASE l # Len(v) + 1
    <3>1. l \in 1..Len(v) /\ u[l] = v[l]
      BY <1>3, <2>3
    <3> QED BY <1>2, <2>1, <3>1
  <2> QED BY <2>2, <2>3
<1>6. u[Len(u)] = i
  BY <1>3
<1>7. \A j \in 1..Len(v) : v[j] \in 1..i
  <2>1. \A x \in 1..i - 1 : x \in 1..i
    OBVIOUS
  <2> QED BY <1>2, <2>1
<1> QED BY <1>1, <1>2, <1>3, <1>4, <1>5, <1>6, <1>7 DEF Untaken, LastOf, u, S

(* The last of the lines that are left leads over the line i.              *)
Unlinks(s, t, n, v, i) ==
  LET p == LastOf(v)
      q == Onto(i + 1, n)
  IN  /\ t \in Lists(n) /\ t.crashed = s.crashed /\ t.line = s.line /\ t.changes = s.changes + 1
      /\ t.head = IF p = Nil THEN q ELSE s.head
      /\ \A j \in Nodes(n) : t.next[j] = IF p # Nil /\ j = p THEN q ELSE s.next[j]
      /\ \A j \in Nodes(n) : t.prev[j] = IF q # Nil /\ j = q THEN p ELSE s.prev[j]

(* The list with the line i unlinked, which stood behind v.                *)
Without(t, lines, e, k, v, i, pos) ==
  /\ Walk(t, lines, e, k, v, i + 1, pos)
  /\ \A j \in i + 1..Len(lines) : t.prev[j] = IF j = i + 1 THEN LastOf(v) ELSE j - 1

(* Unlinking the line keeps the walk going.                                *)
LEMMA Removal ==
  ASSUME NEW lines \in Seq(PamLines), NEW n, n = Len(lines), NEW e, NEW k \in Nat,
         NEW s \in Lists(n), ~s.crashed, NEW i \in 1..n, i = At(e, k), Ahead(e, k, n) \in i + 1..n + 1,
         NEW v, Untaken(v, n, i - 1), Leads(s, v, i), NEW pos, Untouched(s, lines, i, pos),
         \A j \in i + 1..n : s.prev[j] = j - 1,
         NEW t, Unlinks(s, t, n, v, i)
  PROVE  Without(t, lines, e, k, v, i, pos)
<1> DEFINE p == LastOf(v)
           q == Onto(i + 1, n)
<1>1. /\ t \in Lists(n) /\ t.crashed = s.crashed /\ t.line = s.line /\ t.changes = s.changes + 1
      /\ t.head = IF p = Nil THEN q ELSE s.head
      /\ \A j \in Nodes(n) : t.next[j] = IF p # Nil /\ j = p THEN q ELSE s.next[j]
      /\ \A j \in Nodes(n) : t.prev[j] = IF q # Nil /\ j = q THEN p ELSE s.prev[j]
  BY DEF Unlinks
<1>2. /\ v \in Seq(Nodes(n)) /\ n \in Nat
      /\ \A j \in 1..Len(v) : v[j] \in 1..i - 1
      /\ \A j, l \in 1..Len(v) : j < l => v[j] < v[l]
  BY DEF Untaken
<1>3. Len(v) \in Nat /\ (v # <<>> => Len(v) \in 1..Len(v))
  BY <1>2
<1>4. /\ v = <<>> => p = Nil
      /\ v # <<>> => p = v[Len(v)] /\ p \in 1..i - 1 /\ p # Nil
  BY <1>2, <1>3 DEF LastOf, Nil
<1>5. (p # Nil => p \in 1..i - 1) /\ p \in Nat
  BY <1>4 DEF Nil
<1> HIDE DEF p
<1>6. /\ \A j \in 1..n : s.line[j] = lines[j]
      /\ Forward(s, 2*n, pos) /\ Pos(n, pos)
      /\ \A j \in i..n : s.next[j] = Onto(j + 1, n)
  BY DEF Untouched
<1>7. \A j \in 1..n : j \in Nodes(n)
  BY <1>2 DEF Nodes
<1>8. Leads(t, v, q)
  <2>1. v = <<>> => t.head = q
    BY <1>1, <1>4
  <2>2. v # <<>> => /\ t.head = s.head
                    /\ t.next[v[Len(v)]] = q
                    /\ \A j \in 1..Len(v) - 1 : t.next[v[j]] = s.next[v[j]]
    <3> HAVE v # <<>>
    <3>1. p = v[Len(v)] /\ p \in 1..i - 1 /\ p # Nil /\ p \in Nodes(n)
      BY <1>2, <1>4, <1>7
    <3>2. ASSUME NEW j \in 1..Len(v) - 1 PROVE v[j] # p /\ v[j] \in Nodes(n)
      <4>1. j \in 1..Len(v) /\ Len(v) \in 1..Len(v) /\ j < Len(v)
        BY <1>3
      <4>2. v[j] < v[Len(v)] /\ v[j] \in 1..i - 1
        BY <1>2, <4>1
      <4>3. v[j] \in 1..n
        BY <1>2, <4>2
      <4> QED BY <1>7, <3>1, <4>2, <4>3
    <3> HIDE DEF q
    <3> QED BY <1>1, <3>1, <3>2
  <2> DEFINE S == Nodes(n)
  <2>3. v \in Seq(S)
    BY <1>2
  <2> HIDE DEF q, S
  <2> QED BY ONLY <2>1, <2>2, <2>3, Leads(s, v, i), Redirected
<1>9. \A j \in i + 1..n : t.next[j] = Onto(j + 1, n)
  <2> SUFFICES ASSUME NEW j \in i + 1..n PROVE t.next[j] = Onto(j + 1, n)
    OBVIOUS
  <2>1. j \in 1..n /\ j \in i..n /\ j # p
    BY <1>2, <1>5 DEF Nil
  <2> QED BY <1>1, <1>6, <1>7, <2>1
<1>10. Forward(t, 2*n, pos)
  <2> DEFINE m == 2*n
  <2>1. /\ pos \in [1..m -> 0..m + 1]
        /\ \A j \in 1..m : s.next[j] # Nil => pos[j] < pos[s.next[j]]
    BY <1>6 DEF Forward
  <2>2. ASSUME NEW j \in 1..m, t.next[j] # Nil PROVE pos[j] < pos[t.next[j]]
    <3>1. j \in Nodes(n)
      BY DEF Nodes
    <3>2. CASE p # Nil /\ j = p
      <4>1. t.next[j] = q
        BY <1>1, <3>1, <3>2
      <4>2. q = i + 1 /\ i + 1 \in 1..n
        BY <1>2, <2>2, <4>1 DEF Onto
      <4>3. p \in 1..n /\ p < i + 1
        BY <1>2, <1>5, <3>2
      <4>4. pos[p] = 2*p /\ pos[i + 1] = 2*(i + 1)
        BY <1>6, <4>2, <4>3 DEF Pos
      <4>5. 2*p < 2*(i + 1)
        BY <4>3
      <4> HIDE DEF q, m
      <4> QED BY <3>2, <4>1, <4>2, <4>4, <4>5
    <3>3. CASE ~(p # Nil /\ j = p)
      <4>1. t.next[j] = s.next[j]
        BY <1>1, <3>1, <3>3
      <4> QED BY <2>1, <2>2, <4>1
    <3> QED BY <3>2, <3>3
  <2> HIDE DEF m
  <2>3. Forward(t, m, pos)
    BY <2>1, <2>2 DEF Forward
  <2> QED BY <2>3 DEF m
<1>11. Walk(t, lines, e, k, v, i + 1, pos)
  <2>1. i + 1 \in At(e, k) + 1..Ahead(e, k, n)
    BY <1>2
  <2>2. \A j \in 1..n : t.line[j] = lines[j]
    BY <1>1, <1>6
  <2> QED BY <1>1, <1>2, <1>6, <1>8, <1>9, <1>10, <2>1, <2>2 DEF Walk
<1>12. ASSUME NEW j \in i + 1..n PROVE t.prev[j] = IF j = i + 1 THEN p ELSE j - 1
  <2>1. j \in 1..n /\ j \in Nodes(n)
    BY <1>2, <1>7
  <2>2. q = i + 1 /\ q # Nil
    BY <1>2 DEF Onto, Nil
  <2>3. s.prev[j] = j - 1
    OBVIOUS
  <2> HIDE DEF q
  <2> QED BY <1>1, <2>1, <2>2, <2>3
<1> QED BY <1>11, <1>12 DEF Without, p

(* The list t after a turn at the next line: its piece is behind the rest, *)
(* and counted.                                                            *)
AbsentTurned(op, lines, old, k, s, w, t) ==
  \E wt, pt : /\ AbsentList(lines, k + 1, t, wt, pt)
              /\ Content(t, wt) = Content(s, w) \o Piece(op, old, k + 1)
              /\ Counts(op, s.changes, t.changes, Piece(op, old, k + 1), old[k + 1])

(* A turn of remove crashes, or has removed its line.                      *)
LEMMA AbsentTurn ==
  ASSUME NEW op \in Tasks, op.state = "absent", NEW lines \in Seq(PamLines),
         NEW e, e = SignificantNodes(lines), NEW old, old = Significant(lines),
         NEW k \in 0..Len(e) - 1, NEW s, NEW w, NEW pos, AbsentList(lines, k, s, w, pos),
         NEW i, i = e[k + 1],
         NEW t, t = IF i \notin Targets(op, lines) THEN s ELSE Turn(op, s, i)
  PROVE  t.crashed \/ AbsentTurned(op, lines, old, k, s, w, t)
<1> DEFINE n == Len(lines)
           h == k + 1
           a == At(e, k)
           g == a + 1
           v == w \o Between(g, i - 1)
           u == Append(v, i)
<1>1. /\ n \in Nat /\ i \in 1..n /\ h \in 1..Len(e) /\ h \in Nat /\ Len(e) \in Nat /\ a \in 0..n /\ i \in a + 1..n
      /\ At(e, h) = i /\ Ahead(e, h, n) \in i + 1..n + 1 /\ lines[i] \in SignificantLines
  <2>1. Coming(lines, e, k, i)
    BY NextLine
  <2> QED BY <2>1 DEF Coming
<1>2. /\ Walk(s, lines, e, k, w, g, pos) /\ Untaken(w, n, a)
      /\ \A j \in a + 1..n : s.prev[j] = IF j = a + 1 THEN LastOf(w) ELSE j - 1
  BY DEF AbsentList
<1>3. /\ Passed(s, n, w, g, i, v)
      /\ Walk(s, lines, e, h, u, i + 1, pos)
      /\ Taken(s, lines, w, i, v)
  <2>1. /\ v = w \o Between(g, i - 1) /\ Walk(s, lines, e, k, w, g, pos) /\ n = Len(lines)
        /\ k \in 0..Len(e) - 1 /\ i = e[k + 1] /\ e = SignificantNodes(lines)
    BY <1>2
  <2> HIDE DEF n, u, v, g
  <2>2. Passed(s, n, w, g, i, v)
    BY ONLY <2>1, lines \in Seq(PamLines), WalkOn
  <2>3. Walk(s, lines, e, k + 1, Append(v, i), i + 1, pos)
    BY ONLY <2>1, lines \in Seq(PamLines), WalkOn
  <2>4. Taken(s, lines, w, i, v)
    BY ONLY <2>1, lines \in Seq(PamLines), WalkOn
  <2> QED BY <2>2, <2>3, <2>4 DEF u
<1>4. /\ Untaken(v, n, i - 1) /\ LastOf(v) = (IF i = a + 1 THEN LastOf(w) ELSE i - 1)
  <2>1. /\ n \in Nat /\ a \in 0..n /\ i \in a + 1..n /\ Untaken(w, n, a)
        /\ g = a + 1 /\ v = w \o Between(g, i - 1) /\ Passed(s, n, w, g, i, v)
    BY <1>1, <1>2, <1>3
  <2> HIDE DEF n, a, v, g
  <2>2. KeptTo(v, w, n, g, i)
    BY ONLY <2>1, KeptPassed
  <2> QED BY <2>2 DEF g, KeptTo
<1>5. LastOf(v) = s.prev[i]
  BY <1>1, <1>2, <1>4
<1>6. Untaken(u, n, i) /\ LastOf(u) = i /\ Untaken(v, n, i)
  <2> HIDE DEF n, v
  <2> QED BY <1>1, <1>4, KeptOn
<1>7. /\ s \in Lists(n) /\ ~s.crashed /\ s.changes \in Nat
      /\ \A j \in g..n : s.next[j] = Onto(j + 1, n)
      /\ \A j \in 1..n : s.line[j] = lines[j]
      /\ Forward(s, 2*n, pos) /\ Pos(n, pos)
  BY <1>2 DEF Walk, Lists
<1>8. \A j \in i..n : j \in g..n
  BY <1>1
<1>9. old[h] = lines[i]
  <2>1. \A j \in 1..Len(e) : old[j] = lines[e[j]]
    BY OldLines
  <2> QED BY <1>1, <2>1
<1>10. Piece(op, old, h) = IF ~Matches(lines[i], op.key) THEN <<lines[i]>> ELSE <<>>
  <2> HIDE DEF h
  <2> QED BY <1>9 DEF Piece
<1>11. i \in Targets(op, lines) <=> Matches(lines[i], op.key)
  BY <1>1 DEF Targets
<1>12. Content(s, w) \in Seq(SignificantLines) /\ Content(s, v) = Content(s, w)
  BY <1>3 DEF Passed
<1> HIDE DEF v
<1>13. CASE i \notin Targets(op, lines)
  <2>1. t = s /\ Piece(op, old, h) = <<lines[i]>>
    BY <1>10, <1>11, <1>13
  <2>2. AbsentList(lines, h, s, u, pos)
    <3>1. \A j \in i + 1..n : s.prev[j] = IF j = i + 1 THEN LastOf(u) ELSE j - 1
      <4> SUFFICES ASSUME NEW j \in i + 1..n
                   PROVE  s.prev[j] = IF j = i + 1 THEN LastOf(u) ELSE j - 1
        OBVIOUS
      <4>1. j \in a + 1..n /\ j # a + 1
        BY <1>1
      <4>2. s.prev[j] = j - 1
        BY <1>2, <4>1
      <4> HIDE DEF u
      <4> QED BY <1>1, <1>6, <4>2
    <3> HIDE DEF u, h
    <3> QED BY <1>1, <1>3, <1>6, <3>1 DEF AbsentList
  <2>3. Content(s, u) = Content(s, w) \o <<lines[i]>>
    <3> DEFINE c == Content(s, w)
               y == lines[i]
               S == SignificantLines
    <3>1. c \in Seq(S) /\ y \in S /\ Content(s, u) = Append(c, y)
      BY <1>1, <1>3, <1>12 DEF Taken
    <3> HIDE DEF c, y, S, u
    <3>2. Append(c, y) = c \o <<y>>
      BY <3>1
    <3> QED BY <3>1, <3>2 DEF c, y
  <2>4. Counts(op, s.changes, t.changes, Piece(op, old, h), old[h])
    BY <1>7, <1>9, <2>1 DEF Counts
  <2> HIDE DEF u
  <2> QED BY <2>1, <2>2, <2>3, <2>4 DEF AbsentTurned
<1>14. CASE i \in Targets(op, lines)
  <2>0. Turn(op, s, i) = RemoveOne(s, i)
    BY ONLY op.state = "absent" DEF Turn
  <2>1. t = RemoveOne(s, i) /\ Piece(op, old, h) = <<>>
    BY <1>10, <1>11, <1>14, <2>0
  <2> DEFINE p == LastOf(v)
             q == Onto(i + 1, n)
  <2>2. p = s.prev[i] /\ q = s.next[i]
    <3>1. i \in g..n
      BY <1>1
    <3> QED BY <1>5, <1>7, <3>1
  <2>3. CASE p = Nil /\ q = Nil
    <3>1. t = [s EXCEPT !.crashed = TRUE]
      <4> HIDE DEF p, q
      <4> QED BY <2>1, <2>2, <2>3 DEF RemoveOne
    <3>2. t.crashed
      BY <1>7, <3>1 DEF Lists
    <3> QED BY <3>2
  <2>4. CASE p # Nil \/ q # Nil
    <3>1. Unlinks(s, t, n, v, i)
      <4>1. /\ n \in Nat /\ s \in Lists(n) /\ i \in Nodes(n) /\ p = s.prev[i] /\ q = s.next[i]
            /\ p # Nil \/ q # Nil
            /\ t = RemoveOne(s, i)
        BY <1>1, <1>7, <2>1, <2>2, <2>4 DEF Nodes
      <4> HIDE DEF p, q, n
      <4>2. /\ t \in Lists(n) /\ t.crashed = s.crashed /\ t.line = s.line /\ t.changes = s.changes + 1
            /\ t.head = IF p = Nil THEN q ELSE s.head
            /\ \A j \in Nodes(n) : t.next[j] = IF p # Nil /\ j = p THEN q ELSE s.next[j]
            /\ \A j \in Nodes(n) : t.prev[j] = IF q # Nil /\ j = q THEN p ELSE s.prev[j]
        BY ONLY <4>1, RemoveFields
      <4> QED BY <4>2 DEF Unlinks, p, q
    <3>2. Untouched(s, lines, i, pos)
      BY <1>7, <1>8 DEF Untouched
    <3>3. \A j \in i + 1..n : s.prev[j] = j - 1
      <4> SUFFICES ASSUME NEW j \in i + 1..n PROVE s.prev[j] = j - 1
        OBVIOUS
      <4>1. j \in a + 1..n /\ j # a + 1
        BY <1>1
      <4> QED BY <1>2, <4>1
    <3>4. Leads(s, v, i)
      BY <1>3 DEF Passed
    <3>5. /\ Walk(t, lines, e, h, v, i + 1, pos)
          /\ \A j \in i + 1..n : t.prev[j] = IF j = i + 1 THEN LastOf(v) ELSE j - 1
      <4>1. /\ lines \in Seq(PamLines) /\ n = Len(lines) /\ h \in Nat /\ s \in Lists(n) /\ ~s.crashed
            /\ i \in 1..n /\ i = At(e, h) /\ Ahead(e, h, n) \in i + 1..n + 1
            /\ Untaken(v, n, i - 1) /\ Leads(s, v, i) /\ Untouched(s, lines, i, pos)
            /\ \A j \in i + 1..n : s.prev[j] = j - 1
            /\ Unlinks(s, t, n, v, i)
        BY <1>1, <1>4, <1>7, <3>1, <3>2, <3>3, <3>4
      <4> HIDE DEF h, n
      <4>2. Without(t, lines, e, h, v, i, pos)
        BY ONLY <4>1, Removal
      <4> QED BY <4>1, <4>2 DEF Without
    <3>6. AbsentList(lines, h, t, v, pos)
      <4> HIDE DEF h
      <4> QED BY <1>1, <1>6, <3>5 DEF AbsentList
    <3>7. Content(t, v) = Content(s, w) \o Piece(op, old, h)
      <4>1. t.line = s.line
        BY <3>1 DEF Unlinks
      <4>2. Content(t, v) = Content(s, v)
        BY <4>1, ContentFrame
      <4> DEFINE c == Content(s, w)
                 S == SignificantLines
      <4>3. c \in Seq(S)
        BY <1>12
      <4> HIDE DEF c, S
      <4>4. c \o <<>> = c
        BY <4>3
      <4> QED BY <1>12, <2>1, <4>2, <4>4 DEF c
    <3>8. Counts(op, s.changes, t.changes, Piece(op, old, h), old[h])
      <4>1. t.changes = s.changes + 1
        BY <3>1 DEF Unlinks
      <4>2. Len(<<>>) = 0
        OBVIOUS
      <4> QED BY <1>7, <2>1, <4>1, <4>2 DEF Counts
    <3> QED BY <3>6, <3>7, <3>8 DEF AbsentTurned
  <2> QED BY <2>3, <2>4
<1> QED BY <1>13, <1>14

(* The list that is read is one that remove has not begun with.            *)
LEMMA AbsentStart ==
  ASSUME NEW lines \in Seq(PamLines)
  PROVE  \E pos : AbsentList(lines, 0, Service(lines), <<>>, pos)
<1> DEFINE n == Len(lines)
           e == SignificantNodes(lines)
           s == Service(lines)
<1>1. PICK pos : Walk(s, lines, e, 0, <<>>, 1, pos)
  BY WalkStart
<1>2. At(e, 0) = 0
  BY DEF At
<1>3. Untaken(<<>>, n, 0)
  <2>1. <<>> \in Seq(Nodes(n)) /\ \A j \in 1..Len(<<>>) : FALSE
    OBVIOUS
  <2> QED BY <2>1 DEF Untaken
<1>4. ASSUME NEW j \in 1..n PROVE s.prev[j] = IF j = 1 THEN LastOf(<<>>) ELSE j - 1
  <2>0. n \in Nat
    OBVIOUS
  <2>1. \A x \in 1..2*n : s.prev[x] = IF x \in 2..n THEN x - 1 ELSE Nil
    BY DEF Service
  <2>2. LastOf(<<>>) = Nil
    BY DEF LastOf
  <2> HIDE DEF n, s
  <2>3. j \in 1..2*n /\ (j \in 2..n <=> j # 1)
    BY <2>0
  <2> QED BY <2>1, <2>2, <2>3
<1>5. AbsentList(lines, 0, s, <<>>, pos)
  <2>1. 0 + 1 = 1
    OBVIOUS
  <2> HIDE DEF s
  <2> QED BY <1>1, <1>2, <1>3, <1>4, <2>1 DEF AbsentList
<1> QED BY <1>5

(* remove makes what it should, unless it crashes.                         *)
LEMMA AbsentResult ==
  ASSUME NEW op \in Tasks, op.state = "absent", NEW lines \in Seq(PamLines),
         NEW s, s = Edited(op, lines)
  PROVE  s.crashed \/ (s \in Lists(Len(lines)) /\ Result(op, lines, s))
<1> DEFINE e == SignificantNodes(lines)
           old == Significant(lines)
           S(k) == Stage(op, lines, k)
           U == {k \in Nat : k <= Len(e) =>
                   \/ S(k).crashed
                   \/ \E w, pos : AbsentList(lines, k, S(k), w, pos) /\ Moved(op, lines, k, S(k), w)}
<1>0. Len(e) \in Nat /\ Len(old) = Len(e) /\ op.state \in Moving /\ old \in Seq(SignificantLines)
  BY WalkStart, OldLines DEF Moving
<1>1. 0 \in U
  <2>1. S(0) = Service(lines)
    BY Stages
  <2>2. PICK pos : AbsentList(lines, 0, Service(lines), <<>>, pos)
    BY AbsentStart
  <2>3. Moved(op, lines, 0, Service(lines), <<>>)
    BY <1>0, MovedStart
  <2> HIDE DEF e
  <2> QED BY <2>1, <2>2, <2>3
<1>2. ASSUME NEW k \in Nat, k \in U PROVE k + 1 \in U
  <2> SUFFICES ASSUME k + 1 <= Len(e), ~S(k + 1).crashed
               PROVE  \E w, pos : AbsentList(lines, k + 1, S(k + 1), w, pos)
                                  /\ Moved(op, lines, k + 1, S(k + 1), w)
    OBVIOUS
  <2>0. k \in 0..Len(e) - 1 /\ k <= Len(e) /\ k \in 0..Len(old) - 1
    BY <1>0
  <2> DEFINE sk == S(k)
             t == IF e[k + 1] \notin Targets(op, lines) THEN sk ELSE Turn(op, sk, e[k + 1])
  <2>2. ~sk.crashed
    <3>1. S(k + 1) = IF sk.crashed \/ e[k + 1] \notin Targets(op, lines) THEN sk ELSE Turn(op, sk, e[k + 1])
      BY <2>0, Stages
    <3> HIDE DEF S
    <3> QED BY <3>1
  <2>1. PICK w, pos : AbsentList(lines, k, S(k), w, pos) /\ Moved(op, lines, k, S(k), w)
    <3> HIDE DEF S
    <3> QED BY <1>2, <2>0, <2>2
  <2>3. S(k + 1) = t
    BY <2>0, <2>2, Stages
  <2>4. PICK wt, pt : /\ AbsentList(lines, k + 1, t, wt, pt)
                      /\ Content(t, wt) = Content(sk, w) \o Piece(op, old, k + 1)
                      /\ Counts(op, sk.changes, t.changes, Piece(op, old, k + 1), old[k + 1])
    <3> HIDE DEF S, old, e
    <3>1. AbsentList(lines, k, sk, w, pos) /\ e = SignificantNodes(lines) /\ old = Significant(lines)
      BY <2>1 DEF e, old
    <3>2. t = IF e[k + 1] \notin Targets(op, lines) THEN sk ELSE Turn(op, sk, e[k + 1])
      OBVIOUS
    <3> HIDE DEF t, sk
    <3>3. /\ op \in Tasks /\ op.state = "absent" /\ lines \in Seq(PamLines) /\ k \in 0..Len(e) - 1
      BY <2>0
    <3>4. t.crashed \/ AbsentTurned(op, lines, old, k, sk, w, t)
      BY ONLY <3>1, <3>2, <3>3, AbsentTurn
    <3>5. ~t.crashed
      BY <2>3
    <3> QED BY <3>4, <3>5 DEF AbsentTurned
  <2>5. Moved(op, lines, k + 1, t, wt)
    <3>1. Moved(op, lines, k, sk, w) /\ old = Significant(lines)
      BY <2>1
    <3> HIDE DEF S, old, e, t, sk
    <3> QED BY <1>0, <2>0, <2>4, <3>1, MovedOn
  <2> HIDE DEF S, t
  <2> QED BY <2>3, <2>4, <2>5
<1>3. Len(e) \in U
  <2> HIDE DEF U
  <2> QED BY <1>0, <1>1, <1>2, SetInduction
<1>4. S(Len(e)) = s
  BY Stages
<1> SUFFICES ASSUME ~s.crashed PROVE s \in Lists(Len(lines)) /\ Result(op, lines, s)
  OBVIOUS
<1>5. PICK w, pos : AbsentList(lines, Len(e), s, w, pos) /\ Moved(op, lines, Len(e), s, w)
  <2> HIDE DEF e, S
  <2> QED BY <1>0, <1>3, <1>4
<1>6. Walk(s, lines, e, Len(e), w, At(e, Len(e)) + 1, pos)
  BY <1>5 DEF AbsentList
<1>7. PICK q \in Seq(Nodes(Len(lines))) : Reached(s) = q /\ Content(s, q) = Content(s, w)
  BY <1>6, WalkEnd
<1>8. ~s.crashed /\ s \in Lists(Len(lines))
  BY <1>6 DEF Walk
<1>9. Content(s, w) = Made(op, old, Len(old)) /\ Tally(op, old, Len(old), s.changes)
  BY <1>0, <1>5 DEF Moved
<1>10. s.changes > 0 <=> Content(s, w) # old
  BY <1>0, <1>9, TallyEnd
<1> QED BY <1>7, <1>8, <1>9, <1>10 DEF Result

(* What insert_before, insert_after and remove make of a file.             *)
LEMMA MovingResult ==
  ASSUME NEW op \in Tasks, op.state \in Moving, NEW lines \in Seq(PamLines),
         NEW s, s = Edited(op, lines), ~s.crashed
  PROVE  s \in Lists(Len(lines)) /\ Result(op, lines, s)
BY BeforeResult, AfterResult, AbsentResult DEF Moving

(* A line that does not count is put between two parts of the lines.       *)
LEMMA SignificantAround ==
  ASSUME NEW a \in Seq(PamLines), NEW b \in Seq(PamLines), NEW x \in PamLines,
         x \notin SignificantLines
  PROVE  /\ a \o <<x>> \o b \in Seq(PamLines)
         /\ Significant(a \o <<x>> \o b) = Significant(a \o b)
<1> DEFINE T == SignificantLines
<1> HIDE DEF T
<1>1. <<x>> \in Seq(PamLines) /\ <<x>> = Append(<<>>, x) /\ <<>> \in Seq(PamLines)
  OBVIOUS
<1>2. Select(<<x>>, T) = <<>>
  <2>1. Select(<<>>, T) = <<>>
    BY SelectEmpty
  <2>2. x \notin T
    BY DEF T
  <2>3. x \in PamLines
    OBVIOUS
  <2>4. Select(Append(<<>>, x), T) = IF x \in T THEN Append(Select(<<>>, T), x) ELSE Select(<<>>, T)
    BY ONLY <1>1, <2>3, SelectAppend
  <2> QED BY ONLY <1>1, <2>1, <2>2, <2>4
<1> DEFINE y == <<x>>
           ay == a \o y
<1>3. y \in Seq(PamLines) /\ ay \in Seq(PamLines) /\ ay \o b \in Seq(PamLines)
  BY <1>1
<1>4. Select(ay, T) = Select(a, T) \o Select(y, T)
  <2> HIDE DEF y
  <2> QED BY <1>3, SelectConcat
<1>5. Select(a, T) \in Seq(PamLines)
  BY SelectSeqType
<1>6. Select(ay, T) = Select(a, T)
  <2> HIDE DEF ay
  <2> QED BY <1>2, <1>4, <1>5
<1>7. Select(ay \o b, T) = Select(ay, T) \o Select(b, T)
  <2> HIDE DEF ay
  <2> QED BY <1>3, SelectConcat
<1>8. Select(a \o b, T) = Select(a, T) \o Select(b, T)
  BY SelectConcat
<1> QED BY <1>3, <1>6, <1>7, <1>8 DEF Significant, T

(* What is written has the rules of the list, in their order.              *)
LEMMA StrIsWritten ==
  ASSUME NEW n \in Nat, NEW s \in Lists(n), NEW q \in Seq(Nodes(n)), Reached(s) = q
  PROVE  Str(s) \in Seq(PamLines) /\ Significant(Str(s)) = Content(s, q)
<1> DEFINE l == Values(s.line, q)
           empty == Other("empty")
<1>1. l \in Seq(PamLines)
  BY ContentType
<1>2. Str(s) = IF Len(l) <= 1 THEN <<empty, Mark>> \o l
               ELSE IF l[2] = Mark THEN l ELSE InsertAt(l, 2, Mark)
  BY DEF Str, Values
<1>3. Significant(l) = Content(s, q)
  BY DEF Significant, Content
<1>4. empty \in PamLines /\ Mark \in PamLines /\ empty \notin SignificantLines /\ Mark \notin SignificantLines
  BY LineKinds
<1> HIDE DEF l, empty
<1>5. <<empty, Mark>> \o l \in Seq(PamLines) /\ Significant(<<empty, Mark>> \o l) = Significant(l)
  <2>1. /\ <<>> \in Seq(PamLines) /\ <<empty>> \in Seq(PamLines) 
        /\ <<empty>> \o <<Mark>> = <<empty, Mark>>
        /\ <<>> \o l = l /\ <<>> \o <<empty>> \o l = <<empty>> \o l
    <3>1. <<>> \in Seq(PamLines) /\ <<empty>> \in Seq(PamLines) /\ <<empty>> \o <<Mark>> = <<empty, Mark>>
      <4> DEFINE m == Mark
      <4>1. m \in PamLines
        BY <1>4
      <4> HIDE DEF m
      <4>2. <<empty>> \o <<m>> = <<empty, m>>
        BY <1>4, <4>1, Pair
      <4>3. <<empty>> \in Seq(PamLines)
        BY <1>4
      <4> QED BY <4>2, <4>3 DEF m
    <3>2. <<>> \o l = l
      BY <1>1
    <3>3. <<>> \o <<empty>> = <<empty>>
      BY <1>4
    <3> QED BY <3>1, <3>2, <3>3
  <2>2. Significant(<<empty>> \o <<Mark>> \o l) = Significant(<<empty>> \o l)
    BY <1>1, <1>4, <2>1, SignificantAround
  <2>3. Significant(<<>> \o <<empty>> \o l) = Significant(<<>> \o l)
    BY <1>1, <1>4, <2>1, SignificantAround
  <2>4. <<empty>> \o <<Mark>> \o l \in Seq(PamLines)
    BY <1>1, <1>4, <2>1, SignificantAround
  <2> QED BY <2>1, <2>2, <2>3, <2>4
<1>6. ASSUME Len(l) > 1
      PROVE  InsertAt(l, 2, Mark) \in Seq(PamLines) /\ Significant(InsertAt(l, 2, Mark)) = Significant(l)
  <2> DEFINE a == SubSeq(l, 1, 1)
             b == SubSeq(l, 2, Len(l))
  <2>1. a \in Seq(PamLines) /\ b \in Seq(PamLines)
    BY <1>1, <1>6
  <2>2. a \o b = l
    BY <1>1, <1>6
  <2>3. InsertAt(l, 2, Mark) = a \o <<Mark>> \o b
    BY DEF InsertAt
  <2> HIDE DEF a, b
  <2>4. a \o <<Mark>> \o b \in Seq(PamLines) /\ Significant(a \o <<Mark>> \o b) = Significant(a \o b)
    BY ONLY <1>4, <2>1, SignificantAround
  <2> QED BY ONLY <2>2, <2>3, <2>4
<1>7. Len(l) \in Nat
  BY <1>1
<1> QED BY <1>1, <1>2, <1>3, <1>5, <1>6, <1>7

(* The lines of a file as it is read: no two arguments in brackets.        *)
FileLines == {l \in PamLines : ~Joins(l.args)}

(* Arguments that are read again.                                          *)
LEMMA RereadArgs ==
  ASSUME NEW a \in ArgSets
  PROVE  Reread(a) \in ArgSets /\ ~Joins(Reread(a)) /\ (~Joins(a) => Reread(a) = a)
<1>1. Together \in Bracketed \X ArgValues /\ Bracketed \subseteq ArgNames
  BY PamdAssumption
<1>2. CASE Joins(a)
  <2> DEFINE b == {p \in a : p[1] \notin Bracketed}
  <2>1. Reread(a) = b \cup {Together}
    BY <1>2 DEF Reread
  <2>2. Together \in ArgNames \X ArgValues /\ Together[1] \in Bracketed
    BY <1>1
  <2>3. b \subseteq a /\ \A p \in b : p[1] \notin Bracketed
    OBVIOUS
  <2> HIDE DEF b
  <2>4. b \cup {Together} \in ArgSets
    BY <2>2, <2>3 DEF ArgSets
  <2>5. ~Joins(b \cup {Together})
    BY <2>3 DEF Joins
  <2> QED BY <1>2, <2>1, <2>4, <2>5
<1>3. CASE ~Joins(a)
  BY <1>3 DEF Reread
<1> QED BY <1>2, <1>3

(* A line that is read again.                                              *)
LEMMA RereadLine ==
  ASSUME NEW l \in PamLines, NEW m, m = [l EXCEPT !.args = Reread(@)]
  PROVE  /\ m \in FileLines /\ (l \in FileLines => m = l)
         /\ m \in SignificantLines <=> l \in SignificantLines
<1>1. l.args \in ArgSets
  <2>1. {} \in ArgSets
    BY DEF ArgSets
  <2> QED BY <2>1 DEF PamLines, Other
<1>2. Reread(l.args) \in ArgSets /\ ~Joins(Reread(l.args)) /\ (~Joins(l.args) => Reread(l.args) = l.args)
  BY <1>1, RereadArgs
<1>3. m = [what |-> l.what, key |-> l.key, args |-> Reread(l.args)]
      /\ l = [what |-> l.what, key |-> l.key, args |-> l.args]
  BY DEF PamLines, Other
<1>4. CASE l.what = "rule"
  <2>1. l.key \in KeptKeys
    BY <1>4, LineKinds
  <2>2. m = Rule(l.key, Reread(l.args)) /\ l = Rule(l.key, l.args)
    BY <1>3, <1>4 DEF Rule
  <2>3. m \in PamLines /\ m \in SignificantLines /\ m.args = Reread(l.args)
    BY <1>2, <2>1, <2>2, LineKinds
  <2>4. l \in SignificantLines
    BY <1>1, <2>1, <2>2, LineKinds
  <2> QED BY <1>2, <2>2, <2>3, <2>4 DEF FileLines
<1>5. CASE l.what # "rule"
  <2>1. l.args = {}
    BY <1>5 DEF PamLines, Other
  <2>2. ~Joins({})
    BY DEF Joins
  <2>3. m = l
    BY <1>2, <1>3, <2>1, <2>2
  <2> QED BY <2>1, <2>2, <2>3 DEF FileLines
<1> QED BY <1>4, <1>5

(* A file that is read again is one of such lines, and a file of such      *)
(* lines is read as it is.                                                 *)
LEMMA ReadAgain ==
  ASSUME NEW q \in Seq(PamLines)
  PROVE  /\ AsRead(q) \in Seq(FileLines)
         /\ Significant(q) \in Seq(FileLines) => Significant(AsRead(q)) = Significant(q)
<1> DEFINE g == [l \in PamLines |-> [l EXCEPT !.args = Reread(@)]]
           T == SignificantLines
<1>1. AsRead(q) = Values(g, q)
  BY DEF AsRead, Values
<1>2. \A l \in PamLines : /\ g[l] \in FileLines /\ (l \in FileLines => g[l] = l)
                          /\ l \in T <=> g[l] \in T
  BY RereadLine
<1> HIDE DEF g, T
<1>3. Values(g, q) \in Seq(FileLines)
  BY <1>2, ValuesType
<1>4. Select(Values(g, q), T) = Values(g, Select(q, T))
  BY <1>2, SelectOfValues
<1>5. ASSUME NEW r \in Seq(FileLines) PROVE Values(g, r) = r
  <2>1. \A j \in 1..Len(r) : g[r[j]] = r[j]
    BY <1>2 DEF FileLines
  <2>2. r = [j \in 1..Len(r) |-> r[j]]
    OBVIOUS
  <2> QED BY <2>1, <2>2 DEF Values
<1> QED BY <1>1, <1>3, <1>4, <1>5 DEF Significant, T

(* A list that holds the lines "made", and, for a plain task, counts a     *)
(* change if they are other than those of the file.                        *)
Holds(op, s, lines, made) ==
  \E q \in Seq(Nodes(Len(lines))) :
    /\ Reached(s) = q /\ Content(s, q) = made
    /\ Plain(op) => (s.changes > 0 <=> made # Significant(lines))

(* What a run makes of a file, by the list that it edits.                  *)
RunOf(op, lines, s, r) ==
  /\ r.failed <=> Refused(op) \/ s.crashed \/ ~Valid(s)
  /\ r.failed => r.lines = lines /\ r.changed = FALSE
  /\ ~r.failed => /\ s.changes > 0 /\ ~op.check => r.lines = AsRead(Str(s))
                  /\ ~(s.changes > 0) \/ op.check => r.lines = lines
                  /\ r.changed <=> s.changes > 0
  /\ r = [lines |-> r.lines, changed |-> r.changed, failed |-> r.failed]
  /\ r.changed \in BOOLEAN /\ r.failed \in BOOLEAN

(* A run is told by its list.                                              *)
LEMMA OutcomeOf ==
  ASSUME NEW op, NEW lines, NEW s, s = Edited(op, lines), NEW r, r = Outcome(op, lines)
  PROVE  RunOf(op, lines, s, r)
<1> USE DEF RunOf
<1>1. CASE Refused(op) \/ s.crashed \/ ~Valid(s)
  <2>1. r = [lines |-> lines, changed |-> FALSE, failed |-> TRUE]
    BY <1>1 DEF Outcome
  <2> QED BY <1>1, <2>1
<1>2. CASE ~(Refused(op) \/ s.crashed \/ ~Valid(s))
  <2> DEFINE l == IF s.changes > 0 /\ ~op.check THEN AsRead(Str(s)) ELSE lines
             c == s.changes > 0
  <2>1. r = [lines |-> l, changed |-> c, failed |-> FALSE]
    BY <1>2 DEF Outcome
  <2>2. c \in BOOLEAN
    OBVIOUS
  <2>3. r.changed = c /\ r.lines = l /\ r.failed = FALSE
    <3> HIDE DEF l, c
    <3> QED BY <2>1
  <2> QED BY <1>2, <2>1, <2>2, <2>3
<1> QED BY <1>1, <1>2

(* A run that writes what the list holds.                                  *)
LEMMA OutcomeHolds ==
  ASSUME NEW op, NEW lines \in Seq(FileLines), NEW s, s = Edited(op, lines),
         NEW r, r = Outcome(op, lines), ~r.failed, ~op.check,
         s \in Lists(Len(lines)), NEW made, Holds(op, s, lines, made)
  PROVE  /\ r.lines \in Seq(FileLines)
         /\ Plain(op) /\ made \in Seq(FileLines) =>
              /\ Significant(r.lines) = made
              /\ r.changed <=> made # Significant(lines)
<1>1. PICK q \in Seq(Nodes(Len(lines))) :
        /\ Reached(s) = q /\ Content(s, q) = made
        /\ Plain(op) => (s.changes > 0 <=> made # Significant(lines))
  BY DEF Holds
<1>2. Str(s) \in Seq(PamLines) /\ Significant(Str(s)) = Content(s, q)
  <2> DEFINE n == Len(lines)
  <2>1. n \in Nat /\ s \in Lists(n) /\ q \in Seq(Nodes(n))
    OBVIOUS
  <2> HIDE DEF n
  <2> QED BY <1>1, <2>1, StrIsWritten
<1>3. r.lines = (IF s.changes > 0 THEN AsRead(Str(s)) ELSE lines) /\ (r.changed <=> s.changes > 0)
  <2>0. RunOf(op, lines, s, r)
    BY OutcomeOf
  <2>1. (s.changes > 0 => r.lines = AsRead(Str(s))) /\ (~(s.changes > 0) => r.lines = lines)
    BY ONLY <2>0, ~r.failed, ~op.check DEF RunOf
  <2>2. r.changed <=> s.changes > 0
    BY ONLY <2>0, ~r.failed DEF RunOf
  <2> QED BY ONLY <2>1, <2>2, ~op.check
<1>4. /\ AsRead(Str(s)) \in Seq(FileLines)
      /\ made \in Seq(FileLines) => Significant(AsRead(Str(s))) = made
  BY <1>1, <1>2, ReadAgain
<1> QED BY <1>1, <1>3, <1>4

(* insert_before, insert_after and remove hold what is made of the lines.  *)
LEMMA MovingHolds ==
  ASSUME NEW op \in Tasks, op.state \in Moving, NEW lines \in Seq(PamLines),
         NEW s, s = Edited(op, lines), ~s.crashed
  PROVE  /\ s \in Lists(Len(lines))
         /\ Holds(op, s, lines, Made(op, Significant(lines), Len(Significant(lines))))
<1>1. s \in Lists(Len(lines)) /\ Result(op, lines, s)
  BY MovingResult
<1> QED BY <1>1 DEF Result, Holds

(* The lines of a file that count.                                         *)
SignificantFileLines == {l \in SignificantLines : ~Joins(l.args)}

(* They are those of the file that count.                                  *)
LEMMA SignificantOfFile ==
  ASSUME NEW lines \in Seq(FileLines)
  PROVE  lines \in Seq(PamLines) /\ Significant(lines) \in Seq(SignificantFileLines)
<1>1. FileLines \subseteq PamLines
  BY DEF FileLines
<1>2. lines \in Seq(PamLines)
  BY <1>1, SeqWiden
<1>3. Select(lines, SignificantLines) \in Seq(FileLines \cap SignificantLines)
  BY SelectType
<1>4. FileLines \cap SignificantLines \subseteq SignificantFileLines
  BY DEF FileLines, SignificantFileLines
<1> QED BY <1>2, <1>3, <1>4, SeqWiden DEF Significant

(* And they are among its lines.                                           *)
LEMMA SignificantFileSeq ==
  ASSUME NEW q \in Seq(SignificantFileLines)
  PROVE  q \in Seq(FileLines) /\ q \in Seq(SignificantLines)
<1>1. SignificantFileLines \subseteq FileLines /\ SignificantFileLines \subseteq SignificantLines
  BY LineKinds DEF SignificantFileLines, FileLines
<1> QED BY <1>1, SeqWiden

(* A plain task makes such lines of such lines.                            *)
LEMMA MadeIsRead ==
  ASSUME NEW op \in Tasks, op.state \in Moving, Plain(op), NEW old \in Seq(SignificantFileLines)
  PROVE  Made(op, old, Len(old)) \in Seq(SignificantFileLines)
<1> DEFINE F == SignificantFileLines
           U == {k \in Nat : k <= Len(old) => Made(op, old, k) \in Seq(F)}
<1>1. old \in Seq(SignificantLines) /\ Len(old) \in Nat
  BY SignificantFileSeq
<1>2. op.state # "absent" => NewRule(op) \in F
  <2>1. SUFFICES ASSUME op.state # "absent" PROVE NewRule(op) \in F
    OBVIOUS
  <2>2. NewRule(op) = Rule(op.new, op.args) /\ NewRule(op) \in SignificantLines
    BY <2>1, InsertedRule DEF Moving
  <2>3. NewRule(op).args = op.args
    BY <2>2 DEF Rule
  <2> QED BY <2>2, <2>3 DEF SignificantFileLines, Plain
<1>3. ASSUME NEW i \in 1..Len(old) PROVE Piece(op, old, i) \in Seq(F)
  <2> DEFINE x == old[i]
             r == NewRule(op)
  <2>1. x \in F /\ (op.state # "absent" => r \in F)
    BY <1>2
  <2>2. Piece(op, old, i) \in {<<x>>, <<>>} \/ (op.state # "absent" /\ Piece(op, old, i) \in {<<r, x>>, <<x, r>>})
    BY DEF Piece
  <2> HIDE DEF x, r, F
  <2>3. <<x>> \in Seq(F) /\ <<>> \in Seq(F)
    BY <2>1
  <2>4. op.state # "absent" => <<r, x>> \in Seq(F) /\ <<x, r>> \in Seq(F)
    BY <2>1
  <2> QED BY <2>2, <2>3, <2>4
<1>4. 0 \in U
  BY <1>1, MadeStep
<1>5. ASSUME NEW k \in Nat, k \in U PROVE k + 1 \in U
  <2> SUFFICES ASSUME k + 1 <= Len(old) PROVE Made(op, old, k + 1) \in Seq(F)
    OBVIOUS
  <2>1. k \in 0..Len(old) - 1 /\ k <= Len(old) /\ k + 1 \in 1..Len(old)
    BY <1>1
  <2>2. Made(op, old, k + 1) = Made(op, old, k) \o Piece(op, old, k + 1)
    BY <1>1, <2>1, MadeStep
  <2>3. Made(op, old, k) \in Seq(F) /\ Piece(op, old, k + 1) \in Seq(F)
    BY <1>3, <1>5, <2>1
  <2> DEFINE a == Made(op, old, k)
             b == Piece(op, old, k + 1)
  <2>4. a \in Seq(F) /\ b \in Seq(F)
    BY <2>3
  <2> HIDE DEF F, a, b
  <2>5. a \o b \in Seq(F)
    BY ONLY <2>4
  <2> QED BY <2>2, <2>5 DEF a, b
<1>6. Len(old) \in U
  <2> HIDE DEF U
  <2> QED BY <1>1, <1>4, <1>5, SetInduction
<1> QED BY <1>1, <1>6

(* insert_before, insert_after and remove do to the rules what they are    *)
(* for.                                                                    *)
LEMMA EditIsRight ==
  ASSUME NEW op \in Tasks, op.state \in Moving, ~op.check, Plain(op), NEW lines \in Seq(FileLines),
         NEW r, r = Outcome(op, lines), ~r.failed, NEW old, old = Significant(lines)
  PROVE  Significant(r.lines) =
           IF op.state = "absent" THEN Select(old, {l \in ToSet(old) : ~Matches(l, op.key)})
           ELSE Inserted(op, old)
<1> DEFINE s == Edited(op, lines)
           made == Made(op, old, Len(old))
<1>0. /\ lines \in Seq(PamLines) /\ old \in Seq(SignificantFileLines)
      /\ made \in Seq(FileLines)
  <2>1. lines \in Seq(PamLines) /\ old \in Seq(SignificantFileLines)
    BY SignificantOfFile
  <2> HIDE DEF made
  <2>2. made \in Seq(SignificantFileLines)
    BY <2>1, MadeIsRead DEF made
  <2> QED BY <2>1, <2>2, SignificantFileSeq
<1>1. ~s.crashed
  <2>1. RunOf(op, lines, s, r)
    BY OutcomeOf
  <2> QED BY ONLY <2>1, ~r.failed DEF RunOf
<1>2. s \in Lists(Len(lines)) /\ Holds(op, s, lines, made)
  <2> HIDE DEF s
  <2> QED BY <1>0, <1>1, MovingHolds DEF s
<1>3. Significant(r.lines) = made
  <2> HIDE DEF s, made
  <2> QED BY <1>0, <1>2, OutcomeHolds DEF s
<1>4. old \in Seq(SignificantLines)
  BY <1>0, SignificantFileSeq
<1>5. op.state \in {"before", "after"} \/ op.state = "absent"
  BY DEF Moving
<1>6. CASE op.state \in {"before", "after"}
  BY <1>3, <1>4, <1>6, InsertedIsMade
<1>7. CASE op.state = "absent"
  <2>1. Select(old, {l \in ToSet(old) : ~Matches(l, op.key)}) = made
    BY <1>4, <1>7, RemovedIsMade
  <2> HIDE DEF made
  <2> QED BY <1>3, <1>7, <2>1
<1> QED BY <1>5, <1>6, <1>7

(* What the loops that change single lines make of a line.                 *)
Replaced(op, l) ==
  CASE op.state = "args_present" -> [l EXCEPT !.args = WithArgs(@, op.args)]
    [] op.state = "args_absent" -> [l EXCEPT !.args = @ \ op.args]
    [] op.state = "updated" -> Rule(IF op.new = NoKey THEN op.key ELSE op.new,
                                    IF op.hasargs THEN op.args ELSE l.args)

(* And what the line keeps of it.                                          *)
Stored(op, l) == Keep(Replaced(op, l))

(* The states whose loops change single lines.                             *)
Changing == {"args_present", "args_absent", "updated"}

(* A turn of those loops replaces the line.                                *)
LEMMA TurnChanges ==
  ASSUME NEW op, op.state \in Changing, NEW s, NEW i
  PROVE  Turn(op, s, i) = ChangeLine(s, i, Replaced(op, s.line[i]))
<1>1. CASE op.state = "args_present"
  BY ONLY <1>1 DEF Turn, Replaced
<1>2. CASE op.state = "args_absent"
  BY ONLY <1>2 DEF Turn, Replaced
<1>3. CASE op.state = "updated"
  BY ONLY <1>3 DEF Turn, Replaced
<1> QED BY <1>1, <1>2, <1>3 DEF Changing

(* Adding or removing arguments leaves no name twice, and doing so again   *)
(* changes nothing.                                                        *)
LEMMA ArgsAreSets ==
  ASSUME NEW a \in ArgSets, NEW b \in ArgSets
  PROVE  /\ WithArgs(a, b) \in ArgSets /\ a \ b \in ArgSets
         /\ WithArgs(WithArgs(a, b), b) = WithArgs(a, b) /\ (a \ b) \ b = a \ b
<1>1. WithArgs(a, b) \in ArgSets
  BY DEF WithArgs, ArgSets
<1>2. a \ b \in ArgSets
  BY DEF ArgSets
<1>3. WithArgs(WithArgs(a, b), b) = WithArgs(a, b)
  BY DEF WithArgs
<1> QED BY <1>1, <1>2, <1>3

(* A rule is replaced by what is a rule as a task spells it; a plain task  *)
(* spells it as it is kept, and replaces a replaced one by itself.         *)
LEMMA ReplacedRule ==
  ASSUME NEW op \in Tasks, op.state \in Changing, NEW l \in PamLines, Matches(l, op.key)
  PROVE  /\ Stored(op, l) \in SignificantLines /\ Stored(op, l) \in PamLines
         /\ Plain(op) => /\ Stored(op, l) = Replaced(op, l)
                         /\ Replaced(op, Replaced(op, l)) = Replaced(op, l)
<1> DEFINE F(a) == CASE op.state = "args_present" -> WithArgs(a, op.args)
                     [] op.state = "args_absent" -> a \ op.args
                     [] op.state = "updated" -> IF op.hasargs THEN op.args ELSE a
           k == IF op.state = "updated" /\ op.new # NoKey THEN op.new ELSE op.key
           b == F(l.args)
<1>1. l.key \in KeptKeys /\ l.args \in ArgSets /\ l = Rule(l.key, l.args) /\ l.key = op.key
  BY LineKinds DEF Matches
<1>2. op.key \in KeptKeys /\ op.args \in ArgSets /\ op.new \in Keys \cup {NoKey}
  BY DEF Tasks
<1>3. k \in Keys /\ (Plain(op) => Kept[k] = k) /\ (op.state # "updated" => k = op.key)
  BY <1>2, KeptSpelling DEF Plain
<1>4. b \in ArgSets /\ F(b) = b
  <2>1. CASE op.state = "args_present"
    BY <1>1, <1>2, <2>1, ArgsAreSets
  <2>2. CASE op.state = "args_absent"
    BY <1>1, <1>2, <2>2, ArgsAreSets
  <2>3. CASE op.state = "updated"
    BY <1>1, <1>2, <2>3
  <2> QED BY <2>1, <2>2, <2>3 DEF Changing
<1>5. ASSUME NEW c, NEW a, op.state # "updated" => c = k PROVE Replaced(op, Rule(c, a)) = Rule(k, F(a))
  <2>0. Rule(c, a).args = a /\ \A d : [Rule(c, a) EXCEPT !.args = d] = Rule(c, d)
    BY DEF Rule
  <2>1. CASE op.state = "args_present"
    BY <1>5, <2>0, <2>1 DEF Replaced
  <2>2. CASE op.state = "args_absent"
    BY <1>5, <2>0, <2>2 DEF Replaced
  <2>3. CASE op.state = "updated"
    BY <2>0, <2>3 DEF Replaced
  <2> QED BY <2>1, <2>2, <2>3 DEF Changing
<1> HIDE DEF F, k
<1>6. Replaced(op, l) = Rule(k, b)
  BY <1>1, <1>3, <1>5
<1>7. Replaced(op, Rule(k, b)) = Rule(k, b)
  BY <1>4, <1>5
<1> HIDE DEF b
<1> QED BY <1>3, <1>4, <1>6, <1>7, KeptRule DEF Stored

(* And one that is read as it is, by a plain task that is not refused.     *)
LEMMA StoredIsRead ==
  ASSUME NEW op \in Tasks, op.state \in Changing, Plain(op), ~Refused(op),
         NEW l \in SignificantFileLines, Matches(l, op.key)
  PROVE  Stored(op, l) \in SignificantFileLines
<1>1. l \in PamLines /\ ~Joins(l.args)
  BY LineKinds DEF SignificantFileLines
<1>2. Stored(op, l) \in SignificantLines /\ Stored(op, l) = Replaced(op, l)
  BY <1>1, ReplacedRule
<1>3. ~Joins(op.args)
  BY DEF Plain
<1>4. l = Rule(l.key, l.args)
  BY <1>1, LineKinds DEF Matches
<1>5. ASSUME NEW d PROVE [l EXCEPT !.args = d].args = d
  BY <1>4 DEF Rule
<1>6. CASE op.state = "args_present"
  <2>1. \A p \in op.args : p[1] \notin Bracketed
    BY <1>6 DEF Refused, Plainly
  <2>2. ~Joins(WithArgs(l.args, op.args))
    BY <1>1, <2>1 DEF Joins, WithArgs
  <2>3. Replaced(op, l).args = WithArgs(l.args, op.args)
    BY <1>5, <1>6 DEF Replaced
  <2> QED BY <1>2, <2>2, <2>3 DEF SignificantFileLines
<1>7. CASE op.state = "args_absent"
  <2>1. ~Joins(l.args \ op.args)
    BY <1>1 DEF Joins
  <2>2. Replaced(op, l).args = l.args \ op.args
    BY <1>5, <1>7 DEF Replaced
  <2> QED BY <1>2, <2>1, <2>2 DEF SignificantFileLines
<1>8. CASE op.state = "updated"
  <2>1. Replaced(op, l).args = IF op.hasargs THEN op.args ELSE l.args
    BY <1>8 DEF Replaced, Rule
  <2> QED BY <1>1, <1>2, <1>3, <2>1 DEF SignificantFileLines
<1> QED BY <1>6, <1>7, <1>8 DEF Changing

(* What the lines that count become.                                       *)
Rewritten(op, old) ==
  [j \in 1..Len(old) |-> IF Matches(old[j], op.key) THEN Stored(op, old[j]) ELSE old[j]]

(* A plain task rewrites lines that are read as they are by such lines.    *)
LEMMA RewrittenIsRead ==
  ASSUME NEW op \in Tasks, op.state \in Changing, Plain(op), ~Refused(op),
         NEW old \in Seq(SignificantFileLines)
  PROVE  Rewritten(op, old) \in Seq(SignificantFileLines)
<1> DEFINE one(l) == IF Matches(l, op.key) THEN Stored(op, l) ELSE l
<1>1. \A l \in SignificantFileLines : one(l) \in SignificantFileLines
  BY StoredIsRead
<1>2. Rewritten(op, old) = [j \in 1..Len(old) |-> one(old[j])]
  BY DEF Rewritten
<1> HIDE DEF one
<1> QED BY <1>1, <1>2

(* Lines that a plain task rewrites are not rewritten again.               *)
LEMMA RewrittenTwice ==
  ASSUME NEW op \in Tasks, op.state \in Changing, Plain(op), NEW old \in Seq(SignificantLines)
  PROVE  Rewritten(op, Rewritten(op, old)) = Rewritten(op, old)
<1> DEFINE one(l) == IF Matches(l, op.key) THEN Stored(op, l) ELSE l
           m == Rewritten(op, old)
<1>1. \A l \in SignificantLines : one(l) \in SignificantLines /\ one(one(l)) = one(l)
  <2>1. SUFFICES ASSUME NEW l \in SignificantLines, Matches(l, op.key)
                 PROVE  /\ Stored(op, l) \in SignificantLines
                        /\ Matches(Stored(op, l), op.key) => Stored(op, Stored(op, l)) = Stored(op, l)
    OBVIOUS
  <2>2. l \in PamLines
    BY LineKinds
  <2>3. Stored(op, l) \in PamLines /\ Stored(op, l) = Replaced(op, l) /\ Stored(op, l) \in SignificantLines
        /\ Replaced(op, Replaced(op, l)) = Replaced(op, l)
    BY <2>1, <2>2, ReplacedRule
  <2>4. Keep(Stored(op, l)) = Stored(op, l)
    <3>1. Stored(op, l).what = "rule"
      BY DEF Stored, Keep, Rule
    <3> QED BY <2>3, <3>1, RuleIsKept
  <2> QED BY <2>3, <2>4 DEF Stored
<1>2. m = [j \in 1..Len(old) |-> one(old[j])]
  BY DEF Rewritten
<1>3. Rewritten(op, m) = [j \in 1..Len(m) |-> one(m[j])]
  BY DEF Rewritten
<1> HIDE DEF one, m
<1>4. Len(old) \in Nat /\ \A j \in 1..Len(old) : old[j] \in SignificantLines
  OBVIOUS
<1>5. Len(m) = Len(old)
  BY <1>2, <1>4
<1>6. \A j \in 1..Len(old) : m[j] = one(old[j]) /\ one(m[j]) = m[j]
  BY <1>1, <1>2, <1>4
<1>7. Rewritten(op, m) = [j \in 1..Len(old) |-> m[j]]
  BY <1>3, <1>5, <1>6
<1>8. m = [j \in 1..Len(old) |-> m[j]]
  BY <1>2, <1>6
<1> QED BY <1>7, <1>8 DEF m

(* The lines that differ are those of the first k that match and are       *)
(* replaced by another.                                                    *)
Differs(op, lines, j) == j \in Targets(op, lines) /\ Replaced(op, lines[j]) # lines[j]

(* The list after the first k lines that are not skipped: its links are    *)
(* those of the file, and the lines up to there are replaced.              *)
LinesChanged(op, lines, s, a) ==
  /\ \A j \in 1..Len(lines) :
       s.line[j] = IF j <= a /\ j \in Targets(op, lines) THEN Stored(op, lines[j]) ELSE lines[j]
  /\ s.changes > 0 <=> \E j \in 1..Len(lines) : j <= a /\ Differs(op, lines, j)

(* The list of those loops when they have passed the line a: its links are *)
(* those of the file, and nothing crashed.                                 *)
LineList(op, lines, s, a) ==
  LET n == Len(lines)
  IN  /\ s \in Lists(n) /\ ~s.crashed
      /\ s.head = Service(lines).head /\ s.next = Service(lines).next
      /\ LinesChanged(op, lines, s, a)

(* The list that is read is one where they have passed no line.            *)
LEMMA LineStart ==
  ASSUME NEW op, NEW lines \in Seq(PamLines)
  PROVE  LineList(op, lines, Service(lines), 0)
<1> DEFINE n == Len(lines)
           s == Service(lines)
<1>0. n \in Nat
  OBVIOUS
<1>1. s \in Lists(n)
  <2> HIDE DEF s
  <2> QED BY ServiceIsList DEF s
<1>2. s.line = [i \in 1..2*n |-> IF i <= n THEN lines[i] ELSE Comment] /\ s.changes = 0 /\ ~s.crashed
  BY DEF Service
<1> HIDE DEF s
<1>3. LinesChanged(op, lines, s, 0)
  <2>1. \A j \in 1..n : s.line[j] = lines[j] /\ ~(j <= 0)
    BY <1>0, <1>2
  <2>2. ~(s.changes > 0)
    BY <1>2
  <2> QED BY <2>1, <2>2 DEF LinesChanged
<1> QED BY <1>1, <1>2, <1>3 DEF LineList, s

(* A line that is passed is not replaced, and one that is found is.        *)
LEMMA LinesOn ==
  ASSUME NEW op, NEW lines \in Seq(PamLines), NEW n, n = Len(lines), NEW s, NEW t,
         NEW a \in 0..n, NEW i \in a + 1..n, LinesChanged(op, lines, s, a),
         \A j \in a + 1..i - 1 : j \notin Targets(op, lines),
         \A j \in 1..n : t.line[j] = IF j = i /\ i \in Targets(op, lines)
                                     THEN Stored(op, lines[j]) ELSE s.line[j],
         s.changes \in Nat,
         t.changes = IF Differs(op, lines, i) THEN s.changes + 1 ELSE s.changes
  PROVE  LinesChanged(op, lines, t, i)
<1> DEFINE T == Targets(op, lines)
           D(j) == Differs(op, lines, j)
           N(j) == Stored(op, lines[j])
<1>1. n \in Nat /\ a \in Nat /\ i \in Nat /\ i \in 1..n
  OBVIOUS
<1>2. \A j \in 1..n : j <= i <=> j <= a \/ j \in a + 1..i - 1 \/ j = i
  BY <1>1
<1>3. \A j \in 1..n : s.line[j] = IF j <= a /\ j \in T THEN N(j) ELSE lines[j]
  BY DEF LinesChanged
<1>4. s.changes > 0 <=> \E j \in 1..n : j <= a /\ D(j)
  BY DEF LinesChanged
<1>5. \A j \in 1..n : D(j) => j \in T
  BY DEF Differs
<1> HIDE DEF D, N, T
<1>6. \A j \in a + 1..i - 1 : j \notin T
  BY DEF T
<1>7. ASSUME NEW j \in 1..n
      PROVE  t.line[j] = IF j <= i /\ j \in T THEN N(j) ELSE lines[j]
  <2>1. t.line[j] = IF j = i /\ i \in T THEN N(j) ELSE s.line[j]
    BY DEF T, N
  <2>2. CASE j = i
    BY <1>1, <1>3, <2>1, <2>2
  <2>3. CASE j # i
    <3>1. t.line[j] = IF j <= a /\ j \in T THEN N(j) ELSE lines[j]
      BY <1>3, <2>1, <2>3
    <3>2. j <= i /\ j \in T <=> j <= a /\ j \in T
      BY <1>2, <1>6, <2>3
    <3> QED BY <3>1, <3>2
  <2> QED BY <2>2, <2>3
<1>8. t.changes > 0 <=> \E j \in 1..n : j <= i /\ D(j)
  <2>1. CASE D(i)
    <3>1. t.changes > 0
      BY <2>1 DEF D
    <3>2. i <= i
      BY <1>1
    <3> QED BY <1>1, <2>1, <3>1, <3>2
  <2>2. CASE ~D(i)
    <3>1. t.changes = s.changes
      BY <2>2 DEF D
    <3>2. \A j \in 1..n : D(j) => (j <= i <=> j <= a)
      BY <1>2, <1>5, <1>6, <2>2
    <3> QED BY <1>4, <3>1, <3>2
  <2> QED BY <2>1, <2>2
<1> QED BY <1>7, <1>8 DEF LinesChanged, D, N, T

(* One turn of the loop.                                                   *)
LEMMA LineFields ==
  ASSUME NEW n \in Nat, NEW s \in Lists(n), NEW i \in Nodes(n), NEW l,
         Keep(l) \in PamLines, l = s.line[i] => Keep(l) = l, NEW t, t = ChangeLine(s, i, l)
  PROVE  /\ t \in Lists(n) /\ t.head = s.head /\ t.next = s.next /\ t.crashed = s.crashed
         /\ \A j \in Nodes(n) : t.line[j] = IF j = i THEN Keep(l) ELSE s.line[j]
         /\ t.changes = IF l = s.line[i] THEN s.changes ELSE s.changes + 1
<1>1. CASE l = s.line[i]
  <2>1. t = s
    BY <1>1 DEF ChangeLine
  <2> QED BY <1>1, <2>1
<1>2. CASE l # s.line[i]
  <2> DEFINE m == Keep(l)
             u == [s EXCEPT !.line[i] = m]
  <2>0. m \in PamLines
    OBVIOUS
  <2>1. t = [s EXCEPT !.line[i] = m, !.changes = @ + 1]
    BY <1>2 DEF ChangeLine
  <2> HIDE DEF m
  <2>2. u \in Lists(n)
    BY <2>0, LineField
  <2>3. s \in Lists(n) /\ s.changes \in Nat /\ s.line \in [Nodes(n) -> PamLines]
    BY FieldTypes
  <2>4. t = [u EXCEPT !.changes = s.changes + 1] /\ u.changes = s.changes
    BY <2>1, <2>3 DEF Lists
  <2>5. t \in Lists(n)
    <3> HIDE DEF u
    <3>1. s.changes + 1 \in Nat
      BY <2>3
    <3> QED BY <2>2, <2>4, <3>1, CountField
  <2>6. t.head = s.head /\ t.next = s.next /\ t.crashed = s.crashed /\ t.changes = s.changes + 1
        /\ t.line = [s.line EXCEPT ![i] = m]
    BY <2>1, <2>3 DEF Lists
  <2> QED BY <1>2, <2>3, <2>5, <2>6 DEF m
<1> QED BY <1>1, <1>2

(* A turn at the line i, or none if it does not match.                     *)
LEMMA LineTurn ==
  ASSUME NEW op \in Tasks, op.state \in Changing, NEW lines \in Seq(PamLines), NEW n, n = Len(lines),
         NEW a \in 0..n, NEW i \in a + 1..n, NEW s, LineList(op, lines, s, a),
         \A j \in a + 1..i - 1 : j \notin Targets(op, lines),
         NEW t, t = IF i \notin Targets(op, lines) THEN s ELSE Turn(op, s, i)
  PROVE  LineList(op, lines, t, i)
<1> DEFINE T == Targets(op, lines)
           l == Replaced(op, lines[i])
<1>1. n \in Nat /\ i \in 1..n /\ i > a /\ i \in Nodes(n) /\ \A j \in 1..n : j \in Nodes(n)
  BY DEF Nodes
<1>2. /\ s \in Lists(n) /\ ~s.crashed
      /\ s.head = Service(lines).head /\ s.next = Service(lines).next
      /\ LinesChanged(op, lines, s, a)
  BY DEF LineList
<1>3. s.line[i] = lines[i]
  BY <1>1, <1>2 DEF LinesChanged
<1>4. s.changes \in Nat
  BY <1>1, <1>2, FieldTypes
<1>5. CASE i \notin T
  <2>1. t = s
    BY <1>5
  <2>2. ~Differs(op, lines, i)
    BY <1>5 DEF Differs
  <2>3. /\ \A j \in 1..n : t.line[j] = IF j = i /\ i \in Targets(op, lines)
                                       THEN Stored(op, lines[j]) ELSE s.line[j]
        /\ t.changes = IF Differs(op, lines, i) THEN s.changes + 1 ELSE s.changes
    BY <1>5, <2>1, <2>2
  <2>4. LinesChanged(op, lines, t, i)
    BY <1>2, <1>4, <2>3, LinesOn
  <2> QED BY <1>2, <2>1, <2>4 DEF LineList
<1>6. CASE i \in T
  <2>1. t = ChangeLine(s, i, l)
    <3>1. t = Turn(op, s, i)
      BY <1>6
    <3> QED BY <1>3, <3>1, TurnChanges
  <2>2. Keep(l) \in PamLines /\ Keep(l) = Stored(op, lines[i]) /\ (l = s.line[i] => Keep(l) = l)
    <3>1. lines[i] \in PamLines /\ Matches(lines[i], op.key)
      BY <1>1, <1>6 DEF Targets
    <3>2. Keep(lines[i]) = lines[i]
      BY <3>1, RuleIsKept DEF Matches
    <3>3. Stored(op, lines[i]) \in PamLines
      BY <3>1, ReplacedRule
    <3> QED BY <1>3, <3>2, <3>3 DEF Stored
  <2> HIDE DEF l
  <2>3. /\ t \in Lists(n) /\ t.head = s.head /\ t.next = s.next /\ t.crashed = s.crashed
        /\ \A j \in Nodes(n) : t.line[j] = IF j = i THEN Keep(l) ELSE s.line[j]
        /\ t.changes = IF l = s.line[i] THEN s.changes ELSE s.changes + 1
    BY ONLY <1>1, <1>2, <2>1, <2>2, LineFields
  <2>4. \A j \in 1..n : t.line[j] = IF j = i /\ i \in Targets(op, lines)
                                    THEN Stored(op, lines[j]) ELSE s.line[j]
    BY <1>1, <1>6, <2>2, <2>3
  <2>5. t.changes = IF Differs(op, lines, i) THEN s.changes + 1 ELSE s.changes
    BY <1>3, <1>6, <2>3 DEF Differs, l
  <2>6. LinesChanged(op, lines, t, i)
    BY <1>2, <1>4, <2>4, <2>5, LinesOn
  <2> QED BY <1>2, <2>3, <2>6 DEF LineList
<1> QED BY <1>5, <1>6

(* Lines up to the next one that is not skipped.                           *)
LEMMA LineWiden ==
  ASSUME NEW op, NEW lines \in Seq(PamLines), NEW n, n = Len(lines), NEW s,
         NEW a \in 0..n, LineList(op, lines, s, a),
         \A j \in a + 1..n : j \notin Targets(op, lines)
  PROVE  LineList(op, lines, s, n)
<1>1. n \in Nat /\ \A j \in 1..n : j <= n /\ (j <= a \/ j \in a + 1..n)
  OBVIOUS
<1>2. \A j \in 1..n : j \in Targets(op, lines) => j <= a
  BY <1>1
<1>3. LinesChanged(op, lines, s, a)
  BY DEF LineList
<1>4. \A j \in 1..n : s.line[j] = IF j <= a /\ j \in Targets(op, lines) THEN Stored(op, lines[j]) ELSE lines[j]
  BY <1>3 DEF LinesChanged
<1>5. s.changes > 0 <=> \E j \in 1..n : j <= a /\ Differs(op, lines, j)
  BY <1>3 DEF LinesChanged
<1>6. \A j \in 1..n : s.line[j] = IF j <= n /\ j \in Targets(op, lines) THEN Stored(op, lines[j]) ELSE lines[j]
  BY <1>1, <1>2, <1>4
<1>7. \A j \in 1..n : j <= a /\ Differs(op, lines, j) <=> j <= n /\ Differs(op, lines, j)
  BY <1>1, <1>2 DEF Differs
<1>8. LinesChanged(op, lines, s, n)
  BY <1>5, <1>6, <1>7 DEF LinesChanged
<1> QED BY <1>8 DEF LineList

(* In the end all lines are passed.                                        *)
LEMMA LinesAreEdited ==
  ASSUME NEW op \in Tasks, op.state \in Changing, NEW lines \in Seq(PamLines),
         NEW s, s = Edited(op, lines)
  PROVE  LineList(op, lines, s, Len(lines))
<1> DEFINE e == SignificantNodes(lines)
           n == Len(lines)
           S(k) == Stage(op, lines, k)
           U == {k \in Nat : k <= Len(e) => LineList(op, lines, S(k), At(e, k))}
<1>0. Len(e) \in Nat /\ n \in Nat
  BY WalkStart
<1>T. \A j \in 1..n : Skipped(lines[j]) => j \notin Targets(op, lines)
  BY LineKinds DEF Targets
<1>1. 0 \in U
  <2>1. S(0) = Service(lines)
    BY Stages
  <2>2. At(e, 0) = 0
    BY DEF At
  <2> HIDE DEF e
  <2> QED BY <2>1, <2>2, LineStart
<1>2. ASSUME NEW k \in Nat, k \in U PROVE k + 1 \in U
  <2> SUFFICES ASSUME k + 1 <= Len(e) PROVE LineList(op, lines, S(k + 1), At(e, k + 1))
    OBVIOUS
  <2> DEFINE sk == S(k)
             a == At(e, k)
             i == e[k + 1]
             t == IF i \notin Targets(op, lines) THEN sk ELSE Turn(op, sk, i)
  <2>0. k \in 0..Len(e) - 1 /\ k <= Len(e) /\ k \in 0..Len(e) /\ k < Len(e)
    BY <1>0
  <2>1. LineList(op, lines, sk, a)
    BY <1>2, <2>0
  <2>2. ~sk.crashed
    BY <2>1 DEF LineList
  <2>3. S(k + 1) = t
    BY <2>0, <2>2, Stages
  <2>4. /\ a \in 0..n /\ Ahead(e, k, n) \in a + 1..n + 1
        /\ \A j \in a + 1..Ahead(e, k, n) - 1 : j \in 1..n /\ Skipped(lines[j])
        /\ Ahead(e, k, n) \in 1..n /\ i = Ahead(e, k, n) /\ At(e, k + 1) = i
    <3> HIDE DEF e
    <3>1. e = SignificantNodes(lines)
      BY DEF e
    <3> QED BY <2>0, <3>1, Gaps
  <2> HIDE DEF S, e, a, i
  <2>5. i \in a + 1..n /\ \A j \in a + 1..i - 1 : j \notin Targets(op, lines)
    BY <1>0, <1>T, <2>4
  <2>6. LineList(op, lines, t, i)
    <3>1. t = IF i \notin Targets(op, lines) THEN sk ELSE Turn(op, sk, i)
      OBVIOUS
    <3> HIDE DEF t, sk
    <3>2. /\ op \in Tasks /\ op.state \in Changing /\ lines \in Seq(PamLines) /\ n = Len(lines)
          /\ a \in 0..n
      BY <2>4
    <3> HIDE DEF n
    <3> QED BY ONLY <2>1, <2>5, <3>1, <3>2, LineTurn
  <2> QED BY <2>3, <2>4, <2>6
<1>3. Len(e) \in U
  <2> HIDE DEF U
  <2> QED BY <1>0, <1>1, <1>2, SetInduction
<1>4. S(Len(e)) = s
  BY Stages
<1>5. LineList(op, lines, s, At(e, Len(e)))
  <2> HIDE DEF e, S
  <2> QED BY <1>0, <1>3, <1>4
<1>6. At(e, Len(e)) \in 0..n /\ \A j \in At(e, Len(e)) + 1..n : j \in 1..n /\ Skipped(lines[j])
  <2> DEFINE k == Len(e)
  <2>1. k \in 0..Len(e) /\ k = Len(e) /\ e = SignificantNodes(lines)
    BY <1>0
  <2> HIDE DEF e, k
  <2>2. /\ At(e, k) \in 0..n /\ Ahead(e, k, n) = n + 1
        /\ \A j \in At(e, k) + 1..Ahead(e, k, n) - 1 : j \in 1..n /\ Skipped(lines[j])
    BY <2>1, Gaps
  <2>3. (n + 1) - 1 = n
    BY <1>0
  <2> QED BY <2>2, <2>3 DEF k
<1> QED
  <2> HIDE DEF e
  <2> QED BY <1>0, <1>5, <1>6, <1>T, LineWiden

(* Those loops never crash and hold the rewritten lines.                   *)
LEMMA LinesHold ==
  ASSUME NEW op \in Tasks, op.state \in Changing, NEW lines \in Seq(PamLines),
         NEW s, s = Edited(op, lines)
  PROVE  /\ ~s.crashed /\ s \in Lists(Len(lines))
         /\ Holds(op, s, lines, Rewritten(op, Significant(lines)))
<1> DEFINE n == Len(lines)
           e == SignificantNodes(lines)
           q == Upto(n)
           T == Targets(op, lines)
           old == Significant(lines)
           U == {i \in 1..n : ~Skipped(lines[i])}
           L(j) == IF j \in T THEN Stored(op, lines[j]) ELSE lines[j]
<1>0. n \in Nat /\ q \in Seq(1..n) /\ Nodes(n) = 1..2*n /\ 1..n \subseteq Nodes(n)
  <2>1. n \in Nat
    OBVIOUS
  <2>2. q \in Seq(1..n)
    BY <2>1, UptoType
  <2> HIDE DEF n
  <2> QED BY <2>1, <2>2 DEF Nodes
<1>1. /\ s \in Lists(n) /\ ~s.crashed
      /\ s.head = Service(lines).head /\ s.next = Service(lines).next
      /\ LinesChanged(op, lines, s, n)
  BY LinesAreEdited DEF LineList
<1>2. /\ \A j \in 1..n : s.line[j] = L(j)
      /\ s.changes > 0 <=> \E j \in 1..n : Differs(op, lines, j)
  <2>1. \A j \in 1..n : j <= n
    BY <1>0
  <2> QED BY <1>1, <2>1 DEF LinesChanged
<1>3. Reached(s) = q
  <2> DEFINE m == 2*n
             r == Service(lines)
  <2>1. PICK pos : Forward(r, m, pos)
    <3>1. \E pos : Walk(r, lines, e, 0, <<>>, 1, pos)
      BY WalkStart
    <3> HIDE DEF r
    <3> QED BY <3>1 DEF Walk
  <2>2. Forward(s, m, pos)
    <3> HIDE DEF r, m
    <3> QED BY <1>1, <2>1 DEF Forward, r
  <2>3. s.head = (IF n = 0 THEN Nil ELSE 1) /\ s.next = [i \in 1..2*n |-> IF i < n THEN i + 1 ELSE Nil]
    BY <1>1 DEF Service
  <2>4. Linked(s, q)
    <3>1. Len(q) = n /\ \A j \in 1..n : q[j] = j
      BY <1>0 DEF Upto
    <3>2. q = <<>> <=> n = 0
      BY <1>0, <3>1
    <3>3. s.head = IF q = <<>> THEN Nil ELSE q[1]
      BY <1>0, <2>3, <3>1, <3>2
    <3>4. ASSUME NEW j \in 1..n PROVE s.next[q[j]] = IF j = n THEN Nil ELSE q[j + 1]
      <4>1. j \in 1..2*n /\ (j < n <=> j # n) /\ (j # n => j + 1 \in 1..n)
        BY <1>0
      <4> QED BY <2>3, <3>1, <4>1
    <3> HIDE DEF q, n
    <3> QED BY <3>1, <3>3, <3>4 DEF Linked
  <2>5. Len(s.line) = m /\ s.next \in [1..m -> 0..m] /\ q \in Seq(1..m) /\ m \in Nat
    <3>1. q \in Seq(1..m)
      BY <1>0, SeqWiden
    <3>2. Len(s.line) = m
      BY <1>0, <1>1, LinesLength
    <3>3. s.next \in [1..m -> 0..m]
      BY <1>1 DEF Lists
    <3> QED BY <1>0, <3>1, <3>2, <3>3
  <2> HIDE DEF m, q
  <2> QED BY <2>2, <2>4, <2>5, ReachedIsLinked
<1>4. \A j \in 1..n : j \in U <=> s.line[j] \in SignificantLines
  <2>1. SUFFICES ASSUME NEW j \in 1..n PROVE ~Skipped(lines[j]) <=> L(j) \in SignificantLines
    BY <1>2
  <2>2. lines[j] \in PamLines
    OBVIOUS
  <2>3. CASE j \in T
    <3>1. Matches(lines[j], op.key)
      BY <2>3 DEF Targets
    <3>2. ~Skipped(lines[j])
      BY <2>2, <3>1, LineKinds
    <3>3. Stored(op, lines[j]) \in SignificantLines
      BY <2>2, <3>1, ReplacedRule
    <3> QED BY <2>3, <3>2, <3>3
  <2>4. CASE j \notin T
    BY <2>2, <2>4, LineKinds
  <2> QED BY <2>3, <2>4
<1>5. Select(q, U) = e
  BY DEF SignificantNodes
<1>6. Content(s, q) = Values(s.line, e)
  <2> DEFINE I == 1..n
             f == s.line
             SL == SignificantLines
  <2>1. q \in Seq(I) /\ \A j \in I : j \in U <=> f[j] \in SL
    BY <1>0, <1>4
  <2> HIDE DEF I, f, U, q, SL
  <2>2. Select(Values(f, q), SL) = Values(f, Select(q, U))
    BY <2>1, SelectOfValues
  <2> QED BY <1>5, <2>2 DEF Content, f, SL
<1>7. Len(old) = Len(e) /\ \A j \in 1..Len(e) : old[j] = lines[e[j]]
  BY OldLines
<1>8. Len(e) \in Nat /\ e \in Seq(1..n) /\ \A j \in 1..Len(e) : e[j] \in 1..n
  <2>1. Select(q, U) \in Seq(1..n)
    <3> DEFINE I == 1..n
    <3> HIDE DEF I, q, U
    <3> QED BY <1>0, SelectSeqType DEF I
  <2>2. e \in Seq(1..n)
    BY <1>5, <2>1
  <2> DEFINE I == 1..n
  <2> HIDE DEF e, I
  <2>3. e \in Seq(I)
    BY <2>2 DEF I
  <2>4. Len(e) \in Nat /\ \A j \in 1..Len(e) : e[j] \in I
    BY <2>3
  <2> QED BY <2>2, <2>4 DEF I
<1> HIDE DEF e, q, U, n
<1>9. \A j \in 1..Len(e) : e[j] \in T <=> Matches(old[j], op.key)
  BY <1>7, <1>8 DEF Targets, n
<1>10. Content(s, q) = Rewritten(op, old)
  <2>1. Values(s.line, e) = [j \in 1..Len(e) |-> s.line[e[j]]]
    BY DEF Values
  <2>2. \A j \in 1..Len(e) :
          s.line[e[j]] = IF Matches(old[j], op.key) THEN Stored(op, old[j]) ELSE old[j]
    BY <1>2, <1>7, <1>8, <1>9
  <2> HIDE DEF old
  <2> QED BY <1>6, <1>7, <2>1, <2>2 DEF Rewritten
<1>11. ASSUME Plain(op) PROVE s.changes > 0 <=> Rewritten(op, old) # old
  <2> DEFINE R == Rewritten(op, old)
  <2>1. R = [j \in 1..Len(e) |-> IF Matches(old[j], op.key) THEN Stored(op, old[j]) ELSE old[j]]
    BY <1>7 DEF Rewritten
  <2>2. ASSUME NEW j \in 1..Len(e) PROVE R[j] # old[j] <=> Differs(op, lines, e[j])
    <3>1. old[j] = lines[e[j]] /\ e[j] \in 1..n /\ (e[j] \in T <=> Matches(old[j], op.key))
          /\ R[j] = IF Matches(old[j], op.key) THEN Stored(op, old[j]) ELSE old[j]
      BY <1>7, <1>8, <1>9, <2>1
    <3>2. old[j] \in PamLines
      BY <3>1 DEF n
    <3>3. Matches(old[j], op.key) => Stored(op, old[j]) = Replaced(op, old[j])
      BY <1>11, <3>2, ReplacedRule
    <3> HIDE DEF R, old
    <3> QED BY <3>1, <3>3 DEF Differs
  <2>3. ASSUME NEW j \in 1..n, Differs(op, lines, j) PROVE \E i \in 1..Len(e) : e[i] = j
    <3>1. lines[j] \in PamLines /\ Matches(lines[j], op.key)
      BY <2>3 DEF Differs, Targets, n
    <3>2. ~Skipped(lines[j])
      BY <3>1, LineKinds
    <3>3. j \in U
      BY <3>2 DEF U, n
    <3>4. Enumerates(e, n, U)
      BY <1>0, <1>5, Enumeration DEF q
    <3> QED BY <3>3, <3>4 DEF Enumerates
  <2>4. old = [j \in 1..Len(e) |-> old[j]]
    <3>1. old \in Seq(SignificantLines)
      BY SignificantIsValues
    <3> HIDE DEF old
    <3> QED BY <1>7, <3>1
  <2> HIDE DEF R, old
  <2>5. R # old <=> \E j \in 1..Len(e) : R[j] # old[j]
    <3>1. R = [j \in 1..Len(e) |-> R[j]]
      BY <2>1
    <3> HIDE DEF R
    <3>2. (\A j \in 1..Len(e) : R[j] = old[j]) => R = old
      BY <2>4, <3>1
    <3> QED BY <3>2
  <2>6. (\E j \in 1..n : Differs(op, lines, j)) <=> \E j \in 1..Len(e) : R[j] # old[j]
    BY <1>8, <2>2, <2>3
  <2>7. s.changes > 0 <=> \E j \in 1..n : Differs(op, lines, j)
    BY <1>2 DEF n
  <2> QED BY <2>5, <2>6, <2>7 DEF R
<1>12. q \in Seq(Nodes(n))
  BY <1>0, SeqWiden
<1>13. \E p \in Seq(Nodes(n)) : /\ Reached(s) = p /\ Content(s, p) = Rewritten(op, old)
                                /\ Plain(op) => (s.changes > 0 <=> Rewritten(op, old) # old)
  BY <1>3, <1>10, <1>11, <1>12
<1> QED BY <1>1, <1>13 DEF Holds, n

(* What a task makes of the lines that count.                              *)
Ref(op, old) == IF op.state \in Moving THEN Made(op, old, Len(old)) ELSE Rewritten(op, old)

(* A task moves lines or changes them.                                     *)
LEMMA TaskStates ==
  ASSUME NEW op \in Tasks
  PROVE  (op.state \in Moving \/ op.state \in Changing) /\ ~(op.state \in Moving /\ op.state \in Changing)
<1>1. op.state \in States
  BY DEF Tasks
<1> QED BY <1>1 DEF States, Moving, Changing

(* What a run that does not crash holds.                                   *)
LEMMA EditedHolds ==
  ASSUME NEW op \in Tasks, NEW lines \in Seq(PamLines), NEW s, s = Edited(op, lines), ~s.crashed
  PROVE  s \in Lists(Len(lines)) /\ Holds(op, s, lines, Ref(op, Significant(lines)))
<1>1. CASE op.state \in Moving
  BY <1>1, MovingHolds DEF Ref
<1>2. CASE op.state \in Changing
  BY <1>2, TaskStates, LinesHold DEF Ref
<1> QED BY <1>1, <1>2, TaskStates

(* A plain task that is not refused makes of lines that are read as they   *)
(* are such lines.                                                         *)
LEMMA RefIsRead ==
  ASSUME NEW op \in Tasks, Plain(op), ~Refused(op), NEW old \in Seq(SignificantFileLines)
  PROVE  Ref(op, old) \in Seq(SignificantFileLines)
<1>1. CASE op.state \in Moving
  BY <1>1, MadeIsRead DEF Ref
<1>2. CASE op.state \in Changing
  BY <1>2, TaskStates, RewrittenIsRead DEF Ref
<1> QED BY <1>1, <1>2, TaskStates

(* A run that is no check and does not fail.                               *)
LEMMA OutcomeMakes ==
  ASSUME NEW op \in Tasks, ~op.check, NEW lines \in Seq(FileLines),
         NEW r, r = Outcome(op, lines), ~r.failed
  PROVE  /\ r.lines \in Seq(FileLines)
         /\ Plain(op) => /\ Significant(r.lines) = Ref(op, Significant(lines))
                         /\ r.changed <=> Ref(op, Significant(lines)) # Significant(lines)
<1> DEFINE s == Edited(op, lines)
           made == Ref(op, Significant(lines))
<1>0. lines \in Seq(PamLines) /\ Significant(lines) \in Seq(SignificantFileLines)
  BY SignificantOfFile
<1>1. ~s.crashed /\ ~Refused(op)
  <2>1. RunOf(op, lines, s, r)
    BY OutcomeOf
  <2> QED BY ONLY <2>1, ~r.failed DEF RunOf
<1>2. s \in Lists(Len(lines)) /\ Holds(op, s, lines, made)
  <2> HIDE DEF s
  <2> QED BY <1>0, <1>1, EditedHolds DEF s
<1>5. Plain(op) => made \in Seq(FileLines)
  BY <1>0, <1>1, RefIsRead, SignificantFileSeq
<1>3. s = Edited(op, lines)
  OBVIOUS
<1> HIDE DEF s, made
<1>4. /\ r.lines \in Seq(FileLines)
      /\ Plain(op) => /\ Significant(r.lines) = made
                      /\ r.changed <=> made # Significant(lines)
  BY <1>2, <1>3, <1>5, OutcomeHolds
<1> QED BY <1>4 DEF made

(* Any run, whether it fails, checks only or writes.                       *)
LEMMA OutcomeTyped ==
  ASSUME NEW op \in Tasks, NEW lines \in Seq(FileLines), NEW r, r = Outcome(op, lines)
  PROVE  r.lines \in Seq(FileLines)
<1> DEFINE s == Edited(op, lines)
<1>1. RunOf(op, lines, s, r)
  BY OutcomeOf
<1> HIDE DEF s
<1>2. CASE r.failed
  BY ONLY <1>1, <1>2, lines \in Seq(FileLines) DEF RunOf
<1>3. CASE ~r.failed /\ (op.check \/ ~(s.changes > 0))
  <2>1. r.lines = lines
    BY ONLY <1>1, <1>3 DEF RunOf
  <2> QED BY <2>1
<1>4. CASE ~r.failed /\ ~op.check
  BY <1>4, OutcomeMakes
<1> QED BY <1>2, <1>3, <1>4
-----------------------------------------------------------------------------
(* Check mode edits the list as a run would.                               *)
LEMMA CheckEdits ==
  ASSUME NEW op \in Tasks, NEW lines \in Seq(PamLines), NEW c, c = [op EXCEPT !.check = TRUE]
  PROVE  c \in Tasks /\ c.check = TRUE /\ Edited(c, lines) = Edited(op, lines)
<1> DEFINE e == SignificantNodes(lines)
           S(k) == Stage(op, lines, k)
           C(k) == Stage(c, lines, k)
           U == {k \in Nat : k <= Len(e) => C(k) = S(k)}
<1>1. /\ op.state = c.state /\ op.key = c.key /\ op.new = c.new
      /\ op.hasargs = c.hasargs /\ op.args = c.args /\ c.check = TRUE
  BY DEF Tasks
<1>2. c \in Tasks
  BY DEF Tasks
<1>3. Len(e) \in Nat
  BY WalkStart
<1>4. Targets(c, lines) = Targets(op, lines)
  BY <1>1 DEF Targets
<1>5. ASSUME NEW s, NEW i PROVE Turn(c, s, i) = Turn(op, s, i)
  <2>1. NewRule(c) = NewRule(op)
    BY ONLY <1>1 DEF NewRule
  <2> QED BY ONLY <1>1, <2>1 DEF Turn
<1>6. 0 \in U
  BY Stages
<1>7. ASSUME NEW k \in Nat, k \in U PROVE k + 1 \in U
  <2> SUFFICES ASSUME k + 1 <= Len(e) PROVE C(k + 1) = S(k + 1)
    OBVIOUS
  <2>1. k \in 0..Len(e) - 1 /\ k <= Len(e)
    BY <1>3
  <2>2. C(k) = S(k)
    BY <1>7, <2>1
  <2>3. S(k + 1) = IF S(k).crashed \/ e[k + 1] \notin Targets(op, lines)
                   THEN S(k) ELSE Turn(op, S(k), e[k + 1])
    BY <2>1, Stages
  <2>4. C(k + 1) = IF C(k).crashed \/ e[k + 1] \notin Targets(c, lines)
                   THEN C(k) ELSE Turn(c, C(k), e[k + 1])
    BY <2>1, Stages
  <2> HIDE DEF S, C, e
  <2> QED BY <1>4, <1>5, <2>2, <2>3, <2>4
<1>8. Len(e) \in U
  <2> HIDE DEF U
  <2> QED BY <1>3, <1>6, <1>7, SetInduction
<1>9. C(Len(e)) = Edited(c, lines) /\ S(Len(e)) = Edited(op, lines)
  BY Stages
<1>10. C(Len(e)) = S(Len(e))
  <2> HIDE DEF e, C, S
  <2> QED BY <1>3, <1>8
<1> HIDE DEF C, S, e
<1> QED BY <1>1, <1>2, <1>9, <1>10

(* The report of a run of a plain task, and of the check of it.            *)
LEMMA ReportIsRight ==
  ASSUME NEW op \in Tasks, ~op.check, Plain(op), NEW lines \in Seq(FileLines),
         NEW r, r = Outcome(op, lines), NEW c, c = Outcome([op EXCEPT !.check = TRUE], lines)
  PROVE  /\ r.changed <=> Significant(r.lines) # Significant(lines)
         /\ c = [r EXCEPT !.lines = lines]
<1> DEFINE s == Edited(op, lines)
           o == [op EXCEPT !.check = TRUE]
<1>1. RunOf(op, lines, s, r)
  BY OutcomeOf
<1>2. o.check = TRUE /\ Edited(o, lines) = s
  <2>1. lines \in Seq(PamLines)
    BY SignificantOfFile
  <2> QED BY <2>1, CheckEdits
<1>10. Refused(o) <=> Refused(op)
  BY DEF Refused, Tasks
<1> HIDE DEF s, o
<1>3. RunOf(o, lines, s, c)
  BY <1>2, OutcomeOf DEF o
<1>4. r.changed <=> Significant(r.lines) # Significant(lines)
  <2>1. CASE r.failed
    <3>1. r.lines = lines /\ r.changed = FALSE
      BY ONLY <1>1, <2>1 DEF RunOf
    <3> QED BY <3>1
  <2>2. CASE ~r.failed
    <3>1. /\ Significant(r.lines) = Ref(op, Significant(lines))
          /\ r.changed <=> Ref(op, Significant(lines)) # Significant(lines)
      BY <2>2, OutcomeMakes
    <3> QED BY <3>1
  <2> QED BY <2>1, <2>2
<1>5. c.lines = lines
  BY ONLY <1>2, <1>3 DEF RunOf
<1>6. (c.failed <=> r.failed) /\ (c.changed <=> r.changed)
  <2>1. c.failed <=> r.failed
    BY ONLY <1>1, <1>3, <1>10 DEF RunOf
  <2>2. c.changed <=> r.changed
    BY ONLY <1>1, <1>3, <2>1 DEF RunOf
  <2> QED BY <2>1, <2>2
<1>7. c.failed \in BOOLEAN /\ r.failed \in BOOLEAN /\ c.changed \in BOOLEAN /\ r.changed \in BOOLEAN
  BY ONLY <1>1, <1>3 DEF RunOf
<1>8. c = [lines |-> c.lines, changed |-> c.changed, failed |-> c.failed]
  BY ONLY <1>3 DEF RunOf
<1>9. [r EXCEPT !.lines = lines] = [lines |-> lines, changed |-> r.changed, failed |-> r.failed]
  BY ONLY <1>1 DEF RunOf
<1> QED BY <1>4, <1>5, <1>6, <1>7, <1>8, <1>9

(* A list in which every line is left as it is.                            *)
LEMMA MadeOfSettled ==
  ASSUME NEW op \in Tasks, op.state \in Moving, NEW m \in Seq(SignificantLines),
         \A i \in 1..Len(m) : Piece(op, m, i) = <<m[i]>>
  PROVE  Made(op, m, Len(m)) = m
<1> DEFINE U == {k \in Nat : k <= Len(m) => Tally(op, m, k, 0)}
<1>1. Len(m) \in Nat
  OBVIOUS
<1>2. 0 \in U
  BY TallyStart
<1>3. ASSUME NEW k \in Nat, k \in U PROVE k + 1 \in U
  <2> SUFFICES ASSUME k + 1 <= Len(m) PROVE Tally(op, m, k + 1, 0)
    OBVIOUS
  <2>1. k \in 0..Len(m) - 1 /\ k + 1 \in 1..Len(m) /\ k <= Len(m)
    BY <1>1
  <2>2. Tally(op, m, k, 0)
    BY <1>3, <2>1
  <2>3. Piece(op, m, k + 1) = <<m[k + 1]>>
    BY <2>1
  <2>4. Counts(op, 0, 0, Piece(op, m, k + 1), m[k + 1])
    BY <2>3 DEF Counts
  <2> QED BY <2>1, <2>2, <2>4, TallyStep
<1>4. Len(m) \in U
  <2> HIDE DEF U
  <2> QED BY <1>1, <1>2, <1>3, SetInduction
<1>5. Tally(op, m, Len(m), 0)
  BY <1>1, <1>4
<1>6. ~(0 > 0)
  OBVIOUS
<1> QED BY <1>5, <1>6, TallyEnd

-----------------------------------------------------------------------------
(* Two lines that are side by side in a list that nothing is inserted in.  *)
Near(op, a, b) ==
  IF op.state = "before" THEN Matches(b, op.key) => Matches(a, op.new)
  ELSE Matches(a, op.key) => Matches(b, op.new)

(* A list in which nothing is inserted anywhere but at its ends.           *)
Chain(op, m) ==
  /\ m \in Seq(SignificantLines)
  /\ \A i \in 1..Len(m) - 1 : Near(op, m[i], m[i + 1])

(* The list m with the line x behind it.                                   *)
Longer(m, x, z) ==
  /\ z # <<>> /\ z[Len(z)] = x
  /\ z[1] = IF m = <<>> THEN x ELSE m[1]

(* One more line that is near the last.                                    *)
LEMMA ChainAppend ==
  ASSUME NEW op, NEW m, Chain(op, m), NEW x \in SignificantLines,
         m # <<>> => Near(op, m[Len(m)], x), NEW z, z = Append(m, x)
  PROVE  Chain(op, z) /\ Longer(m, x, z)
<1> DEFINE L == SignificantLines
<1>1. m \in Seq(L) /\ \A i \in 1..Len(m) - 1 : Near(op, m[i], m[i + 1])
  BY DEF Chain
<1> HIDE DEF L
<1>2. x \in L
  BY DEF L
<1>3. z \in Seq(L) /\ Len(z) = Len(m) + 1 /\ z[Len(m) + 1] = x /\ Len(m) \in Nat
      /\ \A i \in 1..Len(m) : z[i] = m[i]
  BY <1>1, <1>2
<1>4. m = <<>> <=> Len(m) = 0
  BY <1>1
<1>5. z # <<>>
  BY <1>3
<1>6. ASSUME NEW i \in 1..Len(z) - 1 PROVE Near(op, z[i], z[i + 1])
  <2>1. CASE i = Len(m)
    BY <1>3, <1>4, <2>1
  <2>2. CASE i # Len(m)
    <3>1. i \in 1..Len(m) - 1 /\ i \in 1..Len(m) /\ i + 1 \in 1..Len(m)
      BY <1>3, <2>2
    <3> QED BY <1>1, <1>3, <3>1
  <2> QED BY <2>1, <2>2
<1>7. z[1] = IF m = <<>> THEN x ELSE m[1]
  BY <1>3, <1>4
<1> QED BY <1>3, <1>5, <1>6, <1>7 DEF Chain, Longer, L

(* Where the part m that was made of k lines meets the next one.           *)
Joint(op, old, k, m) ==
  IF op.state = "before"
  THEN /\ m # <<>> => ~Matches(m[1], op.key)
       /\ k > 0 => m # <<>> /\ m[Len(m)] = old[k]
  ELSE m # <<>> /\ Matches(m[Len(m)], op.key) =>
         k + 1 \in 1..Len(old) /\ Matches(old[k + 1], op.new)

(* What becomes of a line, by whether it has its neighbour.                *)
LEMMA PieceOf ==
  ASSUME NEW op, op.state \in {"before", "after"}, NEW old \in Seq(SignificantLines),
         NEW k \in 0..Len(old) - 1, NEW x, x = old[k + 1],
         NEW p, p = Piece(op, old, k + 1), NEW rule, rule = NewRule(op)
  PROVE  IF op.state = "before"
         THEN \/ p = <<x>> /\ (Matches(x, op.key) => k > 0 /\ Matches(old[k], op.new))
              \/ p = <<rule, x>>
         ELSE \/ p = <<x>> /\ (Matches(x, op.key) => k + 2 \in 1..Len(old) /\ Matches(old[k + 2], op.new))
              \/ p = <<x, rule>>
<1>1. DOMAIN old = 1..Len(old) /\ (k + 1) - 1 = k /\ (k + 1) + 1 = k + 2 /\ op.state # "absent"
      /\ (k \in 1..Len(old) => k > 0)
  OBVIOUS
<1>2. CASE op.state = "before"
  <2>1. p = IF ~Matches(x, op.key) THEN <<x>>
            ELSE IF k \in 1..Len(old) /\ Matches(old[k], op.new) THEN <<x>> ELSE <<rule, x>>
    BY <1>1, <1>2 DEF Piece
  <2> QED BY <1>1, <1>2, <2>1
<1>3. CASE op.state = "after"
  <2>1. p = IF ~Matches(x, op.key) THEN <<x>>
            ELSE IF k + 2 \in 1..Len(old) /\ Matches(old[k + 2], op.new) THEN <<x>> ELSE <<x, rule>>
    BY <1>1, <1>3 DEF Piece
  <2> QED BY <1>1, <1>3, <2>1
<1> QED BY <1>2, <1>3

(* The rule that is inserted is none of those that it is inserted beside.  *)
LEMMA NewRuleBeside ==
  ASSUME NEW op \in Tasks, op.state \in {"before", "after"}, Plain(op), op.new # op.key,
         NEW rule, rule = NewRule(op)
  PROVE  rule \in SignificantLines /\ Matches(rule, op.new) /\ ~Matches(rule, op.key)
<1>1. rule \in SignificantLines /\ rule = Rule(op.new, op.args)
  BY InsertedRule
<1>2. rule.what = "rule" /\ rule.key = op.new
  BY <1>1 DEF Rule
<1> QED BY <1>1, <1>2 DEF Matches

(* A piece of insert_before is joined to the part before it.               *)
LEMMA JointBefore ==
  ASSUME NEW op \in Tasks, op.state = "before", Plain(op), op.new # op.key,
         NEW old \in Seq(SignificantLines), NEW k \in 0..Len(old) - 1,
         NEW m, Chain(op, m), Joint(op, old, k, m),
         NEW z, z = m \o Piece(op, old, k + 1)
  PROVE  Chain(op, z) /\ Joint(op, old, k + 1, z)
<1> DEFINE x == old[k + 1]
           rule == NewRule(op)
           p == Piece(op, old, k + 1)
           L == SignificantLines
<1>1. k + 1 > 0 /\ x \in L /\ op.state \in {"before", "after"} /\ k \in Nat
  OBVIOUS
<1>2. rule \in L /\ Matches(rule, op.new) /\ ~Matches(rule, op.key)
  BY <1>1, NewRuleBeside
<1>3. \/ p = <<x>> /\ (Matches(x, op.key) => k > 0 /\ Matches(old[k], op.new))
      \/ p = <<rule, x>>
  BY <1>1, PieceOf
<1>4. m \in Seq(L)
  BY DEF Chain
<1>5. /\ m # <<>> => ~Matches(m[1], op.key)
      /\ k > 0 => m # <<>> /\ m[Len(m)] = old[k]
  BY DEF Joint
<1> HIDE DEF x, rule, p, L
<1>6. CASE p = <<x>> /\ (Matches(x, op.key) => k > 0 /\ Matches(old[k], op.new))
  <2>1. z = Append(m, x)
    BY <1>1, <1>4, <1>6, AppendIsConcat DEF p
  <2>2. m # <<>> => Near(op, m[Len(m)], x)
    BY <1>1, <1>5, <1>6 DEF Near
  <2>3. Chain(op, z) /\ Longer(m, x, z)
    <3>1. x \in SignificantLines
      BY <1>1 DEF L
    <3> QED BY <2>1, <2>2, <3>1, ChainAppend
  <2>4. z[Len(z)] = x /\ z # <<>> /\ ~Matches(z[1], op.key)
    BY <1>5, <1>6, <2>3 DEF Longer
  <2> QED BY <1>1, <2>3, <2>4 DEF Joint, x
<1>7. CASE p = <<rule, x>>
  <2> DEFINE y == Append(m, rule)
  <2>0. rule \in SignificantLines /\ x \in SignificantLines
    BY <1>1, <1>2 DEF L
  <2>1. z = Append(y, x)
    <3>1. <<rule, x>> = <<rule>> \o <<x>> /\ <<rule>> \in Seq(L) /\ <<x>> \in Seq(L)
      BY <1>1, <1>2, Pair
    <3>2. m \o <<rule>> \o <<x>> = m \o (<<rule>> \o <<x>>)
      BY <1>4, <3>1
    <3>3. y = m \o <<rule>> /\ y \in Seq(L)
      BY <1>2, <1>4, AppendIsConcat
    <3> HIDE DEF y
    <3>4. Append(y, x) = y \o <<x>>
      BY <1>1, <3>3, AppendIsConcat
    <3> QED BY <1>7, <3>1, <3>2, <3>3, <3>4 DEF p
  <2>2. m # <<>> => Near(op, m[Len(m)], rule)
    BY <1>2 DEF Near
  <2>3. Chain(op, y) /\ Longer(m, rule, y)
    BY <2>0, <2>2, ChainAppend
  <2> HIDE DEF y
  <2>4. Near(op, y[Len(y)], x)
    BY <1>2, <2>3 DEF Near, Longer
  <2>5. Chain(op, z) /\ Longer(y, x, z)
    BY <2>0, <2>1, <2>3, <2>4, ChainAppend
  <2>6. z[Len(z)] = x /\ z # <<>> /\ ~Matches(z[1], op.key)
    BY <1>2, <1>5, <2>3, <2>5 DEF Longer
  <2> QED BY <1>1, <2>5, <2>6 DEF Joint, x
<1> QED BY <1>3, <1>6, <1>7

(* A piece of insert_after is joined to the part before it.                *)
LEMMA JointAfter ==
  ASSUME NEW op \in Tasks, op.state = "after", Plain(op), op.new # op.key,
         NEW old \in Seq(SignificantLines), NEW k \in 0..Len(old) - 1,
         NEW m, Chain(op, m), Joint(op, old, k, m),
         NEW z, z = m \o Piece(op, old, k + 1)
  PROVE  Chain(op, z) /\ Joint(op, old, k + 1, z)
<1> DEFINE x == old[k + 1]
           rule == NewRule(op)
           p == Piece(op, old, k + 1)
           L == SignificantLines
           y == Append(m, x)
<1>1. (k + 1) + 1 = k + 2 /\ x \in L /\ op.state \in {"before", "after"} /\ op.state # "before"
  OBVIOUS
<1>2. rule \in L /\ Matches(rule, op.new) /\ ~Matches(rule, op.key)
  BY <1>1, NewRuleBeside
<1>3. \/ p = <<x>> /\ (Matches(x, op.key) => k + 2 \in 1..Len(old) /\ Matches(old[k + 2], op.new))
      \/ p = <<x, rule>>
  BY <1>1, PieceOf
<1>4. m \in Seq(L)
  BY DEF Chain
<1>5. m # <<>> /\ Matches(m[Len(m)], op.key) => Matches(x, op.new)
  BY <1>1 DEF Joint
<1> HIDE DEF x, rule, p, L
<1>6. rule \in SignificantLines /\ x \in SignificantLines
  BY <1>1, <1>2 DEF L
<1>7. m # <<>> => Near(op, m[Len(m)], x)
  BY <1>1, <1>5 DEF Near
<1>8. Chain(op, y) /\ Longer(m, x, y)
  BY <1>6, <1>7, ChainAppend
<1>9. CASE p = <<x>> /\ (Matches(x, op.key) => k + 2 \in 1..Len(old) /\ Matches(old[k + 2], op.new))
  <2>1. z = y
    BY <1>1, <1>4, <1>9, AppendIsConcat DEF p
  <2> HIDE DEF y
  <2>2. z[Len(z)] = x
    BY <1>8, <2>1 DEF Longer
  <2>3. Matches(x, op.key) => (k + 1) + 1 \in 1..Len(old) /\ Matches(old[(k + 1) + 1], op.new)
    BY <1>1, <1>9
  <2>4. Joint(op, old, k + 1, z)
    BY <1>1, <2>2, <2>3 DEF Joint
  <2> QED BY <1>8, <2>1, <2>4
<1>10. CASE p = <<x, rule>>
  <2>1. z = Append(y, rule)
    <3>1. <<x, rule>> = <<x>> \o <<rule>> /\ <<rule>> \in Seq(L) /\ <<x>> \in Seq(L)
      <4>1. x \in L /\ rule \in L
        BY <1>1, <1>2
      <4>2. <<x>> \o <<rule>> = <<x, rule>>
        BY ONLY <4>1, Pair
      <4>3. <<rule>> \in Seq(L) /\ <<x>> \in Seq(L)
        BY ONLY <4>1
      <4> QED BY ONLY <4>2, <4>3
    <3>2. m \o <<x>> \o <<rule>> = m \o (<<x>> \o <<rule>>)
      BY <1>4, <3>1
    <3>3. y = m \o <<x>> /\ y \in Seq(L)
      BY <1>1, <1>4, AppendIsConcat
    <3> HIDE DEF y
    <3>4. Append(y, rule) = y \o <<rule>>
      BY <1>2, <3>3, AppendIsConcat
    <3> QED BY <1>10, <3>1, <3>2, <3>3, <3>4 DEF p
  <2> HIDE DEF y
  <2>2. Near(op, y[Len(y)], rule)
    BY <1>1, <1>2 DEF Near
  <2>3. Chain(op, z) /\ Longer(y, rule, z)
    BY <1>6, <1>8, <2>1, <2>2, ChainAppend
  <2>4. ~Matches(z[Len(z)], op.key)
    BY <1>2, <2>3 DEF Longer
  <2>5. Joint(op, old, k + 1, z)
    BY <1>1, <2>4 DEF Joint
  <2> QED BY <2>3, <2>5
<1> QED BY <1>3, <1>9, <1>10

(* What is made of a list: a list that everything is made of already.      *)
LEMMA MadeIsChain ==
  ASSUME NEW op \in Tasks, op.state \in {"before", "after"}, Plain(op), op.new # op.key,
         NEW old \in Seq(SignificantLines)
  PROVE  LET m == Made(op, old, Len(old)) IN Chain(op, m) /\ Joint(op, old, Len(old), m)
<1> DEFINE M(k) == Made(op, old, k)
           U == {k \in Nat : k <= Len(old) => Chain(op, M(k)) /\ Joint(op, old, k, M(k))}
<1>1. Len(old) \in Nat /\ op.state \in Moving
  BY DEF Moving
<1>2. 0 \in U
  <2>1. M(0) = <<>>
    BY <1>1, MadeStep
  <2>2. Chain(op, <<>>)
    BY DEF Chain
  <2>3. Joint(op, old, 0, <<>>)
    BY DEF Joint
  <2> QED BY <2>1, <2>2, <2>3
<1>3. ASSUME NEW k \in Nat, k \in U PROVE k + 1 \in U
  <2> SUFFICES ASSUME k + 1 <= Len(old) PROVE Chain(op, M(k + 1)) /\ Joint(op, old, k + 1, M(k + 1))
    OBVIOUS
  <2>1. k \in 0..Len(old) - 1 /\ k <= Len(old)
    BY <1>1
  <2>2. Chain(op, M(k)) /\ Joint(op, old, k, M(k))
    BY <1>3, <2>1
  <2>3. M(k + 1) = M(k) \o Piece(op, old, k + 1)
    BY <1>1, <2>1, MadeStep
  <2> HIDE DEF M
  <2> DEFINE m == M(k)
             z == M(k + 1)
  <2>4. Chain(op, m) /\ Joint(op, old, k, m) /\ z = m \o Piece(op, old, k + 1)
    BY <2>2, <2>3
  <2> HIDE DEF m, z
  <2>5. /\ op \in Tasks /\ Plain(op) /\ op.new # op.key /\ old \in Seq(SignificantLines) /\ k \in 0..Len(old) - 1
    BY <2>1
  <2>6. Chain(op, z) /\ Joint(op, old, k + 1, z)
    <3>1. CASE op.state = "before"
      BY ONLY <2>4, <2>5, <3>1, JointBefore
    <3>2. CASE op.state = "after"
      BY ONLY <2>4, <2>5, <3>2, JointAfter
    <3> QED BY <3>1, <3>2
  <2> QED BY <2>6 DEF z
<1>4. Len(old) \in U
  <2> HIDE DEF U
  <2> QED BY <1>1, <1>2, <1>3, SetInduction
<1> QED BY <1>1, <1>4

(* What is inserted is not inserted again.                                 *)
LEMMA InsertedTwice ==
  ASSUME NEW op \in Tasks, op.state \in {"before", "after"}, Plain(op), op.new # op.key,
         NEW old \in Seq(SignificantLines), NEW m, m = Made(op, old, Len(old))
  PROVE  Made(op, m, Len(m)) = m
<1>1. Chain(op, m) /\ Joint(op, old, Len(old), m)
  BY MadeIsChain
<1>2. m \in Seq(SignificantLines) /\ Len(old) \in Nat
  BY <1>1 DEF Chain
<1>3. ASSUME NEW i \in 1..Len(m), Matches(m[i], op.key)
      PROVE  IF op.state = "before" THEN i - 1 \in DOMAIN m /\ Matches(m[i - 1], op.new)
             ELSE i + 1 \in DOMAIN m /\ Matches(m[i + 1], op.new)
  <2>1. DOMAIN m = 1..Len(m) /\ m # <<>> /\ Len(m) \in Nat
    BY <1>2
  <2>2. CASE op.state = "before"
    <3>1. i # 1
      BY <1>1, <1>3, <2>1, <2>2 DEF Joint
    <3> DEFINE h == i - 1
    <3>2. h \in 1..Len(m) - 1 /\ h \in 1..Len(m) /\ h + 1 = i
      BY <2>1, <3>1
    <3> HIDE DEF h
    <3>3. Near(op, m[h], m[i])
      <4>1. Near(op, m[h], m[h + 1])
        BY <1>1, <3>2 DEF Chain
      <4> QED BY <3>2, <4>1
    <3>4. Matches(m[h], op.new)
      BY <1>3, <2>2, <3>3 DEF Near
    <3> QED BY <2>1, <2>2, <3>2, <3>4 DEF h
  <2>3. CASE op.state = "after"
    <3>0. op.state # "before"
      BY <2>3
    <3>1. i # Len(m)
      <4>1. Len(old) + 1 \notin 1..Len(old)
        BY <1>2
      <4> QED BY <1>1, <1>3, <2>1, <3>0, <4>1 DEF Joint
    <3>2. i \in 1..Len(m) - 1 /\ i + 1 \in 1..Len(m)
      <4> DEFINE l == Len(m)
      <4>1. l \in Nat /\ i \in 1..l /\ i # l
        BY <2>1, <3>1
      <4> HIDE DEF l
      <4>2. i \in 1..l - 1 /\ i + 1 \in 1..l
        BY ONLY <4>1
      <4> QED BY <4>2 DEF l
    <3>3. Near(op, m[i], m[i + 1])
      BY <1>1, <3>2 DEF Chain
    <3>4. Matches(m[i + 1], op.new)
      BY <1>3, <3>0, <3>3 DEF Near
    <3> QED BY <2>1, <3>0, <3>2, <3>4
  <2> QED BY <2>2, <2>3
<1>4. ASSUME NEW i \in 1..Len(m) PROVE Piece(op, m, i) = <<m[i]>>
  <2>1. CASE ~Matches(m[i], op.key)
    BY <2>1 DEF Piece
  <2>2. CASE Matches(m[i], op.key)
    <3>1. op.state # "absent" /\ (op.state = "before" \/ op.state # "before")
      OBVIOUS
    <3> QED BY <1>3, <2>2, <3>1 DEF Piece
  <2> QED BY <2>1, <2>2
<1>5. op.state \in Moving
  BY DEF Moving
<1> QED BY <1>2, <1>4, <1>5, MadeOfSettled

(* What is removed is not there to be removed again.                       *)
LEMMA RemovedTwice ==
  ASSUME NEW op \in Tasks, op.state = "absent", NEW old \in Seq(SignificantLines),
         NEW m, m = Made(op, old, Len(old))
  PROVE  Made(op, m, Len(m)) = m
<1> DEFINE L == SignificantLines
           T == {l \in L : ~Matches(l, op.key)}
<1>1. ASSUME NEW q \in Seq(L) PROVE Made(op, q, Len(q)) = Select(q, T)
  <2> DEFINE R == {l \in ToSet(q) : ~Matches(l, op.key)}
  <2>1. Made(op, q, Len(q)) = Select(q, R)
    BY RemovedIsMade
  <2> DEFINE S == ToSet(q)
  <2>2. q \in Seq(S) /\ S \subseteq L
    BY DEF ToSet
  <2>3. \A x \in S : x \in R <=> x \in T
    BY <2>2
  <2> HIDE DEF R, T, S
  <2>4. Select(q, R) = Select(q, T)
    BY <2>2, <2>3, SelectAgree
  <2> QED BY <2>1, <2>4
<1> HIDE DEF T
<1>2. m = Select(old, T) /\ m \in Seq(L)
  BY <1>1, SelectSeqType
<1>3. Select(Select(old, T), T) = Select(old, T \cap T)
  BY SelectTwice
<1>4. T \cap T = T
  OBVIOUS
<1> QED BY <1>1, <1>2, <1>3, <1>4

(* A plain task that is done a second time changes nothing.                *)
LEMMA RefTwice ==
  ASSUME NEW op \in Tasks, Plain(op), op.new # op.key, NEW old \in Seq(SignificantLines)
  PROVE  Ref(op, Ref(op, old)) = Ref(op, old)
<1>1. CASE op.state \in Moving
  <2> DEFINE m == Made(op, old, Len(old))
  <2>1. Ref(op, old) = m /\ Ref(op, m) = Made(op, m, Len(m))
    BY <1>1 DEF Ref
  <2>2. Made(op, m, Len(m)) = m
    <3>1. CASE op.state = "absent"
      BY <3>1, RemovedTwice
    <3>2. CASE op.state \in {"before", "after"}
      BY <3>2, InsertedTwice
    <3> QED BY <1>1, <3>1, <3>2 DEF Moving
  <2> QED BY <2>1, <2>2
<1>2. CASE op.state \notin Moving
  <2>1. op.state \in Changing
    BY <1>2, TaskStates
  <2>2. Ref(op, old) = Rewritten(op, old) /\ Ref(op, Rewritten(op, old)) = Rewritten(op, Rewritten(op, old))
    BY <1>2 DEF Ref
  <2> QED BY <2>1, <2>2, RewrittenTwice
<1> QED BY <1>1, <1>2

(* A second run of a plain task reports no change.                         *)
LEMMA SecondRun ==
  ASSUME NEW op \in Tasks, ~op.check, Plain(op), op.new # op.key, NEW lines \in Seq(FileLines),
         NEW r, r = Outcome(op, lines), ~r.failed, NEW d, d = Outcome(op, r.lines)
  PROVE  ~d.changed
<1> DEFINE old == Significant(lines)
           new == r.lines
<1>1. new \in Seq(FileLines) /\ Significant(new) = Ref(op, old)
  BY OutcomeMakes
<1>2. old \in Seq(SignificantLines)
  BY SignificantOfFile, SignificantFileSeq
<1>3. CASE d.failed
  <2>1. RunOf(op, new, Edited(op, new), d)
    BY OutcomeOf
  <2> QED BY ONLY <1>3, <2>1 DEF RunOf
<1>4. CASE ~d.failed
  <2> HIDE DEF old, new
  <2>1. d = Outcome(op, new)
    BY DEF new
  <2>2. d.changed <=> Ref(op, Significant(new)) # Significant(new)
    BY <1>1, <1>4, <2>1, OutcomeMakes
  <2>3. Ref(op, Ref(op, old)) = Ref(op, old)
    BY <1>2, RefTwice
  <2> QED BY <1>1, <2>2, <2>3
<1> QED BY <1>3, <1>4

-----------------------------------------------------------------------------
(* What the model runs on a file are tasks.                                *)
LEMMA TasksOfFile ==
  ASSUME NEW lines \in Seq(FileLines)
  PROVE  Ops(lines) \subseteq Tasks
<1>1. lines \in Seq(PamLines)
  BY SignificantOfFile
<1> QED BY <1>1, OpsAreTasks

(* The file is a sequence of lines as they are read.                       *)
PamTyped == pamfile \in Seq(FileLines) /\ edits \in 0..MaxEdits

(* The file stays a file of lines, whatever runs edit it.                  *)
THEOREM PamdTyped == PamdSpec => []PamTyped
<1>1. PamdInit => PamTyped
  <2> SUFFICES ASSUME PamdInit PROVE PamTyped
    OBVIOUS
  <2> DEFINE V == FirstLines
  <2>1. PICK n \in 0..Longest : pamfile \in [1..n -> V]
    BY DEF PamdInit
  <2>2. V \subseteq FileLines /\ n \in Nat
    <3>1. ASSUME NEW l \in PamLines, l.what = "rule" => l.args \in Written PROVE ~Joins(l.args)
      <4>1. CASE l.what = "rule"
        BY <3>1, <4>1, PamdAssumption
      <4>2. CASE l.what # "rule"
        BY <4>2 DEF PamLines, Other, Joins
      <4> QED BY <4>1, <4>2
    <3> QED BY <3>1, PamdAssumption DEF FirstLines, FileLines
  <2> HIDE DEF V
  <2>3. pamfile \in Seq(FileLines)
    BY <2>1, <2>2
  <2>4. edits \in 0..MaxEdits
    BY DEF PamdInit, MaxEdits
  <2> QED BY <2>3, <2>4 DEF PamTyped
<1>2. PamTyped /\ [PamdNext]_pamvars => PamTyped'
  <2> SUFFICES ASSUME PamTyped, [PamdNext]_pamvars PROVE PamTyped'
    OBVIOUS
  <2>1. CASE PamdNext
    <3>1. PICK op \in Ops(pamfile) : Run(op)
      BY <2>1 DEF PamdNext
    <3>2. pamfile \in Seq(FileLines) /\ op \in Tasks
      BY TasksOfFile DEF PamTyped
    <3>3. Outcome(op, pamfile).lines \in Seq(FileLines)
      BY <3>2, OutcomeTyped
    <3>4. edits < MaxEdits /\ edits \in 0..MaxEdits
      BY <2>1 DEF PamdNext, PamTyped
    <3>5. edits + 1 \in 0..MaxEdits
      BY <3>4 DEF MaxEdits
    <3>6. pamfile' = Outcome(op, pamfile).lines /\ edits' = edits + 1
      BY <3>1 DEF Run
    <3> QED BY <3>3, <3>5, <3>6 DEF PamTyped, MaxEdits
  <2>2. CASE UNCHANGED pamvars
    BY <2>2 DEF PamTyped, pamvars, MaxEdits
  <2> QED BY <2>1, <2>2
<1> QED BY <1>1, <1>2, PTL DEF PamdSpec

(* After a plain task a rule that is to be removed is gone, a new one is   *)
(* beside every rule that matches and had none, and all others are as they *)
(* were.                                                                   *)
THEOREM EditsRight == PamdSpec => []EditsAreRight
<1>1. PamTyped => EditsAreRight
  <2> SUFFICES ASSUME PamTyped, NEW op \in Ops(pamfile), Plain(op), ~op.check,
                      op.state \in {"before", "after", "absent"},
                      NEW r, r = Outcome(op, pamfile), NEW old, old = Significant(pamfile), ~r.failed
               PROVE  Significant(r.lines) =
                        IF op.state = "absent" THEN Select(old, {l \in ToSet(old) : ~Matches(l, op.key)})
                        ELSE Inserted(op, old)
    BY DEF EditsAreRight
  <2>1. pamfile \in Seq(FileLines) /\ op \in Tasks /\ op.state \in Moving
    BY TasksOfFile DEF PamTyped, Moving
  <2> QED BY <2>1, EditIsRight
<1> QED BY <1>1, PamdTyped, PTL

(* A run of a plain task reports a change if and only if it changed the    *)
(* rules, and a check reports what the run would.                          *)
THEOREM ChangesReported == PamdSpec => []ChangeIsReported
<1>1. PamTyped => ChangeIsReported
  <2> SUFFICES ASSUME PamTyped, NEW op \in Ops(pamfile), Plain(op), ~op.check,
                      NEW r, r = Outcome(op, pamfile),
                      NEW c, c = Outcome([op EXCEPT !.check = TRUE], pamfile)
               PROVE  /\ r.changed <=> Significant(r.lines) # Significant(pamfile)
                      /\ c = [r EXCEPT !.lines = pamfile]
    BY DEF ChangeIsReported
  <2>1. pamfile \in Seq(FileLines) /\ op \in Tasks
    BY TasksOfFile DEF PamTyped
  <2> QED BY <2>1, ReportIsRight
<1> QED BY <1>1, PamdTyped, PTL

(* The same plain task done again finds everything done.                   *)
THEOREM RunsAreIdempotent == PamdSpec => []Idempotent
<1>1. PamTyped => Idempotent
  <2> SUFFICES ASSUME PamTyped, NEW op \in Ops(pamfile), Plain(op), ~op.check, op.new # op.key,
                      NEW r, r = Outcome(op, pamfile), ~r.failed
               PROVE  ~Outcome(op, r.lines).changed
    BY DEF Idempotent
  <2>1. pamfile \in Seq(FileLines) /\ op \in Tasks
    BY TasksOfFile DEF PamTyped
  <2> QED BY <2>1, SecondRun
<1> QED BY <1>1, PamdTyped, PTL
=============================================================================

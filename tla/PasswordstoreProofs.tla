--------------------------- MODULE PasswordstoreProofs ---------------------------
(* Proofs about Passwordstore.                                             *)
EXTENDS Passwordstore, TLAPS

USE PasswordstoreAssumption

-----------------------------------------------------------------------------
(* Types.                                                                  *)

Labels == {"idle", "term", "outer", "check", "inner", "recheck", "update",
           "create", "generate", "leave", "raise"}

(* The contents an insert writes are files.                                *)
LEMMA FilesTyped ==
  ASSUME NEW file \in File, NEW o \in AllOptions, NEW new \in Values
  PROVE  Updated(file, o, new) \in File /\ Generated(o, new) \in File
<1> USE DEF File, AllOptions
<1>1. Blank \in [Keys -> Values \cup {Nothing}]
  BY DEF Blank
<1>2. file.value \in [Keys -> Values \cup {Nothing}] /\ o.key \in Keys
  OBVIOUS
<1>3. Kept(o, file.value[o.key]) \subseteq Values
  BY <1>2 DEF Kept
<1> QED
  BY <1>1, <1>2, <1>3 DEF Updated, Generated

(* The lock keeps its type and belongs to whoever is in it.                *)
LockInv == Lock!LockTypeOK /\ Lock!LockIsExclusive

(* Every operation on the lock keeps both.                                 *)
LEMMA LockKept ==
  ASSUME LockInv, NEW p \in Lookups,
         \/ Lock!SetLock(p) \/ Lock!Acquire(p) \/ Lock!Retry(p)
         \/ Lock!GiveUp(p) \/ Lock!Unlock(p) \/ Lock!Die(p) \/ UNCHANGED lock
  PROVE  LockInv'
<1> USE DEF LockInv, Lock!LockTypeOK, Lock!LockIsExclusive, Lock!Move
<1>1. CASE Lock!SetLock(p)
  BY <1>1 DEF Lock!SetLock
<1>2. CASE Lock!Acquire(p)
  BY <1>2 DEF Lock!Acquire, Lock!Flock
<1>3. CASE Lock!Retry(p)
  BY <1>3 DEF Lock!Retry, Lock!MayTry, Lock!CountTry
<1>4. CASE Lock!GiveUp(p)
  BY <1>4 DEF Lock!GiveUp
<1>5. CASE Lock!Unlock(p)
  BY <1>5 DEF Lock!Unlock, Lock!Release
<1>6. CASE Lock!Die(p)
  BY <1>6 DEF Lock!Die
<1>7. CASE UNCHANGED lock
  BY <1>7 DEF lock
<1> QED
  BY <1>1, <1>2, <1>3, <1>4, <1>5, <1>6, <1>7

(* Both hold at first, and the types.                                      *)
LEMMA InitTyped == Init => TypeOK /\ LockInv
BY DEF Init, TypeOK, LockInv, Lock!LockInit, Lock!LockTypeOK, Lock!LockIsExclusive

(* Answering and failing keep the types of what they change.               *)
LEMMA AnswerTyped ==
  ASSUME TypeOK, NEW p \in Lookups, name[p] \in Names, params[p] \in AllOptions,
         NEW v \in Values \cup {Nothing}, Answer(p, v)
  PROVE  /\ answers' \subseteq [name : Names, key : Keys,
                                value : Values \cup {Nothing}, asked : BOOLEAN]
         /\ pc' = [pc EXCEPT ![p] = "leave"]
<1>1. params[p].key \in Keys
  BY DEF AllOptions
<1>2. (params[p].missing = "create") \in BOOLEAN
  OBVIOUS
<1>3. PICK b \in BOOLEAN : b = (params[p].missing = "create")
  BY <1>2
<1>4. [name |-> name[p], key |-> params[p].key, value |-> v, asked |-> b]
        \in [name : Names, key : Keys, value : Values \cup {Nothing}, asked : BOOLEAN]
  BY <1>1, <1>3
<1>5. answers' = answers \cup
        {[name |-> name[p], key |-> params[p].key, value |-> v, asked |-> b]}
  BY <1>3, Zenon DEF Answer
<1> QED
  BY <1>4, <1>5 DEF Answer, Goto, TypeOK

(* The result of a file that was read is an answer or a failure.           *)
LEMMA PassResultTyped ==
  ASSUME TypeOK, NEW p \in Lookups, name[p] \in Names, params[p] \in AllOptions,
         NEW file \in File, PassResult(p, file)
  PROVE  /\ answers' \subseteq [name : Names, key : Keys,
                                value : Values \cup {Nothing}, asked : BOOLEAN]
         /\ \E label \in {"leave", "raise"} : pc' = [pc EXCEPT ![p] = label]
<1>1. file.value[params[p].key] \in Values \cup {Nothing}
  BY DEF File, AllOptions
<1>2. \/ Answer(p, file.value[params[p].key])
      \/ UNCHANGED answers /\ pc' = [pc EXCEPT ![p] = "raise"]
  BY DEF PassResult, NoAnswer, Goto
<1> QED
  BY <1>1, <1>2, AnswerTyped DEF TypeOK

(* Entering a lock context keeps the types.                                *)
LEMMA OptLockTyped ==
  ASSUME TypeOK, LockInv, NEW p \in Lookups, NEW type, NEW inside \in Labels,
         pc[p] \in {"outer", "inner", "create"},
         inside \in {"check", "update", "recheck"},
         inside # "check" => name[p] \in Names,
         pc[p] = "outer" => name[p] \in Names,
         inside = "update" => pc[p] = "inner",
         OptLock(p, type, inside)
  PROVE  TypeOK' /\ LockInv'
<1>1. LockInv'
  BY LockKept DEF OptLock
<1>2. \E label \in {"check", "update", "recheck", "raise"} :
        /\ pc' = pc \/ pc' = [pc EXCEPT ![p] = label]
        /\ label \in {inside, "raise"}
  BY DEF OptLock, Goto
<1>3. pc[p] # "idle" /\ name[p] \in Names
  BY DEF TypeOK
<1> QED
  BY <1>1, <1>2, <1>3 DEF OptLock, TypeOK, LockInv, locals

(* A failing command keeps the types.                                      *)
LEMMA FailsTyped ==
  ASSUME TypeOK, NEW p \in Lookups, pc[p] # "idle", Fails(p),
         UNCHANGED <<begun, locals, lock>>
  PROVE  TypeOK'
BY DEF Fails, NoAnswer, Goto, TypeOK, locals, lock, Lock!LockTypeOK

(* An insert keeps the types.                                              *)
LEMMA InsertTyped ==
  ASSUME TypeOK, NEW p \in Lookups, name[p] \in Names, params[p] \in AllOptions,
         NEW file \in File, Insert(p, file), UNCHANGED <<begun, locals, lock>>
  PROVE  TypeOK'
<1>1. born + 1 \in 1 .. MaxNew /\ born' = born + 1
  BY DEF Insert, TypeOK
<1>2. Answer(p, born')
  BY DEF Insert
<1>3. /\ answers' \subseteq [name : Names, key : Keys,
                             value : Values \cup {Nothing}, asked : BOOLEAN]
      /\ pc' = [pc EXCEPT ![p] = "leave"]
  BY <1>1, <1>2, AnswerTyped DEF Values
<1> QED
  BY <1>1, <1>3 DEF Insert, TypeOK, locals, lock, Lock!LockTypeOK

(* Every step keeps the types.                                             *)
LEMMA StepTyped ==
  ASSUME TypeOK, LockInv, Next \/ UNCHANGED vars
  PROVE  TypeOK' /\ LockInv'
<1>1. ASSUME NEW p \in Lookups, NEW o \in Options, Start(p, o)
      PROVE  TypeOK' /\ LockInv'
  <2>1. LockInv'
    BY <1>1, LockKept DEF Start
  <2> QED
    BY <1>1, <2>1 DEF Start, Goto, TypeOK, LockInv
<1>2. ASSUME NEW p \in Lookups, ParseTerm(p) PROVE TypeOK' /\ LockInv'
  <2>1. LockInv'
    BY <1>2, LockKept DEF ParseTerm
  <2>2. params' \in [Lookups -> AllOptions \cup {Nothing}] /\ params'[p] \in AllOptions
        /\ \A q \in Lookups \ {p} : params'[q] = params[q]
    <3>1. params[p] \in AllOptions
      BY <1>2 DEF ParseTerm, TypeOK
    <3>2. /\ [params[p] EXCEPT !.missing = "create"] \in AllOptions
          /\ [params[p] EXCEPT !.overwrite = TRUE] \in AllOptions
          /\ \A k \in Keys : [params[p] EXCEPT !.key = k] \in AllOptions
      BY <3>1 DEF AllOptions
    <3>3. \E o \in AllOptions : params' = [params EXCEPT ![p] = o]
      <4>1. \/ UNCHANGED params
            \/ params' = [params EXCEPT ![p].missing = "create"]
            \/ params' = [params EXCEPT ![p].overwrite = TRUE]
            \/ \E k \in Keys : params' = [params EXCEPT ![p].key = k]
        BY <1>2 DEF ParseTerm, locals
      <4> QED
        BY <4>1, <3>1, <3>2 DEF TypeOK
    <3> QED
      BY <3>3 DEF TypeOK
  <2>3. /\ pc' = [pc EXCEPT ![p] = "outer"]
        /\ terms' = [terms EXCEPT ![p] = @ - 1]
        /\ \E n \in Names : name' = [name EXCEPT ![p] = n]
    BY <1>2 DEF ParseTerm, Goto
  <2>4. terms[p] - 1 \in 0 .. MaxTerms
    BY <1>2 DEF ParseTerm, TypeOK
  <2> QED
    BY <1>2, <2>1, <2>2, <2>3, <2>4 DEF ParseTerm, TypeOK, LockInv
<1>3. ASSUME NEW p \in Lookups, OuterLock(p) PROVE TypeOK' /\ LockInv'
  BY <1>3, OptLockTyped DEF OuterLock, Labels, TypeOK
<1>4. ASSUME NEW p \in Lookups, Check(p) PROVE TypeOK' /\ LockInv'
  <2>1. LockInv'
    BY <1>4, LockKept DEF Check
  <2> DEFINE o == params[p]
             file == store[name[p]]
  <2>2. o \in AllOptions /\ name[p] \in Names /\ file \in File \cup {NoFile}
    BY <1>4 DEF Check, TypeOK
  <2>3. CASE Fails(p)
    BY <1>4, <2>1, <2>3 DEF Check, Fails, NoAnswer, Goto, TypeOK, LockInv, locals
  <2>4. CASE ShowFile(p) /\ (Found(p, file) \/ NotFound(p, file))
    <3>1. \/ file \in File /\ PassResult(p, file)
          \/ Answer(p, Nothing)
          \/ UNCHANGED answers /\ pc' = [pc EXCEPT ![p] = "inner"] /\ file # NoFile
          \/ UNCHANGED answers /\ pc' = [pc EXCEPT ![p] = "raise"]
          \/ UNCHANGED answers /\ pc' = [pc EXCEPT ![p] = "create"]
      BY <2>2, <2>4 DEF Found, NotFound, NoAnswer, Goto
    <3>2. answers' \subseteq [name : Names, key : Keys,
                              value : Values \cup {Nothing}, asked : BOOLEAN]
          /\ \E label \in {"inner", "raise", "create", "leave"} :
               /\ pc' = [pc EXCEPT ![p] = label]
               /\ label = "inner" => file # NoFile
      BY <2>2, <3>1, PassResultTyped, AnswerTyped DEF TypeOK
    <3> HIDE DEF file, o
    <3>3. /\ read' = [read EXCEPT ![p] = file]
          /\ UNCHANGED <<store, born, begun, terms, params, name>>
      BY <1>4, <2>4 DEF Check, ShowFile, Fails, locals, file
    <3> QED
      BY <1>4, <2>1, <2>2, <3>2, <3>3 DEF Check, TypeOK, LockInv
  <2> QED
    BY <1>4, <2>3, <2>4 DEF Check
<1>5. ASSUME NEW p \in Lookups, InnerLock(p) PROVE TypeOK' /\ LockInv'
  BY <1>5, OptLockTyped DEF InnerLock, Labels, TypeOK
<1>6. ASSUME NEW p \in Lookups, Recheck(p) PROVE TypeOK' /\ LockInv'
  <2>1. LockInv'
    BY <1>6, LockKept DEF Recheck
  <2> DEFINE file == store[name[p]]
  <2>2. params[p] \in AllOptions /\ name[p] \in Names /\ file \in File \cup {NoFile}
    BY <1>6 DEF Recheck, TypeOK
  <2>3. CASE Fails(p)
    BY <1>6, <2>1, <2>3, FailsTyped DEF Recheck
  <2>4. CASE ~Fails(p)
    <3>1. \/ file \in File /\ PassResult(p, file)
          \/ UNCHANGED answers /\ pc' = [pc EXCEPT ![p] = "generate"]
      BY <1>6, <2>2, <2>4 DEF Recheck, NoAnswer, Goto
    <3>2. answers' \subseteq [name : Names, key : Keys,
                              value : Values \cup {Nothing}, asked : BOOLEAN]
          /\ \E label \in {"generate", "raise", "leave"} :
               pc' = [pc EXCEPT ![p] = label]
      BY <2>2, <3>1, PassResultTyped DEF TypeOK
    <3> HIDE DEF file
    <3>3. /\ read' = [read EXCEPT ![p] = file] \/ UNCHANGED read
          /\ UNCHANGED <<store, born, begun, terms, params, name>>
      BY <1>6, <2>4 DEF Recheck, ShowFile, locals, file
    <3> QED
      BY <1>6, <2>1, <2>2, <3>2, <3>3 DEF Recheck, TypeOK, LockInv
  <2> QED
    BY <2>3, <2>4
<1>7. ASSUME NEW p \in Lookups, Update(p) PROVE TypeOK' /\ LockInv'
  <2>1. LockInv'
    BY <1>7, LockKept DEF Update
  <2>2. params[p] \in AllOptions /\ name[p] \in Names /\ read[p] \in File
    BY <1>7 DEF Update, TypeOK
  <2>3. CASE Fails(p)
    BY <1>7, <2>1, <2>3, FailsTyped DEF Update
  <2>4. CASE Insert(p, Updated(read[p], params[p], born + 1))
    <3>1. born + 1 \in Values
      BY <2>4 DEF Insert, TypeOK, Values
    <3> QED
      BY <1>7, <2>1, <2>2, <2>4, <3>1, FilesTyped, InsertTyped DEF Update
  <2> QED
    BY <1>7, <2>3, <2>4 DEF Update
<1>8. ASSUME NEW p \in Lookups, Generate(p) PROVE TypeOK' /\ LockInv'
  <2>1. LockInv'
    BY <1>8, LockKept DEF Generate
  <2>2. params[p] \in AllOptions /\ name[p] \in Names
    BY <1>8 DEF Generate, TypeOK
  <2>3. CASE Fails(p)
    BY <1>8, <2>1, <2>3, FailsTyped DEF Generate
  <2>4. CASE Insert(p, Generated(params[p], born + 1))
    <3>1. born + 1 \in Values
      BY <2>4 DEF Insert, TypeOK, Values
    <3>2. Generated(params[p], born + 1) \in File
      BY <2>2, <3>1 DEF Generated, Blank, File, AllOptions
    <3> QED
      BY <1>8, <2>1, <2>2, <2>4, <3>2, InsertTyped DEF Generate
  <2> QED
    BY <1>8, <2>3, <2>4 DEF Generate
<1>9. ASSUME NEW p \in Lookups, Leave(p) \/ Return(p) PROVE TypeOK' /\ LockInv'
  <2>1. LockInv'
    BY <1>9, LockKept DEF Leave, Return
  <2> QED
    BY <1>9, <2>1 DEF Leave, Return, Goto, TypeOK, LockInv, locals
<1>10. ASSUME NEW p \in Lookups, Killed(p) PROVE TypeOK' /\ LockInv'
  <2>1. LockInv'
    BY <1>10, LockKept DEF Killed
  <2> QED
    BY <1>10, <2>1 DEF Killed, Goto, TypeOK, LockInv, locals
<1>11. CASE UNCHANGED vars
  BY <1>11 DEF vars, locals, lock, TypeOK, LockInv, Lock!LockTypeOK,
               Lock!LockIsExclusive
<1> QED
  BY <1>1, <1>2, <1>3, <1>4, <1>5, <1>6, <1>7, <1>8, <1>9, <1>10, <1>11
     DEF Next, LookupStep

(* Types, and at most one lookup in the lock, for any number of processes, *)
(* terms, lookups and options and any mode.                                *)
THEOREM TypeCorrect == Spec => [](TypeOK /\ LockInv)
BY InitTyped, StepTyped, PTL DEF Spec
-----------------------------------------------------------------------------
(* Exclusion.                                                              *)

(* Where a lookup has the lock: all of a term, or the writing.             *)
Held ==
  IF Mode = "readwrite" THEN {"check", "inner", "create"} \cup Writing
  ELSE IF Mode = "write" THEN Writing ELSE {}

HoldsLock == \A p \in Lookups : pc[p] \in Held => at[p] = "in"

(* "update" is reached with the lock of either mode.                       *)
LEMMA OptLockHolds ==
  ASSUME TypeOK, HoldsLock, NEW p \in Lookups, NEW type, NEW inside,
         \/ pc[p] = "outer" /\ type = "readwrite" /\ inside = "check"
         \/ pc[p] \in {"inner", "create"} /\ type = "write"
            /\ inside \in {"update", "recheck"},
         OptLock(p, type, inside)
  PROVE  HoldsLock'
<1> USE DEF Lock!LockTypeOK
<1>1. CASE Takes(type) /\ (Lock!SetLock(p) \/ Lock!Retry(p)) /\ UNCHANGED pc
  BY <1>1 DEF Lock!SetLock, Lock!Retry, Lock!Move, HoldsLock, TypeOK
<1>2. CASE Takes(type) /\ Lock!Acquire(p) /\ Goto(p, inside)
  BY <1>2 DEF Lock!Acquire, Lock!Move, HoldsLock, Goto, TypeOK
<1>3. CASE Takes(type) /\ Lock!GiveUp(p) /\ Goto(p, "raise")
  BY <1>3 DEF Lock!GiveUp, Lock!Move, HoldsLock, Goto, TypeOK, Held, Writing
<1>4. CASE ~Takes(type) /\ Goto(p, inside) /\ UNCHANGED lock
  <2>1. pc[p] \in Held \/ inside \notin Held
    BY <1>4 DEF Held, Writing, Takes
  <2> QED
    BY <1>4, <2>1 DEF Goto, HoldsLock, TypeOK, lock
<1>5. CASE Takes(type) /\ UNCHANGED lock /\ Goto(p, "raise")
  BY <1>5 DEF HoldsLock, Goto, TypeOK, Held, Writing, lock
<1> QED
  BY <1>1, <1>2, <1>3, <1>4, <1>5 DEF OptLock

(* The other steps go on inside the lock, or leave it.                     *)
LEMMA HoldsStep ==
  ASSUME TypeOK, HoldsLock, Next \/ UNCHANGED vars
  PROVE  HoldsLock'
<1>1. ASSUME NEW p \in Lookups, NEW o \in Options, Start(p, o) PROVE HoldsLock'
  BY <1>1 DEF Start, Goto, HoldsLock, Held, Writing, lock, TypeOK
<1>2. ASSUME NEW p \in Lookups, ParseTerm(p) \/ Return(p) PROVE HoldsLock'
  <2>1. \E label \in {"idle", "outer"} : pc' = [pc EXCEPT ![p] = label]
    BY <1>2 DEF ParseTerm, Return, Goto
  <2>2. at' = at
    BY <1>2 DEF ParseTerm, Return, lock
  <2> QED
    BY <2>1, <2>2 DEF HoldsLock, Held, Writing, TypeOK
<1>3. ASSUME NEW p \in Lookups, OuterLock(p) \/ InnerLock(p) PROVE HoldsLock'
  BY <1>3, OptLockHolds DEF OuterLock, InnerLock
<1>4. ASSUME NEW p \in Lookups, Check(p) \/ Recheck(p) \/ Update(p) \/ Generate(p)
      PROVE  HoldsLock'
  <2>1. UNCHANGED at
    BY <1>4 DEF Check, Recheck, Update, Generate, lock
  <2>2. CASE Check(p)
    <3>1. \E label \in {"inner", "create", "raise", "leave"} :
            pc' = [pc EXCEPT ![p] = label]
      BY <2>2 DEF Check, Found, NotFound, PassResult, Answer, NoAnswer, Fails, Goto
    <3> QED
      BY <2>1, <2>2, <3>1 DEF Check, HoldsLock, Held, Writing, TypeOK
  <2>3. CASE Recheck(p) \/ Update(p) \/ Generate(p)
    <3>1. \E label \in {"generate", "raise", "leave"} :
            pc' = [pc EXCEPT ![p] = label]
      BY <2>3 DEF Recheck, PassResult, Answer, NoAnswer, Fails, Goto, Update,
                  Generate, Insert
    <3>2. pc'[p] = "generate" => pc[p] = "recheck"
      BY <2>3 DEF Recheck, Update, Generate, Insert, Answer, Fails, NoAnswer, Goto,
                  TypeOK
    <3> QED
      BY <2>1, <2>3, <3>1, <3>2 DEF HoldsLock, Held, Writing, TypeOK
  <2> QED
    BY <1>4, <2>2, <2>3
<1>5. ASSUME NEW p \in Lookups, Leave(p) PROVE HoldsLock'
  BY <1>5 DEF Leave, Goto, Lock!Unlock, Lock!Move, lock, HoldsLock, Held, Writing,
              TypeOK, Lock!LockTypeOK
<1>6. ASSUME NEW p \in Lookups, Killed(p) PROVE HoldsLock'
  BY <1>6 DEF Killed, Goto, Lock!Die, Lock!Move, HoldsLock, Held, Writing,
              TypeOK, Lock!LockTypeOK
<1>7. CASE UNCHANGED vars
  BY <1>7 DEF vars, lock, HoldsLock
<1> QED
  BY <1>1, <1>2, <1>3, <1>4, <1>5, <1>6, <1>7 DEF Next, LookupStep

(* Whoever is where the lock protects it has the lock.                     *)
LEMMA Holding == Spec => []HoldsLock
<1>1. Init => HoldsLock
  BY DEF Init, HoldsLock, Held, Writing
<1> QED
  BY <1>1, HoldsStep, TypeCorrect, PTL DEF Spec

(* No two processes are where the option 'lock' is to keep them apart, for *)
(* any number of them, and however they time out, fail or die.             *)
THEOREM Exclusion == Spec => []PassIsExclusive
<1>1. TypeOK /\ LockInv /\ HoldsLock => PassIsExclusive
  BY DEF PassIsExclusive, HoldsLock, LockInv, Lock!LockIsExclusive, Held, Writing
<1> QED
  BY <1>1, Holding, TypeCorrect, PTL
-----------------------------------------------------------------------------
(* With lock=readwrite, what a lookup has read is what it overwrites.      *)

Fresh ==
  \A p \in Lookups :
    /\ pc[p] \in {"inner", "update"} => read[p] = store[name[p]]
    /\ pc[p] \in {"create", "recheck", "generate"} => store[name[p]] = NoFile

(* Whoever has the lock is the only one that has read anything.            *)
LEMMA OneReader ==
  ASSUME Mode = "readwrite", LockInv, HoldsLock, NEW p \in Lookups, NEW q \in Lookups,
         p # q, pc[p] \in {"check", "inner", "create"} \cup Writing
  PROVE  pc[q] \notin {"check", "inner", "create"} \cup Writing
BY DEF LockInv, Lock!LockIsExclusive, HoldsLock, Held, Writing

(* Every step keeps it: whoever writes is the only reader.                 *)
LEMMA FreshStep ==
  ASSUME Mode = "readwrite", TypeOK, LockInv, HoldsLock, Fresh, Next \/ UNCHANGED vars
  PROVE  Fresh'
<1>1. ASSUME NEW p \in Lookups, NEW o \in Options, Start(p, o) PROVE Fresh'
  BY <1>1 DEF Start, Goto, Fresh, TypeOK
<1>2. ASSUME NEW p \in Lookups, ParseTerm(p) \/ Return(p) PROVE Fresh'
  <2>1. \E label \in {"idle", "outer"} : pc' = [pc EXCEPT ![p] = label]
    BY <1>2 DEF ParseTerm, Return, Goto
  <2>2. \/ name' = name
        \/ \E n \in Names : name' = [name EXCEPT ![p] = n]
    BY <1>2 DEF ParseTerm, Return, locals
  <2>3. UNCHANGED <<store, read>>
    BY <1>2 DEF ParseTerm, Return
  <2> QED
    BY <2>1, <2>2, <2>3 DEF Fresh, TypeOK
<1>3. ASSUME NEW p \in Lookups, OuterLock(p) PROVE Fresh'
  BY <1>3 DEF OuterLock, OptLock, Goto, Fresh, TypeOK, locals
<1>4. ASSUME NEW p \in Lookups, InnerLock(p) PROVE Fresh'
  <2>1. CASE pc[p] = "inner" /\ OptLock(p, "write", "update")
    BY <2>1 DEF OptLock, Takes, Goto, Fresh, TypeOK, locals
  <2>2. CASE pc[p] = "create" /\ OptLock(p, "write", "recheck")
    BY <2>2 DEF OptLock, Takes, Goto, Fresh, TypeOK, locals
  <2> QED
    BY <1>4, <2>1, <2>2 DEF InnerLock
<1>5. ASSUME NEW p \in Lookups, Check(p) PROVE Fresh'
  <2>1. CASE Fails(p)
    BY <1>5, <2>1 DEF Check, Fails, NoAnswer, Goto, Fresh, TypeOK, locals
  <2>2. CASE ~Fails(p)
    <3>1. \E label \in {"inner", "create", "raise", "leave"} :
            /\ pc' = [pc EXCEPT ![p] = label]
            /\ label = "create" => store[name[p]] = NoFile
      BY <1>5, <2>2 DEF Check, Found, NotFound, PassResult, Answer, NoAnswer, Goto
    <3>2. /\ read' = [read EXCEPT ![p] = store[name[p]]]
          /\ UNCHANGED <<store, name>>
      BY <1>5, <2>2 DEF Check, ShowFile, locals
    <3> QED
      BY <3>1, <3>2 DEF Fresh, TypeOK
  <2> QED
    BY <2>1, <2>2
<1>6. ASSUME NEW p \in Lookups, Recheck(p) PROVE Fresh'
  BY <1>6 DEF Recheck, LooksAgain, NoAnswer, Goto, Fresh, TypeOK, locals
<1>7. ASSUME NEW p \in Lookups, Update(p) \/ Generate(p) PROVE Fresh'
  <2>1. \A q \in Lookups \ {p} :
          pc[q] \notin {"inner", "update", "create", "recheck", "generate"}
    BY <1>7, OneReader DEF Update, Generate, Writing
  <2>2. \E label \in {"leave", "raise"} : pc' = [pc EXCEPT ![p] = label]
    BY <1>7 DEF Update, Generate, Insert, Answer, Fails, NoAnswer, Goto
  <2> QED
    BY <2>1, <2>2 DEF Fresh, TypeOK
<1>8. ASSUME NEW p \in Lookups, Leave(p) \/ Killed(p) PROVE Fresh'
  BY <1>8 DEF Leave, Killed, Goto, Fresh, TypeOK, locals
<1>9. CASE UNCHANGED vars
  BY <1>9 DEF vars, locals, Fresh
<1> QED
  BY <1>1, <1>2, <1>3, <1>4, <1>5, <1>6, <1>7, <1>8, <1>9 DEF Next, LookupStep

(* It is an invariant where all operations are synchronised.               *)
LEMMA Freshness == ASSUME Mode = "readwrite" PROVE Spec => []Fresh
<1>1. Init => Fresh
  BY DEF Init, Fresh
<1>2. TypeOK /\ LockInv /\ HoldsLock /\ Fresh /\ [Next]_vars => Fresh'
  BY FreshStep
<1> QED
  BY <1>1, <1>2, Holding, TypeCorrect, PTL DEF Spec

(* An option no term can set stays as the caller gave it.                  *)
Preserving == \A o \in Options : o.preserve
BackingUp == \A o \in Options : o.backup /\ o.timestamp

Lasting ==
  \A p \in Lookups : pc[p] # "idle" =>
    /\ Preserving => params[p].preserve
    /\ BackingUp => params[p].backup /\ params[p].timestamp

(* Terms set other options only.                                           *)
LEMMA LastingStep ==
  ASSUME TypeOK, Lasting, Next \/ UNCHANGED vars
  PROVE  Lasting'
<1>1. ASSUME NEW p \in Lookups, NEW o \in Options, Start(p, o) PROVE Lasting'
  BY <1>1 DEF Start, Goto, Lasting, TypeOK, Preserving, BackingUp
<1>2. ASSUME NEW p \in Lookups, ParseTerm(p) PROVE Lasting'
  <2>1. params[p] \in AllOptions
    BY <1>2 DEF ParseTerm, TypeOK
  <2>2. /\ \A q \in Lookups \ {p} : params'[q] = params[q]
        /\ params'[p].preserve = params[p].preserve
        /\ params'[p].backup = params[p].backup
        /\ params'[p].timestamp = params[p].timestamp
    <3>1. \/ UNCHANGED params
          \/ params' = [params EXCEPT ![p].missing = "create"]
          \/ params' = [params EXCEPT ![p].overwrite = TRUE]
          \/ \E k \in Keys : params' = [params EXCEPT ![p].key = k]
      BY <1>2 DEF ParseTerm, locals
    <3> QED
      BY <2>1, <3>1 DEF TypeOK, AllOptions
  <2>3. \A q \in Lookups : pc'[q] # "idle" => pc[q] # "idle"
    BY <1>2 DEF ParseTerm, Goto, TypeOK
  <2> QED
    BY <2>2, <2>3 DEF Lasting
<1>3. ASSUME NEW p \in Lookups, LookupStep(p) \/ Killed(p), ~ParseTerm(p) PROVE Lasting'
  <2>1. UNCHANGED params
    BY <1>3 DEF LookupStep, Return, OuterLock, InnerLock, OptLock, Check, Recheck,
                Update, Generate, Leave, Killed, locals
  <2>2. pc[p] # "idle" \/ pc'[p] = "idle"
    BY <1>3 DEF LookupStep, Return, OuterLock, InnerLock, Check, Recheck, Update,
                Generate, Leave, Killed, Goto, TypeOK
  <2>3. \A q \in Lookups \ {p} : pc'[q] = pc[q]
    BY <1>3 DEF LookupStep, Return, OuterLock, InnerLock, OptLock, Check, Found, NotFound,
                PassResult, Recheck, Update, Generate, Insert, Answer, Fails,
                NoAnswer, Leave, Killed, Goto, TypeOK
  <2> QED
    BY <2>1, <2>2, <2>3 DEF Lasting
<1>4. CASE UNCHANGED vars
  BY <1>4 DEF vars, locals, Lasting
<1> QED
  BY <1>1, <1>2, <1>3, <1>4 DEF Next

(* It is an invariant.                                                     *)
LEMMA OptionsLast == Spec => []Lasting
<1>1. Init => Lasting
  BY DEF Init, Lasting
<1> QED
  BY <1>1, LastingStep, TypeCorrect, PTL DEF Spec
-----------------------------------------------------------------------------
(* With lock=readwrite, the lookups implement the store of secrets.        *)

(* An answer adds one record to those given.                               *)
LEMMA OneAnswer ==
  ASSUME NEW p \in Lookups, NEW v, Answer(p, v)
  PROVE  \E a : /\ answers' = answers \cup {a}
                /\ a.name = name[p] /\ a.key = params[p].key /\ a.value = v
<1>1. PICK b : b = (params[p].missing = "create")
  OBVIOUS
<1> DEFINE a == [name |-> name[p], key |-> params[p].key, value |-> v, asked |-> b]
<1>2. answers' = answers \cup {a}
  BY <1>1, Zenon DEF Answer
<1>3. a.name = name[p] /\ a.key = params[p].key /\ a.value = v
  OBVIOUS
<1> QED
  BY <1>2, <1>3

(* An answer is one of the store of secrets.                               *)
LEMMA AnswerMaps ==
  ASSUME NEW p \in Lookups, NEW v, Answer(p, v)
  PROVE  Abstract!Answer(name[p], params[p].key, v)
<1>1. PICK a : /\ answers' = answers \cup {a}
               /\ a.name = name[p] /\ a.key = params[p].key /\ a.value = v
  BY OneAnswer
<1> QED
  BY <1>1 DEF Abstract!Answer, Answers

(* An insert sets the values of one name.                                  *)
LEMMA InsertMaps ==
  ASSUME TypeOK, NEW n \in Names, NEW file \in File,
         store' = [store EXCEPT ![n] = file]
  PROVE  Secret' = [Secret EXCEPT ![n] = file.value]
<1>1. file.value = [k \in Keys |-> file.value[k]]
  BY DEF File
<1>2. \A m \in Names : store'[m] = IF m = n THEN file ELSE store[m]
  BY DEF TypeOK
<1>3. \A m \in Names, k \in Keys :
        Value(m, k)' = IF m = n THEN file.value[k] ELSE Value(m, k)
  BY <1>2 DEF Value
<1>4. Secret' = [m \in Names |-> IF m = n THEN file.value ELSE Secret[m]]
  BY <1>1, <1>3 DEF Secret
<1> QED
  BY <1>4 DEF Secret

(* Reading is a Return, or nothing.                                        *)
LEMMA PassResultMaps ==
  ASSUME TypeOK, NEW p \in Lookups, name[p] \in Names, params[p] \in AllOptions,
         store[name[p]] \in File, PassResult(p, store[name[p]]), UNCHANGED store
  PROVE  Abstract!Next \/ UNCHANGED <<Secret, Answers>>
<1>1. UNCHANGED Secret
  BY DEF Secret, Value
<1>2. CASE UNCHANGED answers
  BY <1>1, <1>2 DEF Answers
<1>3. CASE Answer(p, store[name[p]].value[params[p].key])
  <2>1. params[p].key \in Keys
    BY DEF AllOptions
  <2>2. Secret[name[p]][params[p].key] = store[name[p]].value[params[p].key]
    BY <2>1 DEF Secret, Value
  <2>3. Abstract!Return(name[p], params[p].key)
    BY <1>1, <1>3, <2>2, AnswerMaps DEF Abstract!Return
  <2> QED
    BY <2>1, <2>3 DEF Abstract!Next
<1> QED
  BY <1>2, <1>3 DEF PassResult, NoAnswer

(* A write changes one key: the file is as the lookup has read it.         *)
LEMMA WriteMaps ==
  ASSUME TypeOK, NEW p \in Lookups, name[p] \in Names, params[p] \in AllOptions,
         NEW file \in File, Insert(p, file),
         \A k \in Keys : file.value[k] = IF k = params[p].key THEN born + 1
                                         ELSE Value(name[p], k)
  PROVE  Abstract!Next
<1> DEFINE k == params[p].key
           n == name[p]
<1>1. k \in Keys /\ born' = born + 1 /\ born' \in Values
  BY DEF AllOptions, Insert, TypeOK, Values
<1>2. Secret' = [Secret EXCEPT ![n] = file.value]
  BY InsertMaps DEF Insert
<1>3. file.value = [Secret[n] EXCEPT ![k] = born']
  BY <1>1 DEF File, Secret
<1>4. Secret' = [Secret EXCEPT ![n][k] = born']
  BY <1>2, <1>3
<1>5. Abstract!Answer(n, k, born')
  BY AnswerMaps DEF Insert
<1> QED
  BY <1>1, <1>4, <1>5 DEF Abstract!Next, Abstract!Store

(* Every step is one of the store of secrets, or a stutter.                *)
LEMMA StepMaps ==
  ASSUME Mode = "readwrite", Preserving, TypeOK, Fresh, Lasting,
         Next \/ UNCHANGED vars
  PROVE  Abstract!Next \/ UNCHANGED <<Secret, Answers>>
<1>1. CASE UNCHANGED <<store, answers>>
  BY <1>1 DEF Secret, Value, Answers
<1>2. ASSUME NEW p \in Lookups, Check(p)
      PROVE  Abstract!Next \/ UNCHANGED <<Secret, Answers>>
  <2>1. params[p] \in AllOptions /\ name[p] \in Names /\ UNCHANGED store
        /\ store[name[p]] \in File \cup {NoFile}
    BY <1>2 DEF Check, TypeOK, Fails
  <2>2. \/ store[name[p]] \in File /\ PassResult(p, store[name[p]])
        \/ store[name[p]] = NoFile /\ Answer(p, Nothing)
        \/ UNCHANGED answers
    BY <1>2, <2>1 DEF Check, Found, NotFound, NoAnswer, Fails
  <2>3. CASE store[name[p]] = NoFile /\ Answer(p, Nothing)
    <3>1. params[p].key \in Keys /\ Secret[name[p]][params[p].key] = Nothing
      BY <2>1, <2>3 DEF AllOptions, Secret, Value
    <3>2. UNCHANGED Secret
      BY <2>1 DEF Secret, Value
    <3> QED
      BY <2>1, <2>3, <3>1, <3>2, AnswerMaps DEF Abstract!Next, Abstract!Return
  <2> QED
    BY <1>1, <2>1, <2>2, <2>3, PassResultMaps
<1>3. ASSUME NEW p \in Lookups, Recheck(p) PROVE UNCHANGED <<store, answers>>
  BY <1>3 DEF Recheck, LooksAgain, NoAnswer, Fails
<1>4. ASSUME NEW p \in Lookups, Update(p)
      PROVE  Abstract!Next \/ UNCHANGED <<Secret, Answers>>
  <2>1. params[p] \in AllOptions /\ params[p].preserve /\ name[p] \in Names
        /\ read[p] \in File /\ read[p] = store[name[p]]
    BY <1>4 DEF Update, TypeOK, Fresh, Lasting
  <2> DEFINE file == Updated(read[p], params[p], born + 1)
  <2>2. CASE Insert(p, file)
    <3>1. born + 1 \in Values
      BY <2>2 DEF Insert, TypeOK, Values
    <3>2. file \in File
      BY <2>1, <3>1, FilesTyped
    <3>3. \A k \in Keys : file.value[k] = IF k = params[p].key THEN born + 1
                                          ELSE Value(name[p], k)
      BY <2>1 DEF Updated, Value, File
    <3> QED
      BY <2>1, <2>2, <3>2, <3>3, WriteMaps
  <2> QED
    BY <1>1, <1>4, <2>2 DEF Update, Fails, NoAnswer
<1>5. ASSUME NEW p \in Lookups, Generate(p)
      PROVE  Abstract!Next \/ UNCHANGED <<Secret, Answers>>
  <2>1. params[p] \in AllOptions /\ name[p] \in Names /\ store[name[p]] = NoFile
    BY <1>5 DEF Generate, TypeOK, Fresh
  <2> DEFINE file == Generated(params[p], born + 1)
  <2>2. CASE Insert(p, file)
    <3>1. born + 1 \in Values
      BY <2>2 DEF Insert, TypeOK, Values
    <3>2. file \in File
      BY <2>1, <3>1 DEF Generated, Blank, File, AllOptions
    <3>3. \A k \in Keys : file.value[k] = IF k = params[p].key THEN born + 1
                                          ELSE Value(name[p], k)
      BY <2>1 DEF Generated, Blank, Value
    <3> QED
      BY <2>1, <2>2, <3>2, <3>3, WriteMaps
  <2> QED
    BY <1>1, <1>5, <2>2 DEF Generate, Fails, NoAnswer
<1>6. ASSUME NEW p \in Lookups,
             \/ Return(p) \/ ParseTerm(p) \/ OuterLock(p) \/ InnerLock(p)
             \/ Leave(p) \/ Killed(p)
      PROVE  UNCHANGED <<store, answers>>
  BY <1>6 DEF Return, ParseTerm, OuterLock, InnerLock, OptLock, Leave, Killed
<1>7. ASSUME NEW p \in Lookups, NEW o \in Options, Start(p, o)
      PROVE  UNCHANGED <<store, answers>>
  BY <1>7 DEF Start
<1>8. CASE UNCHANGED vars
  BY <1>1, <1>8 DEF vars
<1> QED
  BY <1>1, <1>2, <1>3, <1>4, <1>5, <1>6, <1>7, <1>8 DEF Next, LookupStep

(* Whatever the number of processes and however they fail or die, lookups  *)
(* with lock=readwrite and preserve=true answer as if one at a time: no    *)
(* password or subkey is lost, created twice or overwritten by a write     *)
(* that did not know it.                                                   *)
THEOREM Serialisation ==
  ASSUME Mode = "readwrite", Preserving PROVE Spec => ImplementsSecretStore
<1>1. Init => Abstract!Init
  BY DEF Init, Abstract!Init, Secret, Value, Answers
<1>2. TypeOK /\ Fresh /\ Lasting /\ [Next]_vars => [Abstract!Next]_(Abstract!svars)
  BY StepMaps DEF Abstract!svars
<1> QED
  BY <1>1, <1>2, TypeCorrect, Freshness, OptionsLast, PTL
     DEF Spec, ImplementsSecretStore, Abstract!Spec
-----------------------------------------------------------------------------
(* With lock=readwrite, preserve=true, backup=true and timestamp=true.      *)

(* Answers that tell what is in the store, and writes that keep or back up *)
(* what they replace, leave every value returned so far traceable.         *)
LEMMA SameStoreTraced ==
  ASSUME NothingIsLost, UNCHANGED store, NEW p \in Lookups, NEW v,
         UNCHANGED answers \/ Answer(p, v),
         v = Nothing \/ Value(name[p], params[p].key) = v
  PROVE  NothingIsLost'
<1>1. CASE UNCHANGED answers
  BY <1>1 DEF NothingIsLost, Value
<1>2. CASE Answer(p, v)
  <2>1. PICK a : /\ answers' = answers \cup {a}
                 /\ a.name = name[p] /\ a.key = params[p].key /\ a.value = v
    BY <1>2, OneAnswer
  <2> QED
    BY <2>1 DEF NothingIsLost, Value
<1> QED
  BY <1>1, <1>2

(* A write that keeps or backs up what it replaces.                        *)
LEMMA WriteTraced ==
  ASSUME TypeOK, NothingIsLost, NEW p \in Lookups, name[p] \in Names,
         params[p] \in AllOptions, NEW file \in File, Insert(p, file),
         file.value[params[p].key] = born + 1,
         store[name[p]] # NoFile =>
           /\ store[name[p]].old \subseteq file.old
           /\ \A k \in Keys : LET v == store[name[p]].value[k] IN
                v # Nothing => v = file.value[k] \/ v \in file.old
  PROVE  NothingIsLost'
<1> DEFINE n == name[p]
<1>1. \A m \in Names : store'[m] = IF m = n THEN file ELSE store[m]
  BY DEF Insert, TypeOK
<1>2. PICK a : /\ answers' = answers \cup {a}
               /\ a.name = n /\ a.key = params[p].key /\ a.value = born + 1
  BY OneAnswer DEF Insert
<1>3. file # NoFile /\ n \in Names
  OBVIOUS
<1>4. Value(a.name, a.key)' = a.value
  BY <1>1, <1>2, <1>3 DEF Value
<1>5. ASSUME NEW b \in answers, b.value # Nothing
      PROVE  \/ Value(b.name, b.key)' = b.value
             \/ store'[b.name] # NoFile /\ b.value \in store'[b.name].old
  <2>1. b.name \in Names /\ b.key \in Keys
    BY DEF TypeOK
  <2>2. \/ Value(b.name, b.key) = b.value
        \/ store[b.name] # NoFile /\ b.value \in store[b.name].old
    BY <1>5 DEF NothingIsLost
  <2>3. CASE b.name # n
    BY <1>1, <2>1, <2>2, <2>3 DEF Value
  <2>4. CASE b.name = n
    <3>1. store[n] # NoFile
      BY <1>5, <2>2, <2>4 DEF Value
    <3>2. b.value = file.value[b.key] \/ b.value \in file.old
      BY <1>5, <2>1, <2>2, <2>4, <3>1 DEF Value
    <3> QED
      BY <1>1, <1>3, <2>4, <3>2 DEF Value
  <2> QED
    BY <2>3, <2>4
<1> QED
  <2> SUFFICES ASSUME NEW b \in answers', b.value # Nothing
               PROVE  \/ Value(b.name, b.key)' = b.value
                      \/ store'[b.name] # NoFile /\ b.value \in store'[b.name].old
    BY DEF NothingIsLost, Value
  <2> QED
    BY <1>2, <1>4, <1>5

(* Every step leaves the values returned traceable.                        *)
LEMMA StepTraced ==
  ASSUME Mode = "readwrite", Preserving, BackingUp, TypeOK, Fresh, Lasting,
         NothingIsLost, Next \/ UNCHANGED vars
  PROVE  NothingIsLost'
<1>1. CASE UNCHANGED <<store, answers>>
  BY <1>1 DEF NothingIsLost, Value
<1>2. ASSUME NEW p \in Lookups, Check(p) PROVE NothingIsLost'
  <2>1. UNCHANGED store
    BY <1>2 DEF Check, Fails
  <2>2. \E v : /\ UNCHANGED answers \/ Answer(p, v)
               /\ v = Nothing \/ Value(name[p], params[p].key) = v
    BY <1>2 DEF Check, Found, NotFound, PassResult, NoAnswer, Fails, Value
  <2> QED
    BY <2>1, <2>2, SameStoreTraced
<1>3. ASSUME NEW p \in Lookups, Recheck(p) PROVE UNCHANGED <<store, answers>>
  BY <1>3 DEF Recheck, LooksAgain, NoAnswer, Fails
<1>4. ASSUME NEW p \in Lookups, Update(p) PROVE NothingIsLost'
  <2>1. /\ params[p] \in AllOptions /\ params[p].preserve
        /\ params[p].backup /\ params[p].timestamp
        /\ name[p] \in Names /\ read[p] \in File /\ read[p] = store[name[p]]
    BY <1>4 DEF Update, TypeOK, Fresh, Lasting
  <2> DEFINE file == Updated(read[p], params[p], born + 1)
  <2>2. CASE Insert(p, file)
    <3>1. born + 1 \in Values /\ params[p].key \in Keys
      BY <2>1, <2>2 DEF Insert, TypeOK, Values, AllOptions
    <3>2. file \in File
      BY <2>1, <3>1, FilesTyped
    <3>3. /\ file.value = [read[p].value EXCEPT ![params[p].key] = born + 1]
          /\ file.old = read[p].old \cup ({read[p].value[params[p].key]} \ {Nothing})
      BY <2>1 DEF Updated, Kept
    <3>4. file.value[params[p].key] = born + 1
      BY <2>1, <3>1, <3>3 DEF File
    <3>5. \A k \in Keys : LET v == store[name[p]].value[k] IN
                v # Nothing => v = file.value[k] \/ v \in file.old
      BY <2>1, <3>1, <3>3 DEF File
    <3> QED
      BY <2>1, <2>2, <3>2, <3>3, <3>4, <3>5, WriteTraced
  <2> QED
    BY <1>1, <1>4, <2>2 DEF Update, Fails, NoAnswer
<1>5. ASSUME NEW p \in Lookups, Generate(p) PROVE NothingIsLost'
  <2>1. params[p] \in AllOptions /\ name[p] \in Names /\ store[name[p]] = NoFile
    BY <1>5 DEF Generate, TypeOK, Fresh
  <2> DEFINE file == Generated(params[p], born + 1)
  <2>2. CASE Insert(p, file)
    <3>1. born + 1 \in Values
      BY <2>2 DEF Insert, TypeOK, Values
    <3>2. file \in File /\ file.value[params[p].key] = born + 1
      BY <2>1, <3>1 DEF Generated, Blank, File, AllOptions
    <3> QED
      BY <2>1, <2>2, <3>2, WriteTraced
  <2> QED
    BY <1>1, <1>5, <2>2 DEF Generate, Fails, NoAnswer
<1>6. ASSUME NEW p \in Lookups,
             \/ Return(p) \/ ParseTerm(p) \/ OuterLock(p) \/ InnerLock(p)
             \/ Leave(p) \/ Killed(p)
      PROVE  UNCHANGED <<store, answers>>
  BY <1>6 DEF Return, ParseTerm, OuterLock, InnerLock, OptLock, Leave, Killed
<1>7. ASSUME NEW p \in Lookups, NEW o \in Options, Start(p, o)
      PROVE  UNCHANGED <<store, answers>>
  BY <1>7 DEF Start
<1>8. CASE UNCHANGED vars
  BY <1>1, <1>8 DEF vars
<1> QED
  BY <1>1, <1>2, <1>3, <1>4, <1>5, <1>6, <1>7, <1>8 DEF Next, LookupStep

(* Every value a lookup ever returned is in the store or in a backup line, *)
(* if all lookups keep backups (which takes backup=true and timestamp=true,*)
(* lines 450 and 464) and lock=readwrite; with lock=write it need not be.  *)
THEOREM BackupsSuffice ==
  ASSUME Mode = "readwrite", Preserving, BackingUp PROVE Spec => []NothingIsLost
<1>1. Init => NothingIsLost
  BY DEF Init, NothingIsLost
<1>2. TypeOK /\ Fresh /\ Lasting /\ NothingIsLost /\ [Next]_vars => NothingIsLost'
  BY StepTraced
<1> QED
  BY <1>1, <1>2, TypeCorrect, Freshness, OptionsLast, PTL DEF Spec
-----------------------------------------------------------------------------
(* Where nothing is overwritten, values stay.                              *)

(* No lookup overwrites; with lock=write, all ask for the password, since  *)
(* a new subkey is added to what was read without the lock (lines 575-585). *)
Asking ==
  /\ ~Inline /\ \A o \in Options : ~o.overwrite
  /\ \/ Mode = "readwrite"
     \/ Mode = "write" /\ \A o \in Options : o.key = Password

(* What is written is new: a subkey that was not there, or a file that     *)
(* still does not exist when the lock is held.                             *)
Settled ==
  \A p \in Lookups :
    /\ pc[p] # "idle" => /\ ~params[p].overwrite
                         /\ Mode # "readwrite" => params[p].key = Password
    /\ pc[p] \in {"inner", "update"} =>
         params[p].key # Password /\ read[p].value[params[p].key] = Nothing
    /\ pc[p] = "generate" => store[name[p]] = NoFile

(* The one that writes is alone; with lock=write, it creates.              *)
LEMMA OneWriter ==
  ASSUME Asking, LockInv, HoldsLock, Settled, NEW p \in Lookups, NEW q \in Lookups,
         p # q, pc[p] \in {"update", "generate"}
  PROVE  pc[q] # "generate"
<1>1. Mode \in {"readwrite", "write"}
  BY DEF Asking
<1> QED
  BY <1>1 DEF HoldsLock, Held, Writing, LockInv, Lock!LockIsExclusive

(* Each step keeps it: others are kept out while one writes.               *)
LEMMA SettledStep ==
  ASSUME Asking, TypeOK, LockInv, HoldsLock, Settled, Mode = "readwrite" => Fresh',
         Next \/ UNCHANGED vars
  PROVE  Settled'
<1>1. ASSUME NEW p \in Lookups, NEW o \in Options, Start(p, o) PROVE Settled'
  BY <1>1 DEF Start, Goto, Settled, TypeOK, Asking
<1>2. ASSUME NEW p \in Lookups, ParseTerm(p) PROVE Settled'
  <2>1. \E n \in Names : name' = [name EXCEPT ![p] = n]
    BY <1>2 DEF ParseTerm
  <2>2. /\ pc' = [pc EXCEPT ![p] = "outer"] /\ pc[p] # "idle"
        /\ UNCHANGED <<params, store, read>>
    BY <1>2 DEF ParseTerm, Goto, Asking
  <2> QED
    BY <2>1, <2>2 DEF Settled, TypeOK
<1>3. ASSUME NEW p \in Lookups, OuterLock(p) \/ InnerLock(p) PROVE Settled'
  <2>1. /\ pc[p] \in {"outer", "inner", "create"}
        /\ UNCHANGED <<params, name, store, read>>
        /\ \/ UNCHANGED pc
           \/ \E label \in {"check", "update", "recheck", "raise"} :
                /\ pc' = [pc EXCEPT ![p] = label]
                /\ label = "update" => pc[p] = "inner"
    BY <1>3 DEF OuterLock, InnerLock, OptLock, Goto, locals
  <2> QED
    BY <2>1 DEF Settled, TypeOK
<1>4. ASSUME NEW p \in Lookups, Check(p) PROVE Settled'
  <2>1. /\ pc[p] = "check" /\ UNCHANGED <<params, name, store>>
        /\ params[p] \in AllOptions
    BY <1>4 DEF Check, locals, Fails, TypeOK
  <2>2. \/ \E label \in {"create", "raise", "leave"} : pc' = [pc EXCEPT ![p] = label]
        \/ /\ pc' = [pc EXCEPT ![p] = "inner"]
           /\ read' = [read EXCEPT ![p] = store[name[p]]]
           /\ ToWrite(params[p], store[name[p]])
    BY <1>4 DEF Check, ShowFile, Found, NotFound, PassResult, Answer, NoAnswer, Fails,
                Goto
  <2>3. read' = read \/ read' = [read EXCEPT ![p] = store[name[p]]]
    BY <1>4 DEF Check, ShowFile, Fails
  <2> QED
    BY <2>1, <2>2, <2>3 DEF Settled, ToWrite, TypeOK
<1>5. ASSUME NEW p \in Lookups, Recheck(p) PROVE Settled'
  <2>1. /\ pc[p] = "recheck" /\ UNCHANGED <<params, name, store>>
    BY <1>5 DEF Recheck, locals, Fails
  <2>2. \/ \E label \in {"raise", "leave"} : pc' = [pc EXCEPT ![p] = label]
        \/ /\ pc' = [pc EXCEPT ![p] = "generate"]
           /\ Mode = "write" => store[name[p]] = NoFile
    BY <1>5 DEF Recheck, LooksAgain, PassResult, Answer, NoAnswer, Fails, Goto
  <2>3. read' = read \/ read' = [read EXCEPT ![p] = store[name[p]]]
    BY <1>5 DEF Recheck, ShowFile, Fails
  <2>4. pc'[p] = "generate" => store[name[p]] = NoFile
    BY <2>1, <2>2 DEF Asking, Fresh, TypeOK
  <2> QED
    BY <2>1, <2>2, <2>3, <2>4 DEF Settled, TypeOK
<1>6. ASSUME NEW p \in Lookups, Update(p) \/ Generate(p) PROVE Settled'
  <2>1. /\ pc[p] \in {"update", "generate"}
        /\ UNCHANGED <<params, name, read>>
        /\ \E label \in {"leave", "raise"} : pc' = [pc EXCEPT ![p] = label]
    BY <1>6 DEF Update, Generate, Insert, Answer, Fails, NoAnswer, Goto, locals
  <2>2. \A q \in Lookups : pc'[q] # "generate"
    BY <2>1, OneWriter DEF TypeOK
  <2> QED
    BY <2>1, <2>2 DEF Settled, TypeOK
<1>7. ASSUME NEW p \in Lookups, Leave(p) \/ Return(p) \/ Killed(p) PROVE Settled'
  <2>1. /\ UNCHANGED <<params, name, store, read>>
        /\ \/ pc' = [pc EXCEPT ![p] = "idle"]
           \/ pc[p] # "idle" /\ pc' = [pc EXCEPT ![p] = "term"]
    BY <1>7 DEF Leave, Return, Killed, Goto, locals
  <2> QED
    BY <2>1 DEF Settled, TypeOK
<1>8. CASE UNCHANGED vars
  BY <1>8 DEF vars, locals, Settled
<1> QED
  BY <1>1, <1>2, <1>3, <1>4, <1>5, <1>6, <1>7, <1>8 DEF Next, LookupStep

(* Answers that tell what is in the store, and writes that only add to it, *)
(* leave every value returned so far where it is.                          *)
LEMMA SameStoreStored ==
  ASSUME ReturnedIsStored, UNCHANGED store, NEW p \in Lookups, NEW v,
         UNCHANGED answers \/ Answer(p, v),
         v = Nothing \/ Value(name[p], params[p].key) = v
  PROVE  ReturnedIsStored'
<1>1. CASE UNCHANGED answers
  BY <1>1 DEF ReturnedIsStored, Value
<1>2. CASE Answer(p, v)
  <2>1. PICK a : /\ answers' = answers \cup {a}
                 /\ a.name = name[p] /\ a.key = params[p].key /\ a.value = v
    BY <1>2, OneAnswer
  <2> QED
    BY <2>1 DEF ReturnedIsStored, Value
<1> QED
  BY <1>1, <1>2

(* A write that adds a value.                                              *)
LEMMA WriteStored ==
  ASSUME TypeOK, ReturnedIsStored, NEW p \in Lookups, name[p] \in Names,
         params[p] \in AllOptions, NEW file \in File, Insert(p, file),
         file.value[params[p].key] = born + 1,
         \A k \in Keys : Value(name[p], k) # Nothing => file.value[k] = Value(name[p], k)
  PROVE  ReturnedIsStored'
<1> DEFINE n == name[p]
<1>1. \A m \in Names : store'[m] = IF m = n THEN file ELSE store[m]
  BY DEF Insert, TypeOK
<1>2. PICK a : /\ answers' = answers \cup {a}
               /\ a.name = n /\ a.key = params[p].key /\ a.value = born + 1
  BY OneAnswer DEF Insert
<1>3. file # NoFile /\ n \in Names
  OBVIOUS
<1>4. Value(a.name, a.key)' = a.value
  BY <1>1, <1>2, <1>3 DEF Value
<1>5. ASSUME NEW b \in answers, b.value # Nothing
      PROVE  Value(b.name, b.key)' = b.value
  <2>1. b.name \in Names /\ b.key \in Keys
    BY DEF TypeOK
  <2>2. Value(b.name, b.key) = b.value
    BY <1>5 DEF ReturnedIsStored
  <2> QED
    BY <1>1, <1>3, <1>5, <2>1, <2>2 DEF Value
<1> QED
  BY <1>2, <1>4, <1>5 DEF ReturnedIsStored

(* The values returned stay, step by step.                                 *)
LEMMA StepStored ==
  ASSUME Asking, TypeOK, Settled, Mode = "readwrite" => Fresh, ReturnedIsStored,
         Next \/ UNCHANGED vars
  PROVE  ReturnedIsStored'
<1>1. CASE UNCHANGED <<store, answers>>
  BY <1>1 DEF ReturnedIsStored, Value
<1>2. ASSUME NEW p \in Lookups, Check(p) \/ Recheck(p) PROVE ReturnedIsStored'
  <2>1. UNCHANGED store
    BY <1>2 DEF Check, Recheck, Fails
  <2>2. \E v : /\ UNCHANGED answers \/ Answer(p, v)
               /\ v = Nothing \/ Value(name[p], params[p].key) = v
    BY <1>2 DEF Check, Recheck, Found, NotFound, PassResult, NoAnswer, Fails, Value
  <2> QED
    BY <2>1, <2>2, SameStoreStored
<1>3. ASSUME NEW p \in Lookups, Update(p) PROVE ReturnedIsStored'
  <2>1. /\ params[p] \in AllOptions /\ params[p].key \in Keys /\ params[p].key # Password
        /\ name[p] \in Names /\ read[p] \in File
        /\ read[p].value[params[p].key] = Nothing /\ pc[p] = "update"
    BY <1>3 DEF Update, TypeOK, Settled, AllOptions
  <2>2. read[p] = store[name[p]]
    <3>1. Mode = "readwrite"
      BY <2>1 DEF Settled
    <3> QED
      BY <2>1, <3>1 DEF Fresh
  <2> DEFINE file == Updated(read[p], params[p], born + 1)
  <2>3. CASE Insert(p, file)
    <3>1. born + 1 \in Values
      BY <2>3 DEF Insert, TypeOK, Values
    <3>2. file \in File
      BY <2>1, <3>1, FilesTyped
    <3>3. file.value = [read[p].value EXCEPT ![params[p].key] = born + 1]
      BY <2>1 DEF Updated
    <3>4. /\ file.value[params[p].key] = born + 1
          /\ \A k \in Keys :
               Value(name[p], k) # Nothing => file.value[k] = Value(name[p], k)
      BY <2>1, <2>2, <3>3 DEF File, Value
    <3> QED
      BY <2>1, <2>3, <3>2, <3>4, WriteStored
  <2> QED
    BY <1>1, <1>3, <2>3 DEF Update, Fails, NoAnswer
<1>4. ASSUME NEW p \in Lookups, Generate(p) PROVE ReturnedIsStored'
  <2>1. params[p] \in AllOptions /\ name[p] \in Names /\ store[name[p]] = NoFile
    BY <1>4 DEF Generate, TypeOK, Settled
  <2> DEFINE file == Generated(params[p], born + 1)
  <2>2. CASE Insert(p, file)
    <3>1. born + 1 \in Values
      BY <2>2 DEF Insert, TypeOK, Values
    <3>2. file \in File /\ file.value[params[p].key] = born + 1
      BY <2>1, <3>1 DEF Generated, Blank, File, AllOptions
    <3>3. \A k \in Keys : Value(name[p], k) = Nothing
      BY <2>1 DEF Value
    <3> QED
      BY <2>1, <2>2, <3>2, <3>3, WriteStored
  <2> QED
    BY <1>1, <1>4, <2>2 DEF Generate, Fails, NoAnswer
<1>5. ASSUME NEW p \in Lookups,
             \/ Return(p) \/ ParseTerm(p) \/ OuterLock(p) \/ InnerLock(p)
             \/ Leave(p) \/ Killed(p)
      PROVE  UNCHANGED <<store, answers>>
  BY <1>5 DEF Return, ParseTerm, OuterLock, InnerLock, OptLock, Leave, Killed
<1>6. ASSUME NEW p \in Lookups, NEW o \in Options, Start(p, o)
      PROVE  UNCHANGED <<store, answers>>
  BY <1>6 DEF Start
<1>7. CASE UNCHANGED vars
  BY <1>1, <1>7 DEF vars
<1> QED
  BY <1>1, <1>2, <1>3, <1>4, <1>5, <1>6, <1>7 DEF Next, LookupStep

(* A value that a lookup returned is in the store for good where nothing   *)
(* is overwritten, so all callers agree on it: for passwords with          *)
(* lock=write, and for subkeys as well with lock=readwrite, for any number *)
(* of processes, however they time out, fail or die.                       *)
THEOREM ReturnedStays == ASSUME Asking PROVE Spec => []ReturnedIsStored
<1>1. Init => Settled /\ ReturnedIsStored
  BY DEF Init, Settled, ReturnedIsStored
<1>2. CASE Mode = "readwrite"
  <2>1. TypeOK /\ LockInv /\ HoldsLock /\ Fresh' /\ Settled /\ [Next]_vars => Settled'
    BY SettledStep
  <2>2. /\ TypeOK /\ Fresh /\ Settled /\ ReturnedIsStored /\ [Next]_vars
        => ReturnedIsStored'
    BY StepStored
  <2>3. Spec => []Fresh
    BY <1>2, Freshness
  <2> QED
    BY <1>1, <2>1, <2>2, <2>3, Holding, TypeCorrect, PTL DEF Spec
<1>3. CASE Mode # "readwrite"
  <2>1. TypeOK /\ LockInv /\ HoldsLock /\ Settled /\ [Next]_vars => Settled'
    BY <1>3, SettledStep
  <2>2. TypeOK /\ Settled /\ ReturnedIsStored /\ [Next]_vars => ReturnedIsStored'
    BY <1>3, StepStored
  <2> QED
    BY <1>1, <2>1, <2>2, Holding, TypeCorrect, PTL DEF Spec
<1> QED
  BY <1>2, <1>3
=============================================================================

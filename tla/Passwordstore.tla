----------------------------- MODULE Passwordstore -----------------------------
(***************************************************************************)
(* The passwordstore lookup (plugins/lookup/passwordstore.py): processes   *)
(* of one user look up, create and overwrite passwords and subkeys in one  *)
(* password store, synchronised by one file lock (FileLock) as the option  *)
(* 'lock' says.  A lookup has several terms; each reads its password file  *)
(* with 'pass show' and may replace it with 'pass insert'.                 *)
(*                                                                         *)
(* A password file is the value of each key, the first line being the key  *)
(* Password and the subkeys the others, and the old values its backup      *)
(* lines name.  Generated passwords are numbered: no two are the same.     *)
(***************************************************************************)
EXTENDS Naturals

CONSTANTS
  Lookups,    \* the processes
  Names,      \* the names of password files
  Password,   \* the key of the first line
  Subkeys,    \* the other keys
  Nothing,    \* no value
  NoFile,     \* the password file does not exist
  Mode,       \* the option lock: "readwrite", "write" or "none"
  Options,    \* the options a lookup may be called with
  Inline,     \* may terms set options ('name create=true')
  MaxTerms,   \* bound: the terms of a lookup
  MaxLookups, \* bound: the lookups ever called
  MaxNew,     \* bound: the passwords ever generated
  Faults,     \* what may go wrong: "pass" (a command fails), "die"
  Nobody, Timeout, NoTimeout  \* see FileLock

Keys == {Password} \cup Subkeys
Values == 1 .. MaxNew

AllOptions ==
  [key : Keys, overwrite : BOOLEAN, missing : {"error", "empty", "create"},
   missing_subkey : {"error", "empty"}, backup : BOOLEAN, timestamp : BOOLEAN,
   preserve : BOOLEAN]

File == [value : [Keys -> Values \cup {Nothing}], old : SUBSET Values]

ASSUME PasswordstoreAssumption ==
  /\ Password \notin Subkeys /\ Nothing \notin Nat /\ NoFile \notin File
  /\ Nobody \notin Lookups
  /\ Mode \in {"readwrite", "write", "none"}
  /\ Options \subseteq AllOptions /\ Inline \in BOOLEAN
  /\ MaxTerms \in Nat /\ MaxLookups \in Nat /\ MaxNew \in Nat
  /\ MaxNew >= MaxTerms * MaxLookups
  /\ Timeout \in Nat
  /\ Faults \subseteq {"pass", "die"}

VARIABLES
  store,    \* the password files
  begun,    \* the lookups called so far
  born,     \* the passwords generated so far
  pc,       \* where each process is
  terms,    \* the terms it still has to do
  params,   \* its paramvals
  name,     \* its passname
  read,     \* passoutput, password and passdict: the file as it last read it
  answers,  \* history: what the terms returned
  owner, at, tries  \* the file lock

Lock == INSTANCE FileLock WITH Users <- Lookups

locals == <<terms, params, name>>
lock == <<owner, at, tries>>
vars == <<store, begun, born, pc, locals, read, answers, lock>>

Blank == [k \in Keys |-> Nothing]

TypeOK ==
  /\ store \in [Names -> File \cup {NoFile}]
  /\ born \in 0 .. MaxNew /\ begun \in 0 .. MaxLookups
  /\ pc \in [Lookups -> {"idle", "term", "outer", "check", "inner", "recheck",
                         "update", "create", "generate", "leave", "raise"}]
  /\ terms \in [Lookups -> 0 .. MaxTerms]
  /\ params \in [Lookups -> AllOptions \cup {Nothing}]
  /\ name \in [Lookups -> Names \cup {Nothing}]
  /\ \A p \in Lookups :
       /\ pc[p] # "idle" => params[p] \in AllOptions
       /\ pc[p] \notin {"idle", "term", "raise"} => name[p] \in Names
       /\ pc[p] \in {"inner", "update"} => read[p] \in File
  /\ read \in [Lookups -> File \cup {NoFile}]
  /\ answers \subseteq [name : Names, key : Keys, value : Values \cup {Nothing},
                        asked : BOOLEAN]
  /\ Lock!LockTypeOK

Init ==
  /\ store = [n \in Names |-> NoFile]
  /\ born = 0 /\ begun = 0
  /\ pc = [p \in Lookups |-> "idle"]
  /\ terms = [p \in Lookups |-> 0]
  /\ params = [p \in Lookups |-> Nothing]
  /\ name = [p \in Lookups |-> Nothing]
  /\ read = [p \in Lookups |-> NoFile]
  /\ answers = {}
  /\ Lock!LockInit

-----------------------------------------------------------------------------
(* The contents of password files.                                         *)

Kept(o, old) == IF o.backup /\ o.timestamp THEN {old} \ {Nothing} ELSE {}

(* update_password: the lines of the file with one of them replaced or     *)
(* added; of the others, 'preserve' decides when it is the first.          *)
(* Mutant: the backup line replaces the earlier ones.                      *)
UpdatedOneBackup(file, o, new) ==
  [value |-> [file.value EXCEPT ![o.key] = new],
   old |-> Kept(o, file.value[o.key])]

Updated(file, o, new) ==
  LET others == o.key # Password \/ o.preserve IN
    [value |-> [(IF others THEN file.value ELSE Blank) EXCEPT ![o.key] = new],
     old |-> (IF others THEN file.old ELSE {}) \cup Kept(o, file.value[o.key])]

(* generate_password: a file with one key, and an empty first line if that *)
(* key is a subkey.                                                        *)
Generated(o, new) ==
  [value |-> [Blank EXCEPT ![o.key] = new], old |-> {}]

-----------------------------------------------------------------------------
(* A process.                                                              *)

Goto(p, label) == pc' = [pc EXCEPT ![p] = label]

(* Mutant of opt_lock: the option is ignored.                              *)
TakesNot(type) == FALSE
Takes(type) == Mode = type

(* opt_lock: FileLock for the type the option names, nothing for the other.*)
(* The lock file may not be one that can be opened.                        *)
OptLock(p, type, inside) ==
  /\ IF Takes(type)
       THEN \/ Lock!SetLock(p) /\ UNCHANGED pc
            \/ Lock!Acquire(p) /\ Goto(p, inside)
            \/ Lock!Retry(p) /\ UNCHANGED pc
            \/ Lock!GiveUp(p) /\ Goto(p, "raise")
            \/ at[p] = "out" /\ UNCHANGED lock /\ Goto(p, "raise")
       ELSE Goto(p, inside) /\ UNCHANGED lock
  /\ UNCHANGED <<store, begun, born, locals, read, answers>>

(* set_options and setup.                                                  *)
Start(p, o) ==
  /\ pc[p] = "idle" /\ at[p] = "out"
  /\ begun < MaxLookups
  /\ begun' = begun + 1
  /\ Goto(p, "term")
  /\ params' = [params EXCEPT ![p] = o]
  /\ terms' = [terms EXCEPT ![p] = MaxTerms]
  /\ UNCHANGED <<store, born, name, read, answers, lock>>

(* The last term is done; or parse_params raises, on a bad term or because *)
(* 'pass --version' fails.                                                 *)
Return(p) ==
  /\ pc[p] = "term"
  /\ terms[p] = 0 \/ "pass" \in Faults
  /\ Goto(p, "idle")
  /\ UNCHANGED <<store, begun, born, locals, read, answers, lock>>

(* parse_params: what a term sets stays set for the terms that follow, as  *)
(* does the 'missing' that create=true sets.  (One option of a term.)        *)
ParseTerm(p) ==
  /\ pc[p] = "term" /\ terms[p] > 0
  /\ Goto(p, "outer")
  /\ terms' = [terms EXCEPT ![p] = @ - 1]
  /\ name' \in {[name EXCEPT ![p] = n] : n \in Names}
  /\ \/ UNCHANGED params
     \/ Inline /\ params' = [params EXCEPT ![p].missing = "create"]
     \/ Inline /\ params' = [params EXCEPT ![p].overwrite = TRUE]
     \/ Inline /\ \E k \in Keys : params' = [params EXCEPT ![p].key = k]
  /\ UNCHANGED <<store, begun, born, read, answers, lock>>

OuterLock(p) == pc[p] = "outer" /\ OptLock(p, "readwrite", "check")

(* result.append; and how the term ends.                                   *)
Answer(p, v) ==
  /\ answers' = answers \cup
       {[name |-> name[p], key |-> params[p].key, value |-> v,
         asked |-> params[p].missing = "create"]}
  /\ Goto(p, "leave")

NoAnswer(p, label) == Goto(p, label) /\ UNCHANGED answers

(* get_passresult.                                                         *)
PassResult(p, file) ==
  LET o == params[p]
      v == file.value[o.key] IN
    IF v = Nothing /\ o.key # Password /\ o.missing_subkey = "error"
      THEN NoAnswer(p, "raise")
      ELSE Answer(p, v)

ShowFile(p) == read' = [read EXCEPT ![p] = store[name[p]]]

Fails(p) ==
  /\ "pass" \in Faults
  /\ NoAnswer(p, "raise")
  /\ UNCHANGED <<store, born, read>>

(* The file exists: is it to be written.                                   *)
ToWrite(o, file) ==
  \/ o.overwrite
  \/ o.key # Password /\ file.value[o.key] = Nothing /\ o.missing = "create"

Found(p, file) ==
  /\ file # NoFile
  /\ IF ToWrite(params[p], file) THEN NoAnswer(p, "inner")
                                 ELSE PassResult(p, file)

NotFound(p, file) ==
  /\ file = NoFile
  /\ \/ params[p].missing = "error" /\ NoAnswer(p, "raise")
     \/ params[p].missing = "empty" /\ Answer(p, Nothing)
     \/ params[p].missing = "create" /\ NoAnswer(p, "create")

(* check_pass, and what run makes of it.                                   *)
Check(p) ==
  /\ pc[p] = "check"
  /\ \/ /\ ShowFile(p)
        /\ Found(p, store[name[p]]) \/ NotFound(p, store[name[p]])
        /\ UNCHANGED <<store, born>>
     \/ Fails(p)
  /\ UNCHANGED <<begun, locals, lock>>

InnerLock(p) ==
  \/ pc[p] = "inner" /\ OptLock(p, "write", "update")
  \/ pc[p] = "create" /\ OptLock(p, "write", "recheck")

(* Mutant: the file is not looked for again under the lock.                *)
LooksAgainNot == FALSE
LooksAgain == Mode = "write"

Recheck(p) ==
  /\ pc[p] = "recheck"
  /\ \/ /\ IF LooksAgain
             THEN /\ ShowFile(p)
                  /\ LET file == store[name[p]] IN
                       IF file # NoFile THEN PassResult(p, file)
                                        ELSE NoAnswer(p, "generate")
             ELSE NoAnswer(p, "generate") /\ UNCHANGED read
        /\ UNCHANGED <<store, born>>
     \/ LooksAgain /\ Fails(p)
  /\ UNCHANGED <<begun, locals, lock>>

(* pass insert -f.                                                         *)
Insert(p, file) ==
  /\ born < MaxNew
  /\ born' = born + 1
  /\ store' = [store EXCEPT ![name[p]] = file]
  /\ Answer(p, born')
  /\ UNCHANGED read

Update(p) ==
  /\ pc[p] = "update"
  /\ Insert(p, Updated(read[p], params[p], born + 1)) \/ Fails(p)
  /\ UNCHANGED <<begun, locals, lock>>

Generate(p) ==
  /\ pc[p] = "generate"
  /\ Insert(p, Generated(params[p], born + 1)) \/ Fails(p)
  /\ UNCHANGED <<begun, locals, lock>>

(* The end of the with statements, reached or left through an exception.   *)
Leave(p) ==
  /\ pc[p] \in {"leave", "raise"}
  /\ Goto(p, IF pc[p] = "leave" THEN "term" ELSE "idle")
  /\ IF at[p] = "in" THEN Lock!Unlock(p) ELSE UNCHANGED lock
  /\ UNCHANGED <<store, begun, born, locals, read, answers>>

LookupStep(p) ==
  \/ Return(p)
  \/ ParseTerm(p)
  \/ OuterLock(p)
  \/ Check(p)
  \/ InnerLock(p)
  \/ Recheck(p)
  \/ Update(p)
  \/ Generate(p)
  \/ Leave(p)

(* External: a process is killed.                                          *)
Killed(p) ==
  /\ "die" \in Faults
  /\ Lock!Die(p)
  /\ Goto(p, "idle")
  /\ UNCHANGED <<store, begun, born, locals, read, answers>>

Next ==
  \/ \E p \in Lookups : LookupStep(p) \/ Killed(p)
  \/ \E p \in Lookups, o \in Options : Start(p, o)

Spec == Init /\ [][Next]_vars

(* The attempts at the lock go on; a pass command may never return (it may *)
(* wait for a passphrase).                                                 *)
FairSpec == Spec /\ \A p \in Lookups : WF_vars(OuterLock(p) \/ InnerLock(p))

-----------------------------------------------------------------------------
(* Properties.                                                             *)

Writing == {"recheck", "update", "generate"}

(* "V(write) only synchronizes write operations. V(readwrite) synchronizes *)
(* all operations (including read). This makes sure that gpg-agent is      *)
(* never called in parallel" (lines 95-96): no two processes are where the *)
(* lock is to keep them apart.                                             *)
PassIsExclusive ==
  LET apart == CASE Mode = "readwrite" -> Writing \cup {"check"}
                 [] Mode = "write" -> Writing
                 [] OTHER -> {} IN
    \A p, q \in Lookups : pc[p] \in apart /\ pc[q] \in apart => p = q

Value(n, k) == IF store[n] = NoFile THEN Nothing ELSE store[n].value[k]

(* Where nothing is overwritten, a value that a lookup returned is in the  *)
(* store for good: all callers agree on it.                                *)
ReturnedIsStored ==
  \A a \in answers : a.value # Nothing => Value(a.name, a.key) = a.value

(* "Backup the previous password or subkey" (line 69): no value ever given *)
(* out disappears without a trace.                                         *)
NothingIsLost ==
  \A a \in answers : a.value # Nothing =>
    \/ Value(a.name, a.key) = a.value
    \/ store[a.name] # NoFile /\ a.value \in store[a.name].old

(* "Lock timeout applied when O(lock) is not V(none)" (locktimeout): no    *)
(* lookup waits for ever behind one whose pass command never returns.      *)
WaitsForLocksEnd ==
  \A p \in Lookups :
    pc[p] \in {"outer", "inner", "create"} ~>
      pc[p] \notin {"outer", "inner", "create"}

(* Lookups that are serialised are answered one by one.                    *)
Secret == [n \in Names |-> [k \in Keys |-> Value(n, k)]]
Answers == {[name |-> a.name, key |-> a.key, value |-> a.value] : a \in answers}

Abstract == INSTANCE SecretStore WITH secret <- Secret, answers <- Answers

ImplementsSecretStore == Abstract!Spec
=============================================================================

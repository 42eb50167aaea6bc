--------------------------------- MODULE Pamd ---------------------------------
(***************************************************************************)
(* The module pamd (plugins/modules/pamd.py): a file of PAM rules is read  *)
(* into a doubly linked list, the list is changed, and what can be reached *)
(* from its head is written back.                                          *)
(*                                                                         *)
(* Type, control and path of a rule are one key.  Its arguments are pairs  *)
(* of a name and a value (a name without one has one of its own); their    *)
(* order is left out, and so are lines that are no rule and make the run   *)
(* fail at once.                                                           *)
(*                                                                         *)
(* A file is modelled as it is read.  A rule keeps one spelling of its     *)
(* control, without the spaces around '=', but a task is compared with it  *)
(* as it is spelled; and of two arguments in brackets that are written     *)
(* only one is read again, from the first bracket to the last (what is     *)
(* between them stays an argument here).  Rules with both their control    *)
(* and an argument in brackets, whose control is read up to the last       *)
(* bracket, are left out.                                                  *)
(***************************************************************************)
EXTENDS Naturals, SequencesExt

CONSTANTS
  Keys,       \* type, control and path, as a task may spell them
  Kept,       \* the spelling that a rule keeps of each
  InBrackets, \* those whose control is in brackets
  Invalid,    \* those that are not valid in a rule
  ArgNames, ArgValues,
  Bracketed,  \* the names of arguments in brackets
  Together,   \* what several of them are read as
  Given,      \* the arguments that tasks may give
  Written,    \* those of the rules of a file at first
  NoKey,      \* a line that is no rule; an option that is not given
  Longest     \* the longest file at first

VARIABLES
  pamfile,  \* the lines of the file
  edits     \* runs of the module so far

pamvars == <<pamfile, edits>>

(* The arguments of a rule: no name twice.                                 *)
ArgSets == {s \in SUBSET (ArgNames \X ArgValues) : \A p, q \in s : p[1] = q[1] => p = q}

(* RULE_ARG_REGEX, which finds as much as it can between two brackets.     *)
Joins(args) == \E p, q \in args : p # q /\ p[1] \in Bracketed /\ q[1] \in Bracketed
Reread(args) ==
  IF Joins(args) THEN {p \in args : p[1] \notin Bracketed} \cup {Together} ELSE args

ASSUME PamdAssumption ==
  /\ NoKey \notin Keys /\ Invalid \subseteq Keys /\ Longest \in Nat
  /\ Kept \in [Keys -> Keys] /\ \A k \in Keys : Kept[Kept[k]] = Kept[k]
  /\ \A k \in Keys : /\ Kept[k] \in InBrackets <=> k \in InBrackets
                     /\ k \notin InBrackets => Kept[k] = k
  /\ Bracketed \subseteq ArgNames /\ Together \in Bracketed \X ArgValues
  /\ Given \subseteq ArgSets /\ Written \subseteq {a \in ArgSets : ~Joins(a)}

KeptKeys == {Kept[k] : k \in Keys}

Other(what) == [what |-> what, key |-> NoKey, args |-> {}]
Comment == Other("comment")
Mark == Other("mark")
Rule(key, args) == [what |-> "rule", key |-> key, args |-> args]
PamLines == [what : {"rule"}, key : KeptKeys, args : ArgSets] \cup
            {Other(w) : w \in {"comment", "empty", "include", "mark"}}

Skipped(line) == line.what \in {"comment", "empty", "mark"}
Matches(line, key) == line.what = "rule" /\ line.key = key

(* The setter of rule_control.                                             *)
Keep(line) == Rule(Kept[line.key], line.args)
NewRule(op) == Keep(Rule(op.new, op.args))

(* The elements of a sequence that are in a set, in their order: a fold,   *)
(* so that the proofs can look into it.                                    *)
Select(seq, set) ==
  FoldLeft(LAMBDA found, x : IF x \in set THEN Append(found, x) ELSE found, <<>>, seq)

-----------------------------------------------------------------------------
(* The list: its nodes are the lines of the file and as many new ones.     *)

Nil == 0

Service(lines) ==
  LET n == Len(lines)
  IN  [head |-> IF n = 0 THEN Nil ELSE 1, tail |-> n,
       next |-> [i \in 1..2*n |-> IF i < n THEN i + 1 ELSE Nil],
       prev |-> [i \in 1..2*n |-> IF i \in 2..n THEN i - 1 ELSE Nil],
       line |-> [i \in 1..2*n |-> IF i <= n THEN lines[i] ELSE Comment],
       fresh |-> n + 1, changes |-> 0, crashed |-> FALSE]

(* The nodes that the head leads to, in their order.                       *)
Reached(s) ==
  LET from[i \in Nil..Len(s.line)] == IF i = Nil THEN <<>> ELSE <<i>> \o from[s.next[i]]
  IN  from[s.head]

Get(s, key) == Select(Reached(s), {i \in DOMAIN s.line : Matches(s.line[i], key)})

(* The next line in one direction that is not skipped.                     *)
PastComments(s, dir, i) ==
  LET past[j \in Nil..Len(s.line)] ==
        IF j = Nil THEN Nil ELSE IF Skipped(s.line[j]) THEN past[dir[j]] ELSE j
  IN  past[i]

Fresh(s, rule) == [s EXCEPT !.line[s.fresh] = rule, !.fresh = @ + 1, !.changes = @ + 1]

(* One turn of the loop of insert_before, which compares the neighbour with*)
(* the key as the task spells it.  Mutant: comments are not passed.        *)
BeforeNoPast(s, i) == s.prev[i]
BeforePast(s, i) == PastComments(s, s.prev, s.prev[i])

InsertOneBefore(s, i, rule, key) ==
  LET p == BeforePast(s, i)
      n == s.fresh
      t == [Fresh(s, rule) EXCEPT !.next[n] = i, !.prev[i] = n]
  IN  IF p # Nil /\ ~Matches(s.line[p], key)
      THEN [t EXCEPT !.next[p] = n, !.prev[n] = p]
      ELSE IF p # Nil THEN s
      ELSE IF s.prev[i] = Nil THEN [t EXCEPT !.head = n]
      ELSE [t EXCEPT !.next[s.prev[i]] = n, !.prev[n] = s.prev[i]]

(* One turn of the loop of insert_after.                                   *)
InsertOneAfter(s, i, rule, key) ==
  LET p == PastComments(s, s.next, s.next[i])
      n == s.fresh
      t == Fresh(s, rule)
  IN  IF p # Nil /\ ~Matches(s.line[p], key)
      THEN [t EXCEPT !.prev[p] = n, !.next[n] = p, !.prev[n] = i, !.next[i] = n]
      ELSE IF p # Nil THEN s
      ELSE [t EXCEPT !.prev[n] = s.tail, !.next[s.tail] = n, !.tail = n, !.next[i] = n]

(* One turn of the loop of remove.  A rule that is the whole list has no   *)
(* next line to unlink: an AttributeError.  Mutant: the head stays.        *)
RemoveOneKeepHead(s, i) ==
  IF s.prev[i] = Nil THEN [s EXCEPT !.changes = @ + 1]
  ELSE [s EXCEPT !.changes = @ + 1, !.next[s.prev[i]] = s.next[i]]
RemoveOne(s, i) ==
  LET t == [s EXCEPT !.changes = @ + 1]
      n == s.next[i]
      p == s.prev[i]
  IN  IF p = Nil /\ n = Nil THEN [s EXCEPT !.crashed = TRUE]
      ELSE IF p = Nil THEN [t EXCEPT !.head = n, !.prev[n] = Nil]
      ELSE IF n = Nil THEN [t EXCEPT !.next[p] = Nil]
      ELSE [t EXCEPT !.next[p] = n, !.prev[n] = p]

(* The turns of the other loops change one line, which is compared as the  *)
(* task spells it.  Mutant: every match counts as a change.                *)
ChangeLineCounted(s, i, line) == [s EXCEPT !.line[i] = Keep(line), !.changes = @ + 1]
ChangeLine(s, i, line) ==
  IF line = s.line[i] THEN s
  ELSE [s EXCEPT !.line[i] = Keep(line), !.changes = @ + 1]

(* New names are added, and the values of those that are there replaced.  *)
WithArgs(args, new) ==
  new \cup {p \in args : \A q \in new : q[1] # p[1]}

Turn(op, s, i) ==
  LET old == s.line[i]
  IN  CASE op.state = "before" -> InsertOneBefore(s, i, NewRule(op), op.new)
        [] op.state = "after" -> InsertOneAfter(s, i, NewRule(op), op.new)
        [] op.state = "absent" -> RemoveOne(s, i)
        [] op.state = "args_present" ->
             ChangeLine(s, i, [old EXCEPT !.args = WithArgs(@, op.args)])
        [] op.state = "args_absent" ->
             ChangeLine(s, i, [old EXCEPT !.args = @ \ op.args])
        [] op.state = "updated" ->
             ChangeLine(s, i, Rule(IF op.new = NoKey THEN op.key ELSE op.new,
                                   IF op.hasargs THEN op.args ELSE old.args))

Edited(op, lines) ==
  LET s == Service(lines)
  IN  FoldLeft(LAMBDA t, i : IF t.crashed THEN t ELSE Turn(op, t, i), s, Get(s, op.key))

(* __str__: the second line is the module's mark.                          *)
Str(s) ==
  LET lines == [j \in 1..Len(Reached(s)) |-> s.line[Reached(s)[j]]]
  IN  IF Len(lines) <= 1 THEN <<Other("empty"), Mark>> \o lines
      ELSE IF lines[2] = Mark THEN lines
      ELSE InsertAt(lines, 2, Mark)

(* The lines, as they are read again.                                      *)
AsRead(lines) == [j \in 1..Len(lines) |-> [lines[j] EXCEPT !.args = Reread(@)]]

(* args_present takes no arguments in brackets.                            *)
Plainly(args) == \A p \in args : p[1] \notin Bracketed
Refused(op) == op.state = "args_present" /\ ~Plainly(op.args)

Valid(s) == \A j \in 1..Len(Reached(s)) : s.line[Reached(s)[j]].key \notin Invalid

(* main: the file is written if something changed and all rules are valid. *)
Outcome(op, lines) ==
  LET s == Edited(op, lines)
  IN  IF Refused(op) \/ s.crashed \/ ~Valid(s)
      THEN [lines |-> lines, changed |-> FALSE, failed |-> TRUE]
      ELSE [lines |-> IF s.changes > 0 /\ ~op.check THEN AsRead(Str(s)) ELSE lines,
            changed |-> s.changes > 0, failed |-> FALSE]

(* The runs on a file; without a rule that matches its key a run finds     *)
(* nothing and changes nothing, and is left out.                           *)
KeysOf(lines) == {l.key : l \in ToSet(lines)} \ {NoKey}

Op(lines, state, news, hasargs, argsets) ==
  [state : {state}, key : KeysOf(lines), new : news, hasargs : hasargs, args : argsets,
   check : BOOLEAN]

AnyOps(lines) ==
  (UNION {Op(lines, st, Keys, {TRUE}, Given) : st \in {"before", "after"}})
  \cup Op(lines, "updated", Keys \cup {NoKey}, {TRUE}, Given)
  \cup Op(lines, "updated", Keys \cup {NoKey}, {FALSE}, {{}})
  \cup (UNION {Op(lines, st, {NoKey}, {TRUE}, Given) : st \in {"args_present", "args_absent"}})
  \cup Op(lines, "absent", {NoKey}, {FALSE}, {{}})

(* No rule has its control and an argument in brackets.                    *)
Ops(lines) ==
  {op \in AnyOps(lines) :
     (IF op.new = NoKey THEN op.key ELSE op.new) \in InBrackets =>
       IF op.hasargs THEN Plainly(op.args) ELSE op.key \in InBrackets}

(* Any valid file.                                                         *)
FirstLines ==
  {l \in PamLines \ {Mark} :
     /\ l.key \notin Invalid
     /\ l.what = "rule" => l.args \in Written /\ (l.key \in InBrackets => Plainly(l.args))}

PamdInit ==
  /\ \E n \in 0..Longest : pamfile \in [1..n -> FirstLines]
  /\ edits = 0

Run(op) ==
  /\ pamfile' = Outcome(op, pamfile).lines
  /\ edits' = edits + 1

MaxEdits == 1

PamdNext == edits < MaxEdits /\ \E op \in Ops(pamfile) : Run(op)

PamdSpec == PamdInit /\ [][PamdNext]_pamvars

-----------------------------------------------------------------------------
(* Properties of one run on any file, an edited one too.                   *)

(* A task that spells its control as rules keep it, and its arguments as   *)
(* they are read.                                                          *)
Plain(op) == (op.new = NoKey \/ Kept[op.new] = op.new) /\ ~Joins(op.args)

SignificantLines == {l \in PamLines : ~Skipped(l)}
Significant(lines) == Select(lines, SignificantLines)

(* The reference for inserting: a line in a list without comments gets the *)
(* new rule as its neighbour unless one is there.                          *)
Inserted(op, lines) ==
  LET rule == Rule(op.new, op.args)
      neighbour(i) == IF op.state = "before" THEN i - 1 ELSE i + 1
      one(i) ==
        IF \/ ~Matches(lines[i], op.key)
           \/ neighbour(i) \in DOMAIN lines /\ Matches(lines[neighbour(i)], op.new)
        THEN <<lines[i]>>
        ELSE IF op.state = "before" THEN <<rule, lines[i]>> ELSE <<lines[i], rule>>
  IN  FlattenSeq([i \in 1..Len(lines) |-> one(i)])

(* A removal takes every such rule and no other; a rule is inserted before *)
(* or after every matching rule that has no such neighbour, whatever       *)
(* comments are between, and no rule is lost or moved (plain tasks).       *)
EditsAreRight ==
  \A op \in {o \in Ops(pamfile) : Plain(o) /\ ~o.check /\ o.state \in {"before", "after", "absent"}} :
    LET r == Outcome(op, pamfile)
        old == Significant(pamfile)
    IN  ~r.failed => Significant(r.lines) =
          IF op.state = "absent" THEN Select(old, {l \in ToSet(old) : ~Matches(l, op.key)})
          ELSE Inserted(op, old)

(* The same plain task run again changes nothing and reports no change.  (A*)
(* rule inserted beside rules of its own key finds new ones to go beside.) *)
Idempotent ==
  \A op \in {o \in Ops(pamfile) : Plain(o) /\ ~o.check /\ o.new # o.key} :
    LET r == Outcome(op, pamfile)
    IN  ~r.failed => ~Outcome(op, r.lines).changed

(* A plain task reports a change if and only if the rules of the file      *)
(* changed, and check mode reports what a run would.                       *)
ChangeIsReported ==
  \A op \in {o \in Ops(pamfile) : Plain(o) /\ ~o.check} :
    LET r == Outcome(op, pamfile)
        c == Outcome([op EXCEPT !.check = TRUE], pamfile)
    IN  /\ r.changed <=> Significant(r.lines) # Significant(pamfile)
        /\ c = [r EXCEPT !.lines = pamfile]

(* A task is idempotent however it is spelled.  This does not hold: a      *)
(* control with spaces around '=' is inserted again by each run (lines 353,*)
(* 522, 568) and an update with it, or with two arguments in brackets, is  *)
(* reported as a change by each run (lines 485, 493).                      *)
AnySpellingIsIdempotent ==
  \A op \in {o \in Ops(pamfile) : ~o.check /\ o.new # o.key} :
    LET r == Outcome(op, pamfile)
    IN  ~r.failed => ~Outcome(op, r.lines).changed

(* Comments and empty lines survive.  This does not hold: see "Where the   *)
(* code falls short" in the README.                                        *)
CommentsAreKept ==
  \A op \in {o \in Ops(pamfile) : ~o.check} :
    Len(Select(Outcome(op, pamfile).lines, {Comment})) = Len(Select(pamfile, {Comment}))
=============================================================================

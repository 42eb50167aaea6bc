-------------------------------- MODULE IniFile --------------------------------
(***************************************************************************)
(* The module ini_file (plugins/modules/ini_file.py): do_ini looks for a   *)
(* section of a file, edits the lines of one option in it, and adds what   *)
(* is missing.                                                             *)
(*                                                                         *)
(* A line is a header, an option or something else (a comment or a blank   *)
(* line).  An option is written as the module writes it, with other spaces *)
(* around the sign, or commented out; or it has no value and no sign.      *)
(* Empty values, check mode, backups, and a last line without its newline  *)
(* are left out.                                                           *)
(***************************************************************************)
EXTENDS Naturals, SequencesExt

CONSTANTS
  Section, OtherSection,  \* the section that the tasks name, and another
  Option, OtherOption,    \* the option that they name, and another
  IniValues,              \* values of options
  NoValue,                \* the value of an option without one; also an
                          \* option or a section that a task does not name
  Asked,                  \* the tasks that are run
  MaxLines                \* the longest file at first

ASSUME IniAssumption ==
  /\ Section # OtherSection /\ Option # OtherOption
  /\ NoValue \notin IniValues \cup {Section, OtherSection, Option, OtherOption}
  /\ MaxLines \in Nat

VARIABLES
  inifile,  \* the lines of the file
  initask,  \* what the last run was asked to do
  iniseen,  \* whether it reported a change
  iniruns   \* runs so far

inivars == <<inifile, initask, iniseen, iniruns>>

IniLine(what, name, value, form) == [what |-> what, name |-> name, value |-> value, form |-> form]
Header(name) == IniLine("header", name, NoValue, "std")
Assigned(option, value) == IniLine("option", option, value, "std")
Blank == IniLine("other", NoValue, NoValue, "std")

IniLines ==
  {Header(Section), Header(OtherSection), Blank, Assigned(Option, NoValue)}
  \cup {IniLine("option", Option, v, f) : v \in IniValues, f \in {"std", "spaced", "off"}}
  \cup {Assigned(OtherOption, v) : v \in IniValues}

(* match_opt and match_active_opt.                                         *)
MatchOpt(option, line) == line.what = "option" /\ line.name = option
MatchActiveOpt(option, line) == MatchOpt(option, line) /\ line.form # "off"

MatchFunction(task, line) ==
  IF task.modify_inactive THEN MatchOpt(task.option, line) ELSE MatchActiveOpt(task.option, line)

NonComment(line) == line.what # "other" /\ line.form # "off"

CheckSectionHasValues(conditions, lines) ==
  \A c \in conditions : \E l \in ToSet(lines) :
    MatchOpt(c.option, l) /\ (c.values = <<>> \/ l.value \in ToSet(c.values))

-----------------------------------------------------------------------------
(* The search for the section, between a false header and a false end.     *)

FakeHeader == Header("fake")
Bracket == Header("end")
SectionName(task) == IF task.section = NoValue THEN "fake" ELSE task.section

(* One turn of the search: an open section ends at the next header, and    *)
(* counts if it has what it must have.                                     *)
Search(task, lines, f, i) ==
  LET line == lines[i]
      ends == f.within /\ line.what = "header"
      fits == ends /\ CheckSectionHasValues(task.conditions, SubSeq(lines, f.start, i - 1))
      g == IF ends THEN [f EXCEPT !.within = FALSE, !.start = 1] ELSE f
  IN  IF f.end # 0 THEN f
      ELSE IF fits THEN [f EXCEPT !.end = i]
      ELSE IF line = Header(SectionName(task)) THEN [g EXCEPT !.within = TRUE, !.start = i]
      ELSE g

Found(task, lines) ==
  FoldLeft(LAMBDA f, i : Search(task, lines, f, i),
           [within |-> FALSE, start |-> 1, end |-> 0], [i \in 1..Len(lines) |-> i])

-----------------------------------------------------------------------------
(* The edits of the lines of a section: which of them are done, and which  *)
(* values are left.                                                        *)

Edits(task, lines) ==
  [lines |-> lines, done |-> {}, left |-> task.values, bare |-> FALSE, changed |-> FALSE]

(* update_section_line.  Mutant: the line is not marked.                   *)
UpdateUnmarked(task, e, i, line) ==
  IF line = e.lines[i] THEN e ELSE [e EXCEPT !.lines[i] = line, !.changed = TRUE]
UpdateSectionLine(task, e, i, line) ==
  LET old == e.lines[i]
      differs == IF task.ignore_spaces /\ old.form # "off" THEN old.value # line.value
                 ELSE old # line
  IN  [e EXCEPT !.done = @ \cup {i}, !.changed = @ \/ differs,
                !.lines[i] = IF differs THEN line ELSE old]

Left(left, value) == Remove(left, value)

(* Step 1: lines that have one of the values.                              *)
EditGiven(task, e, i) ==
  LET line == e.lines[i]
      given == MatchFunction(task, line) /\ line.value \in ToSet(e.left)
      bare == MatchFunction(task, line) /\ e.left = <<>> /\ task.no_value /\ ~e.bare
  IN  CASE given -> [UpdateSectionLine(task, e, i, Assigned(task.option, line.value))
                       EXCEPT !.left = Left(@, line.value)]
        [] bare -> [UpdateSectionLine(task, e, i, Assigned(task.option, NoValue))
                      EXCEPT !.bare = TRUE]
        [] OTHER -> e

(* Step 2: the other lines of the option get the values that are left.     *)
EditOther(task, e, i) ==
  IF i \in e.done \/ ~MatchFunction(task, e.lines[i]) \/ e.left = <<>> THEN e
  ELSE [UpdateSectionLine(task, e, i, Assigned(task.option, Head(e.left))) EXCEPT !.left = Tail(@)]

(* Step 3: those that got none are deleted.                                *)
DeleteRemaining(task, e) ==
  LET kept == {i \in 1..Len(e.lines) : i \in e.done \/ ~MatchFunction(task, e.lines[i])}
  IN  [e EXCEPT !.lines = FoldLeft(LAMBDA s, i : IF i \in kept THEN Append(s, e.lines[i]) ELSE s,
                                   <<>>, [i \in 1..Len(e.lines) |-> i]),
                !.changed = @ \/ kept # 1..Len(e.lines)]

(* Step 4: what is missing goes behind the last line that is no comment.   *)
InsertMissing(task, e) ==
  LET new == IF e.left = <<>> /\ task.no_value /\ ~e.bare THEN <<Assigned(task.option, NoValue)>>
             ELSE [i \in 1..Len(e.left) |-> Assigned(task.option, e.left[i])]
      last == CHOOSE i \in 1..Len(e.lines) :
                /\ NonComment(e.lines[i])
                /\ \A j \in i + 1..Len(e.lines) : ~NonComment(e.lines[j])
  IN  [e EXCEPT !.lines = SubSeq(@, 1, last) \o new \o SubSeq(@, last + 1, Len(@)),
                !.changed = @ \/ new # <<>>]

Present(task, lines) ==
  LET indices == [i \in 1..Len(lines) |-> i]
      given == FoldLeft(LAMBDA e, i : EditGiven(task, e, i), Edits(task, lines), indices)
      other == FoldLeft(LAMBDA e, i : EditOther(task, e, i), given, indices)
  IN  IF lines = <<>> \/ task.option = NoValue THEN Edits(task, lines)
      ELSE InsertMissing(task, IF task.exclusive /\ ~task.no_value
                               THEN DeleteRemaining(task, other) ELSE given)

Absent(task, lines) ==
  LET dropped(l) == /\ MatchActiveOpt(task.option, l)
                    /\ task.exclusive \/ l.value \in ToSet(task.values)
      kept == IF task.option = NoValue THEN <<>> ELSE SelectSeq(lines, LAMBDA l : ~dropped(l))
  IN  [Edits(task, lines) EXCEPT !.lines = kept, !.changed = kept # lines]

(* A section that is not there: with what it must have, and the option.    *)
NewSection(task) ==
  LET others == {c \in task.conditions : c.option # task.option}
      same == {c \in task.conditions : c.option = task.option}
      required(c) == IF c.values = <<>> /\ task.no_value THEN <<Assigned(c.option, NoValue)>>
                     ELSE [i \in 1..Len(c.values) |-> Assigned(c.option, c.values[i])]
      also(c) == SelectSeq(c.values, LAMBDA v : v \notin ToSet(task.values))
      values == task.values \o
                (IF task.exclusive THEN <<>> ELSE FlattenSeq(SetToSeq({also(c) : c \in same})))
  IN  <<Header(SectionName(task))>> \o FlattenSeq(SetToSeq({required(c) : c \in others})) \o
      (IF task.option = NoValue THEN <<>>
       ELSE IF values = <<>> /\ task.no_value THEN <<Assigned(task.option, NoValue)>>
       ELSE [i \in 1..Len(values) |-> Assigned(task.option, values[i])])

(* An empty file is read as one blank line.                                *)
Content(lines) == IF lines = <<>> THEN <<Blank>> ELSE lines

DoIni(task, file) ==
  LET lines == <<FakeHeader>> \o Content(file) \o <<Bracket>>
      f == Found(task, lines)
      e == (IF task.state = "present" THEN Present(task, SubSeq(lines, f.start, f.end - 1))
            ELSE Absent(task, SubSeq(lines, f.start, f.end - 1)))
      all == IF f.end = 0 THEN lines
             ELSE SubSeq(lines, 1, f.start - 1) \o e.lines \o SubSeq(lines, f.end, Len(lines))
      file2 == SubSeq(all, 2, Len(all) - 1)
      added == ~f.within /\ task.state = "present"
      changed == e.changed \/ added
  IN  [changed |-> changed,
       file |-> IF ~changed THEN file ELSE IF added THEN file2 \o NewSection(task) ELSE file2]

-----------------------------------------------------------------------------
(* The tasks.  A task without an option adds or removes a section; one     *)
(* that names neither, and conditions without a section, are left out: see *)
(* "Where the code falls short" in the README.                             *)

Conditions == {{}} \cup {{[option |-> o, values |-> vs]} :
                           o \in {Option, OtherOption}, vs \in {<<>>} \cup {<<v>> : v \in IniValues}}
ValueLists == {vs \in [1..2 -> IniValues] : vs[1] # vs[2]} \cup {<<v>> : v \in IniValues} \cup {<<>>}

IniTasks ==
  {t \in [state : {"present", "absent"}, section : {Section, NoValue}, conditions : Conditions,
          option : {Option, NoValue}, values : ValueLists, exclusive : BOOLEAN,
          no_value : BOOLEAN, modify_inactive : BOOLEAN, ignore_spaces : BOOLEAN] :
     /\ t.section = NoValue => t.option # NoValue /\ t.conditions = {}
     /\ t.option = NoValue => t.values = <<>> /\ t.exclusive /\ t.modify_inactive /\ ~t.ignore_spaces
     /\ t.state = "present" => t.values # <<>> \/ t.no_value
     /\ t.state = "absent" => ~t.no_value /\ t.modify_inactive /\ ~t.ignore_spaces}

ASSUME AskedAssumption == Asked \subseteq IniTasks

NoTask == [state |-> "none"]

IniInit ==
  /\ \E n \in 0..MaxLines : inifile \in [1..n -> IniLines]
  /\ initask = NoTask
  /\ iniseen = FALSE
  /\ iniruns = 0

(* A run of the module, and another one of the same task.                  *)
IniRun(task) ==
  /\ inifile' = DoIni(task, inifile).file
  /\ iniseen' = DoIni(task, inifile).changed
  /\ initask' = task
  /\ iniruns' = iniruns + 1

MaxIniRuns == 2

IniNext ==
  \/ initask = NoTask /\ \E task \in Asked : IniRun(task)
  \/ initask # NoTask /\ iniruns < MaxIniRuns /\ IniRun(initask)

IniSpec == IniInit /\ [][IniNext]_inivars

-----------------------------------------------------------------------------
(* What a task asks for, of the file as a whole.                           *)

Headers(lines) == {i \in DOMAIN lines : lines[i].what = "header"}

(* The lines below the header at i (or the first lines) up to the next one.*)
BlockEnd(lines, i) ==
  CHOOSE j \in i..Len(lines) : /\ j + 1 \in Headers(lines) \cup {Len(lines) + 1}
                               /\ Headers(lines) \cap i + 1..j = {}

(* Where the sections begin that the task means: the first one is edited.  *)
Meant(task, lines) ==
  IF task.section = NoValue THEN {0}
  ELSE {i \in Headers(lines) :
          /\ lines[i].name = task.section
          /\ CheckSectionHasValues(task.conditions, SubSeq(lines, i, BlockEnd(lines, i)))}

ActiveValues(lines) ==
  LET active == SelectSeq(lines, LAMBDA l : MatchActiveOpt(Option, l))
  IN  [i \in 1..Len(active) |-> active[i].value]

(* The lines of a section before and after: with exclusive the option has  *)
(* the values of the task and no other; without, it has them as well, and  *)
(* lines with other values stay.  Whatever is no line of the option stays. *)
SectionIsAsAsked(task, old, new) ==
  LET others(s) == SelectSeq(s, LAMBDA l : ~MatchFunction(task, l))
      foreign(s) == SelectSeq(s, LAMBDA l : l.value \notin ToSet(task.values))
      gone(l) == /\ MatchActiveOpt(Option, l)
                 /\ task.exclusive \/ l.value \in ToSet(task.values)
  IN  CASE task.state = "absent" /\ task.option = NoValue -> FALSE
        [] task.state = "absent" -> new = SelectSeq(old, LAMBDA l : ~gone(l))
        [] task.option = NoValue -> new = old
        [] OTHER ->
             /\ others(new) = others(old)
             /\ ToSet(task.values) \subseteq ToSet(ActiveValues(new))
             /\ IF task.exclusive
                THEN /\ IsInjective(ActiveValues(new))
                     /\ ToSet(ActiveValues(new)) = ToSet(task.values)
                ELSE foreign(new) = foreign(old)

(* allow_no_value, when there is an option.                                *)
BareOption(task) == task.no_value /\ task.option # NoValue

(* The file is what the task asks for: outside of the first section it     *)
(* means nothing changes; the section is as asked, or gone, or added with  *)
(* what it must have.  An option without a value, and a section that must  *)
(* have an option of any value, keep less (see the README).                *)
FileIsAsAsked(task, old, new) ==
  LET first == CHOOSE i \in Meant(task, old) : \A j \in Meant(task, old) : i <= j
      last == BlockEnd(old, first)
      grown == Len(new) - Len(old)
      added == SubSeq(new, Len(old) + 2, Len(new))
  IN  IF Meant(task, old) = {}
      THEN IF task.state = "absent" THEN new = old
           ELSE /\ SubSeq(new, 1, Len(old) + 1) = Append(old, Header(Section))
                /\ Headers(added) = {}
                /\ CheckSectionHasValues(task.conditions, added)
                /\ task.option # NoValue => ToSet(task.values) \subseteq ToSet(ActiveValues(added))
      ELSE IF task.state = "absent" /\ task.option = NoValue
      THEN new = SubSeq(old, 1, first - 1) \o SubSeq(old, last + 1, Len(old))
      ELSE /\ SubSeq(new, 1, first) = SubSeq(old, 1, first)
           /\ SubSeq(new, last + grown + 1, Len(new)) = SubSeq(old, last + 1, Len(old))
           /\ SectionIsAsAsked(task, SubSeq(old, first + 1, last), SubSeq(new, first + 1, last + grown))

(* Tasks that can be done: the option may keep the values that the section *)
(* must have.                                                              *)
Consistent(task) ==
  \A c \in task.conditions :
    /\ c.values # <<>>
    /\ c.option = task.option /\ task.exclusive => ToSet(c.values) \subseteq ToSet(task.values)

(* A run makes the file what the task asks for, and reports a change if    *)
(* and only if there was one.                                              *)
IniAsAsked ==
  [][LET task == initask'
     IN  initask = NoTask /\ task # NoTask /\ Consistent(task) =>
           /\ BareOption(task) \/ FileIsAsAsked(task, Content(inifile),
                                                IF iniseen' THEN inifile' ELSE Content(inifile))
           /\ iniseen' <=> inifile' # inifile]_inivars

=============================================================================

------------------------------- MODULE Skills -------------------------------
(* Skills written as Markdown files (s17code/skills/generic.py, manager.py). *)
(* A file is [name, readable, front, chars, always, keyword, enabled]:       *)
(* readable is "yes", "no" (an OSError) or "bytes" (not UTF-8), front tells  *)
(* whether the frontmatter parses and names it well, chars is the length of  *)
(* its body and rendered text alike, keyword whether the goal holds one of   *)
(* its keywords.  Files come in the order of their paths.                    *)
EXTENDS Naturals, Sequences, FiniteSets, SequencesExt, Functions

CONSTANTS MaxSkills, MaxInstructions, MaxInjected

(* GenericSkill.from_file: a SkillError, or a skill; what is no UTF-8 raises *)
(* another error, which nobody expects.                                      *)
Parsed(file) ==
  CASE file.readable = "bytes" -> "unicode_error"
    [] file.readable = "no" -> "skill_error"
    [] ~ file.front \/ file.chars = 0 \/ file.chars > MaxInstructions -> "skill_error"
    [] OTHER -> "skill"

Names(skills) == {skills[i].name : i \in DOMAIN skills}

(* register: a second skill of a name, and one more than the limit, are refused. *)
Registers(skills, file) ==
  file.name \notin Names(skills) /\ Len(skills) < MaxSkills

(* discover: [skills, errors, raised].  It stops at what it does not catch.  *)
Discover(files) ==
  LET after[n \in 0..Len(files)] ==
        IF n = 0 THEN [skills |-> <<>>, errors |-> 0, raised |-> FALSE]
        ELSE LET m == after[n - 1]
                 f == files[n]
             IN CASE m.raised -> m
                  [] ~ m.raised /\ Parsed(f) = "unicode_error" -> [m EXCEPT !.raised = TRUE]
                  [] ~ m.raised /\ Parsed(f) = "skill" /\ Registers(m.skills, f) ->
                       [m EXCEPT !.skills = Append(@, f)]
                  [] OTHER -> [m EXCEPT !.errors = @ + 1]
  IN after[Len(files)]

(* all() and enabled(): sorted by name, which is a number here.              *)
Enabled(skills) ==
  SelectSeq(SortSeq(skills, LAMBDA a, b : a.name < b.name), LAMBDA s : s.enabled)

SetEnabled(skills, name, on) ==
  [i \in DOMAIN skills |->
     IF skills[i].name = name THEN [skills[i] EXCEPT !.enabled = on] ELSE skills[i]]

Matches(s) == s.always \/ s.keyword

(* listing: what the planner may ask for by name.                            *)
Listing(skills) == SelectSeq(Enabled(skills), LAMBDA s : ~ s.always)

(* What is injected whatever it costs: the skills that are always on and     *)
(* those the planner asked for, once each, here by name.                     *)
Guaranteed(skills, requested) ==
  SelectSeq(Enabled(skills), LAMBDA s : s.always)
  \o SelectSeq(Enabled(skills), LAMBDA s : ~ s.always /\ s.name \in requested)

Chars(skills) == FoldFunction(+, 0, [i \in DOMAIN skills |-> skills[i].chars])

(* render: the skills injected, in order; those that only match by a keyword *)
(* fill what the budget leaves, a smaller one after a larger that did not fit. *)
Render(skills, requested) ==
  LET guaranteed == Guaranteed(skills, requested)
      floor == SelectSeq(Enabled(skills), LAMBDA s : Matches(s) /\ s \notin ToSet(guaranteed))
      after[n \in 0..Len(floor)] ==
        IF n = 0 THEN guaranteed
        ELSE IF Chars(after[n - 1]) + floor[n].chars > MaxInjected THEN after[n - 1]
             ELSE Append(after[n - 1], floor[n])
  IN after[Len(floor)]
-----------------------------------------------------------------------------
(* Names are unique and every file is a skill or an error; a skill that is   *)
(* always on, or listed to the planner and asked for, is injected, none      *)
(* twice and none that is disabled, and disabling one takes away that one    *)
(* alone of those; a keyword alone never takes the text over its budget.     *)
SkillsStand(files, requested) ==
  LET found    == Discover(files)
      injected == Render(found.skills, requested)
      sure     == ToSet(Guaranteed(found.skills, requested))
  IN /\ ~ found.raised => Len(found.skills) + found.errors = Len(files)
     /\ Cardinality(Names(found.skills)) = Len(found.skills)
     /\ \A s \in ToSet(found.skills) : s.enabled /\ s.always => s \in ToSet(injected)
     /\ \A s \in ToSet(Listing(found.skills)) : s.name \in requested => s \in ToSet(injected)
     /\ IsInjective(injected) /\ \A s \in ToSet(injected) : s.enabled
     /\ (\E s \in ToSet(injected) : ~ s.always /\ s.name \notin requested)
          => Chars(injected) <= MaxInjected
     /\ \A name \in Names(found.skills) :
          LET off == SetEnabled(found.skills, name, FALSE)
          IN /\ name \notin Names(Render(off, requested))
             /\ sure \ ToSet(Render(off, requested)) \subseteq {s \in sure : s.name = name}
=============================================================================

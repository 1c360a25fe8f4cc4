------------------------------- MODULE Surface -------------------------------
(* Declarative surfaces: the catalog, the wall every surface passes          *)
(* (s17code/ui/catalog.py, validator.py), the two surfaces the harness       *)
(* builds (surface.py) and the data model and verdict of a composed one      *)
(* (compose.py).  A surface is a sequence of components                      *)
(* [id, type, children, fields], fields a sequence of <<name, value>>; a     *)
(* value is [is, of]: a text with what it looks like, a binding with its     *)
(* pointer, an action with its name, or another literal.                     *)
EXTENDS Integers, Sequences, FiniteSets, SequencesExt, FiniteSetsExt

Str(s) == [is |-> "str", of |-> s]
Bind(p) == [is |-> "bind", of |-> p]
Act(a) == [is |-> "act", of |-> a]

(* The enums of the catalog, by name.                                        *)
Enum == [align |-> {"start", "center", "end", "stretch", "baseline"},
         justify |-> {"start", "center", "end", "spaceBetween", "spaceAround"},
         variant |-> {"heading", "subtitle", "body", "caption"},
         tone |-> {"neutral", "good", "warn", "bad"}]

(* COMPONENTS: type -> property -> its kind, or the name of its enum.        *)
Components ==
  [Row         |-> [children |-> "ref", align |-> "align", justify |-> "justify"],
   Column      |-> [children |-> "ref"],
   List        |-> [children |-> "ref"],
   Card        |-> [title |-> "text", children |-> "ref"],
   Divider     |-> <<>>,
   Text        |-> [text |-> "binding", variant |-> "variant"],
   Image       |-> [src |-> "text", alt |-> "text"],
   TextField   |-> [label |-> "text", value |-> "binding", placeholder |-> "text"],
   CheckBox    |-> [label |-> "text", checked |-> "binding"],
   Slider      |-> [label |-> "text", value |-> "binding", min |-> "number", max |-> "number"],
   InputChoice |-> [label |-> "text", options |-> "binding", value |-> "binding"],
   DateTime    |-> [label |-> "text", value |-> "binding"],
   Button      |-> [label |-> "text", onPress |-> "action"],
   Tabs        |-> [labels |-> "text", children |-> "ref"],
   Modal       |-> [title |-> "text", children |-> "ref", open |-> "binding"],
   BarChart    |-> [title |-> "text", data |-> "binding", xKey |-> "text", yKey |-> "text"],
   Sparkline   |-> [data |-> "binding", tone |-> "tone"],
   StatTile    |-> [label |-> "text", value |-> "binding", unit |-> "text",
                    delta |-> "binding", tone |-> "tone"],
   ProgressBar |-> [value |-> "binding", max |-> "number", tone |-> "tone"],
   Timeline    |-> [title |-> "text", events |-> "binding"],
   DataTable   |-> [columns |-> "text", rows |-> "binding", sortable |-> "bool",
                    filterKey |-> "text"],
   Notice      |-> [text |-> "binding", tone |-> "tone"],
   ApprovalCard |-> [summary |-> "binding", params |-> "binding",
                     confirm |-> "action", reject |-> "action"]]

RegisteredActions == {"approve", "reject", "rerun", "request_data"}

LooksLikeMarkup(v) == v = Str("<b>")
LooksLikeJsUrl(v) == v = Str("javascript:")
BadPointer == "no slash"
NotAString == "not a string"    \* a $bind: re.match raises TypeError
NotHashable == "not hashable"   \* a type or an action's name: so does `in`

(* Mutant of FieldFault: text under an action's name is taken for one.       *)
FieldFaultAnyAction(type, f) ==
  LET props == Components[type]
      kind  == IF f[1] \in DOMAIN props THEN props[f[1]] ELSE "none"
      v     == f[2]
  IN CASE kind = "none" -> "data-not-code"
       [] kind \in {"text", "binding"} /\ LooksLikeMarkup(v) -> "data-not-code"
       [] LooksLikeJsUrl(v) -> "data-not-code"
       [] kind = "binding" /\ v.is = "bind" /\ v.of = NotAString -> "raises"
       [] kind = "binding" /\ (v.is # "bind" \/ v.of = BadPointer) -> "data-not-code"
       [] kind \in DOMAIN Enum /\ (v.is # "str" \/ v.of \notin Enum[kind]) -> "data-not-code"
       [] kind = "action" /\ v = Act(NotHashable) -> "raises"
       [] kind = "action" /\ v.is = "act" /\ v.of \notin RegisteredActions -> "event"
       [] OTHER -> "fine"

(* The checks on one property, in their order: the invariant it breaks.      *)
FieldFault(type, f) ==
  LET props == Components[type]
      kind  == IF f[1] \in DOMAIN props THEN props[f[1]] ELSE "none"
      v     == f[2]
  IN CASE kind = "none" -> "data-not-code"
       [] kind \in {"text", "binding"} /\ LooksLikeMarkup(v) -> "data-not-code"
       [] LooksLikeJsUrl(v) -> "data-not-code"
       [] kind = "binding" /\ v.is = "bind" /\ v.of = NotAString -> "raises"
       [] kind = "binding" /\ (v.is # "bind" \/ v.of = BadPointer) -> "data-not-code"
       [] kind \in DOMAIN Enum /\ (v.is # "str" \/ v.of \notin Enum[kind]) -> "data-not-code"
       [] kind = "action" /\ v = Act(NotHashable) -> "raises"
       [] kind = "action" /\ (v.is # "act" \/ v.of \notin RegisteredActions) -> "event"
       [] OTHER -> "fine"

(* The first fault of a component; id, type and children are not looked at.  *)
Fault(c) ==
  IF c.type = NotHashable THEN "raises"
  ELSE IF c.type \notin DOMAIN Components THEN "catalog"
  ELSE LET faulty == {i \in DOMAIN c.fields : FieldFault(c.type, c.fields[i]) # "fine"}
       IN IF faulty = {} THEN "fine" ELSE FieldFault(c.type, c.fields[Min(faulty)])

(* validate_surface: the places of the components that render, and how many  *)
(* were refused.  What raises in one component raises out of the whole call. *)
ValidateSurface(components) ==
  LET With(fault) == {i \in DOMAIN components : Fault(components[i]) = fault}
      fine == With("fine")
  IN IF With("raises") # {} THEN [raised |-> TRUE, accepted |-> {}, rejected |-> 0]
     ELSE [raised   |-> FALSE,
           accepted |-> fine,
           rejected |-> Cardinality(DOMAIN components \ fine)]
-----------------------------------------------------------------------------
Comp(id, type, fields, children) ==
  [id |-> id, type |-> type, fields |-> fields, children |-> children]

ToneForState(s) == CASE s = "succeeded" -> "good"
                     [] s = "failed" -> "bad"
                     [] s \in {"cancelled", "waiting"} -> "warn"
                     [] OTHER -> "neutral"

At(part, i) == part \o "_" \o ToString(i)

(* Nodes come in the graph's order, as [id, state, skill, text]: skill is    *)
(* "answer" when the name or the skill says so, text whether the result      *)
(* holds an answer.                                                          *)
FindAnswer(nodes) ==
  SelectSeq(nodes, LAMBDA n : n.state = "succeeded" /\ n.skill = "answer" /\ n.text)

Sorted(nodes) == SortSeq(nodes, LAMBDA a, b : a.id < b.id)

Row(n, i) ==
  <<Comp(At("row", i), "Row", <<<<"align", Str("center")>>, <<"justify", Str("spaceBetween")>>>>,
         <<At("name", i), At("state", i)>>),
    Comp(At("name", i), "Text", <<<<"variant", Str("body")>>, <<"text", Bind(At("name", i))>>>>, <<>>),
    Comp(At("state", i), "StatTile", <<<<"label", Str("state")>>,
         <<"value", Bind(At("state", i))>>, <<"tone", Str(ToneForState(n.state))>>>>, <<>>)>>

Only(condition, seq) == IF condition THEN seq ELSE <<>>

(* build_run_surface *)
BuildRunSurface(nodes) ==
  LET rows     == Sorted(nodes)
      answered == FindAnswer(nodes) # <<>>
      failed   == {i \in DOMAIN nodes : nodes[i].state = "failed"}
      children == <<"h_title">> \o [i \in DOMAIN rows |-> At("row", i)]
                    \o Only(answered, <<"answer">>) \o Only(failed # {}, <<"notice">>)
  IN [components |->
        <<Comp("root", "Column", <<>>, children),
          Comp("h_title", "Text", <<<<"variant", Str("heading")>>, <<"text", Bind("title")>>>>, <<>>)>>
        \o FlattenSeq([i \in DOMAIN rows |-> Row(rows[i], i)])
        \o Only(answered, <<Comp("answer", "Text", <<<<"text", Bind("answer")>>>>, <<>>)>>)
        \o Only(failed # {}, <<Comp("notice", "Notice",
                  <<<<"text", Bind("notice")>>, <<"tone", Str("bad")>>>>, <<>>)>>),
      dataModel |-> {"title", "rows", "answer"}
        \cup {At(k, i) : k \in {"name", "state"}, i \in DOMAIN rows}
        \cup (IF failed # {} THEN {"notice"} ELSE {})]

(* build_approval_surface *)
ApprovalSurface ==
  [components |->
     <<Comp("root", "Column", <<>>, <<"card">>),
       Comp("card", "ApprovalCard",
            <<<<"summary", Bind("summary")>>, <<"params", Bind("params")>>,
              <<"confirm", Act("approve")>>, <<"reject", Act("reject")>>>>, <<>>)>>,
   dataModel |-> {"summary", "params"}]

Ids(components) == {components[i].id : i \in DOMAIN components}

(* dangling_child_refs: references of what was accepted to what was not.     *)
Dangling(accepted) ==
  UNION {ToSet(accepted[i].children) : i \in DOMAIN accepted} \ Ids(accepted)
-----------------------------------------------------------------------------
(* The data model of compose_surface.  A node is [state, role, subject,      *)
(* value, fields]: its role "ui", "synthesis" or "work", subject the slug of *)
(* its subject, value a number or NoValue, fields the keys of its public     *)
(* result.  Nodes come sorted by id.                                         *)
NoValue == -1

Outcomes(nodes) ==
  SelectSeq(nodes, LAMBDA n : n.state = "succeeded" /\ n.role = "work")

(* node_data: the last node of a subject stands for it.                      *)
Evidence(nodes) ==
  LET out == Outcomes(nodes)
  IN [s \in {out[i].subject : i \in DOMAIN out} |->
        out[Max({i \in DOMAIN out : out[i].subject = s})]]

Key(a, b) == a \o "_" \o b
Item(i, part) == "item_" \o ToString(i - 1) \o "_" \o part

(* The keys the harness writes before the structured answer is merged.       *)
OutcomeKeys(nodes) ==
  LET out == Outcomes(nodes) IN
  {"title", "goal", "summary", "results", "items", "metrics", "spark", "table_rows",
   "item_count", "source_count", "evidence", "subjects", "timeline",
   "progress_value", "progress_max"}
  \cup {Item(i, part) : i \in DOMAIN out, part \in {"label", "detail"}}
  \cup {Item(i, "value") : i \in {j \in DOMAIN out : out[j].value # NoValue}}
  \cup UNION {{Key(out[i].subject, f) : f \in Evidence(nodes)[out[i].subject].fields} :
                i \in DOMAIN out}

(* The structured answer of a synthesis node: for each list, its entries as  *)
(* TRUE (usable) or FALSE (dropped by the cleaning loops).                   *)
Usable(entries) == SelectSeq(entries, LAMBDA e : e)
Numbered(name, n, part) == {name \o "_" \o ToString(i - 1) \o "_" \o part : i \in 1..n}

(* Sections keep the number they came with; metrics and choices are numbered *)
(* after the unusable ones were dropped.                                     *)
ContentKeys(c) ==
  {"input"}
  \cup {"section_" \o ToString(i - 1) \o "_" \o part :
          i \in {j \in DOMAIN c.sections : c.sections[j]},
          part \in {"heading", "points", "detail", "options"}}
  \cup (IF Usable(c.sections) # <<>> THEN {"sections", "section_events"} ELSE {})
  \cup (IF Usable(c.metrics) # <<>> THEN {"metrics"} ELSE {})
  \cup Numbered("metric", Len(Usable(c.metrics)), "value")
  \cup (IF Usable(c.series) # <<>> THEN {"series", "series_values", "spark"} ELSE {})
  \cup (IF Usable(c.choices) # <<>> THEN {"choices", "subjects"} ELSE {})
  \cup Numbered("choice", Len(Usable(c.choices)), "label")

(* How long the lists a surface can bind are.                                *)
ListLength(nodes, c) ==
  [results |-> Len(Outcomes(nodes)),
   metrics |-> IF Usable(c.metrics) # <<>> THEN Len(Usable(c.metrics)) ELSE Len(Outcomes(nodes)),
   choices |-> Len(Usable(c.choices))]
-----------------------------------------------------------------------------
(* The three rules of the wall, said of a component as a whole.              *)
Clean(c) ==
  /\ c.type \in DOMAIN Components
  /\ \A i \in DOMAIN c.fields :
       LET name == c.fields[i][1]
           v    == c.fields[i][2]
       IN /\ name \in DOMAIN Components[c.type]
          /\ v # Str("javascript:")
          /\ LET kind == Components[c.type][name]
             IN /\ kind = "text" => v # Str("<b>")
                /\ kind = "binding" => v.is = "bind" /\ v.of \notin {BadPointer, NotAString}
                /\ kind = "action" => v.is = "act" /\ v.of \in RegisteredActions
                /\ kind \in DOMAIN Enum => v \in {Str(s) : s \in Enum[kind]}

(* A component holds a value that Python can neither match nor look up.      *)
Malformed(c) == \/ c.type = NotHashable
                \/ \E i \in DOMAIN c.fields : c.fields[i][2] \in {Bind(NotAString), Act(NotHashable)}

(* The call raises, and renders nothing, only over a malformed component.    *)
(* Otherwise no refused component takes another with it: what is accepted is *)
(* what is clean, and every other one is counted as refused.                 *)
WallStands(components) ==
  LET r == ValidateSurface(components)
  IN IF r.raised
     THEN r.accepted = {} /\ \E i \in DOMAIN components : Malformed(components[i])
     ELSE /\ r.accepted = {i \in DOMAIN components : Clean(components[i])}
          /\ r.rejected + Cardinality(r.accepted) = Len(components)

(* What the harness builds passes its own wall untouched, resolves every     *)
(* reference and every pointer, shows each node with its tone, and carries a *)
(* Notice exactly when something failed and an answer only if one succeeded. *)
OwnSurfaceStands(built) ==
  LET r == ValidateSurface(built.components)
      shown == built.components
  IN /\ ~r.raised /\ r.rejected = 0
     /\ Dangling(shown) = {}
     /\ Cardinality(Ids(shown)) = Len(shown)
     /\ \A i \in DOMAIN shown : \A j \in DOMAIN shown[i].fields :
          LET v == shown[i].fields[j][2] IN v.is = "bind" => v.of \in built.dataModel

RunSurfaceStands(nodes) ==
  LET built == BuildRunSurface(nodes)
  IN /\ OwnSurfaceStands(built)
     /\ ("notice" \in Ids(built.components)) = (\E i \in DOMAIN nodes : nodes[i].state = "failed")
     /\ ("answer" \in Ids(built.components)) =>
           \E i \in DOMAIN nodes : nodes[i].state = "succeeded" /\ nodes[i].text

(* A numbered pointer offered to the composer has an entry behind it in the  *)
(* list it numbers.                                                          *)
PointersBacked(nodes, c) ==
  LET keys == OutcomeKeys(nodes) \cup ContentKeys(c)
      len  == ListLength(nodes, c)
  IN /\ \A i \in 1..3 : Item(i, "label") \in keys => i <= len.results
     /\ \A i \in 1..3 : ("metric_" \o ToString(i - 1) \o "_value") \in keys => i <= len.metrics
     /\ \A i \in 1..3 : ("choice_" \o ToString(i - 1) \o "_label") \in keys => i <= len.choices
=============================================================================

----------------------------- MODULE Capabilities -----------------------------
(* The contracts of the capabilities (s17code/capabilities.py): what a call   *)
(* may carry, which capabilities belong together, and how a result becomes    *)
(* evidence for the answer (runtime.py).  An argument is [kind, required,     *)
(* default, low, high, format]; a value is [is, size, form, padded, items]:   *)
(* its type, the number, length or count it has once stripped, the format it  *)
(* is in, whether there is blank around it, and the values of an array.       *)
EXTENDS Integers, Sequences, FiniteSets, TLC, SequencesExt, Functions

Value(is, size) == [is |-> is, size |-> size, form |-> "plain", padded |-> FALSE, items |-> <<>>]
None == Value("none", 0)

Arg(kind, low, high) ==
  [kind |-> kind, required |-> TRUE, default |-> None, low |-> low, high |-> high, format |-> "plain"]
Text(high)         == Arg("string", 1, high)
Number(low, high)  == Arg("integer", low, high)
List(low, high)    == Arg("array", low, high)
Formed(arg, f)     == [arg EXCEPT !.format = f]
Optional(arg)      == [arg EXCEPT !.required = FALSE]
Default(arg, size) == [Optional(arg) EXCEPT !.default = Value(arg.kind, size)]
Flag               == Default(Arg("boolean", 0, 1), 0)

Cap(arguments, effect, terminal, families) ==
  [arguments |-> arguments, effect |-> effect, terminal |-> terminal, families |-> families]

Query == [query |-> Text(20000)]
Path  == [path |-> Text(2000)]
Copy  == [source |-> Text(2000), destination |-> Text(2000), overwrite |-> Flag]

(* default_registry: what every task may use, and the coding surface.        *)
GeneralCapabilities ==
  [load_skill        |-> Cap([name |-> Text(64), reference |-> Optional(Text(128))], FALSE, {}, {}),
   memory_recall     |-> Cap(Query, FALSE, {}, {"evidence"}),
   remember_explicit_fact |-> Cap([text |-> Text(20000)], TRUE, {}, {}),
   web_search        |-> Cap([query |-> Text(2000), max_results |-> Default(Number(1, 5), 3)],
                             FALSE, {}, {"evidence"}),
   fetch_url         |-> Cap([url |-> Formed(Text(4000), "url")], FALSE, {}, {"evidence"}),
   researcher        |-> Cap([query |-> Text(4000), max_results |-> Default(Number(1, 5), 3),
                              subject |-> Optional(Text(200))], FALSE, {}, {"evidence"}),
   read_file         |-> Cap(Path, FALSE, {}, {"evidence"}),
   write_file        |-> Cap([path |-> Text(2000), content |-> Text(60000), overwrite |-> Flag],
                             TRUE, {}, {}),
   copy_code_file    |-> Cap(Copy, TRUE, {}, {"coding"}),
   copy_file         |-> Cap(Copy, TRUE, {}, {}),
   file_sha256       |-> Cap(Path, FALSE, {}, {}),
   verify_artifact   |-> Cap([uri |-> Text(4000)], FALSE, {}, {}),
   calculate         |-> Cap([expression |-> Text(2000)], FALSE, {}, {}),
   query_csv         |-> Cap([files |-> List(1, 10), sql |-> Text(10000)], FALSE, {}, {}),
   current_datetime  |-> Cap([timezone |-> Default(Text(100), 3)], FALSE, {}, {}),
   date_shift        |-> Cap([date |-> Text(10), days |-> Number(-10000, 10000)], FALSE, {}, {}),
   list_directory    |-> Cap([path |-> Text(2000), suffix |-> Default(Text(32), 3)], FALSE, {}, {}),
   index_file        |-> Cap(Path, TRUE, {}, {"evidence"}),
   create_calendar_events |-> Cap([title |-> Text(300), dates |-> List(1, 20)], TRUE, {}, {}),
   list_channels     |-> Cap(<<>>, FALSE, {}, {}),
   send_channel_message |-> Cap([channel |-> Text(100), recipient_id |-> Text(2000), text |-> Text(20000),
                                 thread_id |-> Optional(Text(2000)),
                                 voice_audio_ref |-> Optional(Text(4000))], TRUE, {}, {}),
   a2a_delegate      |-> Cap([agent_url |-> Formed(Text(4000), "url"), message |-> Text(20000)],
                             FALSE, {}, {}),
   launch_job        |-> Cap([endpoint |-> Formed(Text(4000), "url"), task |-> Text(20000)], TRUE, {}, {}),
   request_approval  |-> Cap([question |-> Text(4000), choices |-> Optional(List(0, 10))],
                             TRUE, {}, {"human_gate"}),
   retriever         |-> Cap(Query, FALSE, {}, {}),
   distiller         |-> Cap(Query, FALSE, {}, {"synthesis", "generic_role"}),
   summariser        |-> Cap(Query, FALSE, {}, {"generic_role"}),
   coder_validator   |-> Cap(Query, FALSE, {}, {"generic_role"}),
   content           |-> Cap(Query, FALSE, {}, {"synthesis"}),
   compose_surface   |-> Cap(Query, FALSE, {"ui"}, {}),
   answer_with_evidence |-> Cap(Query, FALSE, {"text"}, {})]
CodingCapabilities ==
  [read_code         |-> Cap([path |-> Text(2000), offset |-> Default(Number(1, 1000000), 1),
                              limit |-> Default(Number(1, 2000), 200)],
                             FALSE, {}, {"evidence", "coding", "rerunnable"}),
   edit_code         |-> Cap([path |-> Text(2000), old_string |-> Text(20000), new_string |-> Text(20000),
                              replace_all |-> Flag], TRUE, {}, {"coding"}),
   create_file       |-> Cap([path |-> Text(2000), content |-> Text(60000), overwrite |-> Flag],
                             TRUE, {}, {"coding"}),
   glob_files        |-> Cap([pattern |-> Text(500)], FALSE, {}, {"coding", "rerunnable"}),
   grep_code         |-> Cap([pattern |-> Text(1000), path_glob |-> Default(Text(500), 1),
                              ignore_case |-> Flag], FALSE, {}, {"evidence", "coding", "rerunnable"}),
   run_command       |-> Cap([command |-> Text(2000), timeout |-> Default(Number(1, 600), 120)],
                             TRUE, {}, {"coding", "verify", "rerunnable"}),
   git_diff          |-> Cap(<<>>, FALSE, {}, {"coding", "rerunnable"}),
   git_reset         |-> Cap(<<>>, TRUE, {}, {"coding"}),
   validate_work     |-> Cap([requirement |-> Text(8000), paths |-> Optional(List(0, 20))],
                             TRUE, {}, {"coding", "verify", "rerunnable"})]
Registry == GeneralCapabilities @@ CodingCapabilities

Family(f) == {n \in DOMAIN Registry : f \in Registry[n].families}
TerminalSkills(respondAs) == {n \in DOMAIN Registry : respondAs \in Registry[n].terminal}

(* What runtime.run takes out of the planner's manifest.                      *)
NeedsSandbox == {"read_file", "write_file", "copy_file", "file_sha256", "list_directory",
                 "index_file", "query_csv", "create_calendar_events", "verify_artifact"}
Unavailable(sandbox, workspace, skills) ==
  (IF sandbox THEN {} ELSE NeedsSandbox)
  \cup (IF workspace THEN {} ELSE Family("coding"))
  \cup (IF skills THEN {} ELSE {"load_skill"})
-----------------------------------------------------------------------------
Strip(v) == [v EXCEPT !.padded = FALSE,
                      !.items = [i \in DOMAIN v.items |-> [v.items[i] EXCEPT !.padded = FALSE]]]

(* Mutant of Fits: only an array's own count is looked at.                    *)
FitsOuter(arg, v) ==
  /\ v.is = arg.kind
  /\ v.size <= arg.high
  /\ arg.kind \in {"integer", "array"} => v.size >= arg.low
  /\ arg.kind = "string" => v.size > 0
  /\ arg.format \in {"plain", v.form}

(* One value against its argument.                                            *)
Fits(arg, v) ==
  /\ v.is = arg.kind
  /\ v.size <= arg.high
  /\ arg.kind \in {"integer", "array"} => v.size >= arg.low
  /\ arg.kind = "string" => v.size > 0
  /\ arg.kind = "array" => \A i \in DOMAIN v.items : v.items[i].is = "string" /\ v.items[i].size > 0
  /\ arg.format \in {"plain", v.form}

Refusal == [refused |-> TRUE]

(* CapabilityRegistry.validate: the values it leaves, or a refusal.           *)
Validate(arguments, values) ==
  LET missing == (DOMAIN arguments) \ DOMAIN values
      filled  == {k \in missing : arguments[k].default # None}
  IN IF \/ ~ (DOMAIN values) \subseteq DOMAIN arguments
        \/ \E k \in missing : arguments[k].required
        \/ \E k \in DOMAIN values : ~ Fits(arguments[k], values[k])
     THEN Refusal
     ELSE [k \in (DOMAIN values) \cup filled |->
             IF k \in filled THEN arguments[k].default ELSE Strip(values[k])]
-----------------------------------------------------------------------------
(* A result is [state, empty, records, items, body, sources]: ready-made      *)
(* records, sub-items as [text, source] with the length of their text, the    *)
(* length of its body and how many sources it names.  Evidence is [text,      *)
(* sources, kind].                                                            *)
Item(text, sources, kind) == [text |-> text, sources |-> sources, kind |-> kind]
Clip(n, limit) == IF n > limit THEN limit ELSE n

Sources(r, external) ==
  IF r.sources > 0 THEN r.sources ELSE IF external > 0 THEN external ELSE 1

(* project_evidence; summary tells whether the projection has one for a list  *)
(* that expands to nothing.                                                   *)
ProjectEvidence(r, external, summary, limit) ==
  LET usable == SelectSeq(r.items, LAMBDA i : i.text > 0)
  IN [i \in 1..r.records |-> Item(1, 1, "record")]
     \o [i \in DOMAIN usable |->
           Item(Clip(usable[i].text, limit), IF usable[i].source THEN 1 ELSE Sources(r, external), "item")]
     \o (IF usable = <<>> /\ summary THEN <<Item(1, Sources(r, external), "summary")>> ELSE <<>>)
     \o (IF r.body > 0 THEN <<Item(Clip(r.body, limit), Sources(r, external), "body")>> ELSE <<>>)

(* What one node gives the answer worker: its failure, its projection, or the *)
(* generic evidence when that is empty.                                       *)
NodeEvidence(r, external, summary, limit) ==
  LET produced == ProjectEvidence(r, external, summary, limit)
  IN IF r.state = "failed" THEN <<Item(1, 1, "failure")>>
     ELSE IF r.empty THEN <<>>
     ELSE IF produced = <<>> THEN <<Item(1, 1, "generic")>> ELSE produced

(* The evidence of the nodes in their order, those that prepend before all    *)
(* that came earlier.                                                         *)
Gathered(nodes, external, limit) ==
  LET after[n \in 0..Len(nodes)] ==
        IF n = 0 THEN <<>>
        ELSE LET produced == NodeEvidence(nodes[n], external, nodes[n].summary, limit)
             IN IF nodes[n].prepend /\ nodes[n].state # "failed" THEN produced \o after[n - 1]
                ELSE after[n - 1] \o produced
  IN after[Len(nodes)]

Length(evidence) == FoldFunction(+, 0, [i \in DOMAIN evidence |-> evidence[i].text])

(* The prompt stays bounded: what does not fit is clipped, the rest left out. *)
Bounded(evidence, budget) ==
  LET after[n \in 0..Len(evidence)] ==
        IF n = 0 THEN <<>>
        ELSE LET used == Length(after[n - 1])
             IN IF used >= budget THEN after[n - 1]
                ELSE Append(after[n - 1], [evidence[n] EXCEPT !.text = Clip(@, budget - used)])
  IN after[Len(evidence)]
-----------------------------------------------------------------------------
(* What a contract lets through is stripped, complete and within its bounds,  *)
(* and passes it again unchanged: a node's arguments may be validated when it *)
(* is planned and when it runs.                                               *)
ContractStands(arguments, values) ==
  LET clean == Validate(arguments, values)
  IN clean # Refusal =>
       /\ Validate(arguments, clean) = clean
       /\ \A k \in DOMAIN arguments : arguments[k].required => k \in DOMAIN clean
       /\ \A k \in DOMAIN clean : \A i \in DOMAIN clean[k].items :
            clean[k].items[i].is = "string" /\ clean[k].items[i].size > 0

(* Each mode of response has a capability that ends the graph, is offered in  *)
(* every configuration and has no effect; what verifies may run again after a *)
(* repair; a gate passes through the outbox.                                  *)
RegistryStands(sandbox, workspace, skills) ==
  /\ \A mode \in {"text", "ui"} :
       \E n \in TerminalSkills(mode) \ Unavailable(sandbox, workspace, skills) : ~ Registry[n].effect
  /\ Family("verify") \subseteq Family("rerunnable")
  /\ \A n \in Family("human_gate") : Registry[n].effect
  /\ \A n \in DOMAIN Registry : \A k \in DOMAIN Registry[n].arguments :
       LET arg == Registry[n].arguments[k] IN arg.default # None => Fits(arg, arg.default)

(* Every piece of evidence names a source, each node with something to say is *)
(* heard unless the prompt was full before it, and what the user said goes    *)
(* first.                                                                     *)
EvidenceStands(nodes, external, limit, budget) ==
  LET evidence == Gathered(nodes, external, limit)
      bounded  == Bounded(evidence, budget)
      heard    == {n \in DOMAIN nodes : ~ nodes[n].empty \/ nodes[n].state = "failed"}
  IN /\ \A i \in DOMAIN evidence : evidence[i].sources > 0
     /\ Len(evidence) >= Cardinality(heard)
     /\ Length(bounded) <= budget
     /\ Len(bounded) < Len(evidence) => Length(bounded) = budget
     /\ Len(SelectSeq(evidence, LAMBDA e : e.kind = "failure"))
          = Len(SelectSeq(nodes, LAMBDA n : n.state = "failed"))
=============================================================================

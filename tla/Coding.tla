------------------------------- MODULE Coding -------------------------------
(* The coding surface (s17code/coding/edit.py, guard.py, exec.py,            *)
(* workspace.py, workers/coding.py): runs that read, edit, create and copy   *)
(* the files of one shared checkout, each with the ledger of what it read.   *)
(* A file's content is a sequence of pieces, an anchor is one piece, and a   *)
(* path is one of the names under which a run may spell it.                  *)
EXTENDS Naturals, Sequences, FiniteSets, SequencesExt

CONSTANTS
    Coders,         \* runs
    Names, Files,
    Denotes,        \* name -> the file resolve() makes of it
    Protected,      \* names that match a protected pattern, as they are spelled
    Pieces,
    Bodies,         \* bound: contents a file may start with or be given whole
    Absent

ASSUME CodingConstants == Denotes \in [Names -> Files] /\ Protected \subseteq Names

VARIABLES
    files, head,    \* the checkout, and the commit it is reset to
    ledger,         \* run -> names it may edit
    shown,          \* ghost: run -> files it read, wrote or copied onto
    change          \* ghost: the last change by anchor or as a whole file

codingVars == <<files, head, ledger, shown, change>>

NoChange == [run |-> "none", file |-> "none", how |-> "none"]

CodingInit == /\ head \in [Files -> Bodies \cup {Absent}]
              /\ files = head
              /\ ledger = [r \in Coders |-> {}]
              /\ shown = [r \in Coders |-> {}]
              /\ change = NoChange

(* Mutant of HasRead: one ledger serves every run of the process.            *)
HasReadAnyRun(r, name) == \E other \in Coders : name \in ledger[other]

HasRead(r, name) == name \in ledger[r]

(* guard_path looks at the path as the run spells it, resolve() at the file. *)
Guarded(name) == name \in Protected

Marks(r, name) == /\ ledger' = [ledger EXCEPT ![r] = @ \cup {name}]
                  /\ shown' = [shown EXCEPT ![r] = @ \cup {Denotes[name]}]
Puts(r, name, body, how) ==
    /\ files' = [files EXCEPT ![Denotes[name]] = body]
    /\ change' = [run |-> r, file |-> Denotes[name], how |-> how]

ReadCode(r, name) == /\ files[Denotes[name]] # Absent
                     /\ Marks(r, name)
                     /\ UNCHANGED <<files, head, change>>

Occurrences(body, old) == {i \in DOMAIN body : body[i] = old}

Anchored(body, old, all) ==
    /\ Occurrences(body, old) # {}
    /\ all \/ Cardinality(Occurrences(body, old)) = 1

(* apply_edit: the guard and the ledger first, then the file and the anchor. *)
ApplyEdit(r, name, old, new, all) ==
    LET body == files[Denotes[name]]
    IN /\ ~Guarded(name) /\ HasRead(r, name)
       /\ body # Absent /\ old # new
       /\ Anchored(body, old, all)
       /\ Puts(r, name, [i \in DOMAIN body |-> IF body[i] = old THEN new ELSE body[i]],
               IF all THEN "edit all" ELSE "edit")
       /\ UNCHANGED <<head, ledger, shown>>

CreateFile(r, name, body, overwrite) ==
    /\ ~Guarded(name)
    /\ files[Denotes[name]] # Absent => overwrite /\ HasRead(r, name)
    /\ Puts(r, name, body, "create")
    /\ Marks(r, name)
    /\ UNCHANGED head

(* copy_within_workspace asks neither the guard nor the ledger.              *)
CopyWithinWorkspace(r, source, target, overwrite) ==
    /\ files[Denotes[source]] # Absent
    /\ files[Denotes[target]] # Absent => overwrite
    /\ Denotes[source] # Denotes[target]
    /\ Puts(r, target, files[Denotes[source]], "copy")
    /\ Marks(r, target)
    /\ UNCHANGED head

(* run_command: a program of the allowlist, without a shell, writes, removes *)
(* or commits what it will.                                                  *)
Allowlist == {"pytest", "python", "python3", "uv", "ruff", "mypy", "git", "node", "npm"}
GitSubcommands == {"status", "diff", "log", "show", "add", "commit", "checkout",
                   "restore", "branch", "rev-parse", "stash", "clean"}
Accepted(argv) ==
    /\ ~argv.metacharacters /\ argv.program \in Allowlist
    /\ argv.program \in {"python", "python3"} => "-c" \notin argv.arguments
    /\ argv.program = "uv" => argv.arguments \cap {"--user", "--system", "-c"} = {}
    /\ argv.program = "git" => /\ argv.subcommand \in GitSubcommands
                               /\ "-c" \notin argv.arguments

RunCommand(argv, f, body, commit) ==
    /\ Accepted(argv)
    /\ files' = [files EXCEPT ![f] = body]
    /\ commit => argv.program = "git" /\ argv.subcommand = "commit"
    /\ head' = IF commit THEN files' ELSE head
    /\ change' = NoChange
    /\ UNCHANGED <<ledger, shown>>

(* git checkout and clean: the work of every run in the checkout is undone.  *)
GitReset == files' = head /\ change' = NoChange /\ UNCHANGED <<head, ledger, shown>>

(* A run ends, or goes on in another process: its ledger starts empty.       *)
Restarted(r) == /\ ledger' = [ledger EXCEPT ![r] = {}]
                /\ shown' = [shown EXCEPT ![r] = {}]
                /\ UNCHANGED <<files, head, change>>

Commands == {[program |-> p, subcommand |-> s, arguments |-> a, metacharacters |-> m] :
                p \in {"git", "bash"}, s \in {"commit", "push"}, a \in {{}, {"-c"}}, m \in BOOLEAN}

CodingNext ==
    \/ \E r \in Coders, name \in Names :
          \/ ReadCode(r, name)
          \/ \E old, new \in Pieces, all \in BOOLEAN : ApplyEdit(r, name, old, new, all)
          \/ \E body \in Bodies, overwrite \in BOOLEAN : CreateFile(r, name, body, overwrite)
          \/ \E target \in Names, overwrite \in BOOLEAN : CopyWithinWorkspace(r, name, target, overwrite)
    \/ \E argv \in Commands, f \in Files, body \in Bodies \cup {Absent}, commit \in BOOLEAN :
          RunCommand(argv, f, body, commit)
    \/ GitReset
    \/ \E r \in Coders : Restarted(r)

CodingSpec == CodingInit /\ [][CodingNext]_codingVars
-----------------------------------------------------------------------------
(* edit.py, guard.py: what exists is edited or written over only by a run    *)
(* that had it before its eyes, under whatever name and whatever the other   *)
(* runs, commands and resets did meanwhile; an edit by anchor changes one    *)
(* place, unless all were asked for.                                         *)
ChangesAreInformed ==
    [][LET f == change'.file
       IN files' # files /\ change'.how \in {"edit", "edit all", "create"} =>
             /\ files[f] # Absent => f \in shown[change'.run]
             /\ change'.how = "edit" =>
                   Cardinality({i \in DOMAIN files[f] : files'[f][i] # files[f][i]}) = 1]_codingVars
=============================================================================

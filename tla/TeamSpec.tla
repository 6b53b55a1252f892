------------------------------ MODULE TeamSpec ------------------------------
(***************************************************************************)
(* From what the user writes to a team that spawn starts and msg reaches:  *)
(* the team specification with its defaults, the launcher table with its   *)
(* overrides, the paths, the checks, and the targets of a message.  These  *)
(* steps have no state: they are operators, checked over all the           *)
(* specifications and environments of a small domain.                      *)
(*                                                                         *)
(* A name is a tuple: <<"x">> was written by the user, <<"codex", 2>> was  *)
(* made of a kind and a position.  A path is a tuple of components that    *)
(* begins with "/" when it is absolute.                                    *)
(***************************************************************************)
EXTENDS Lists, SequencesExt

CONSTANTS
    Missing,        \* an optional field without a value
    Refused         \* the result of a step that fails

Paths == Seq(STRING)
Worker == [name : Seq(STRING \cup Nat), agent : STRING, role : STRING, worktree : BOOLEAN,
           branch : STRING \cup {Missing}, brief : Paths]

(* The last conjunct holds of any strings, which the provers do not know. *)
ASSUME TeamSpecAssumption ==
    /\ Missing \notin Nat
    /\ Refused \notin Seq(Nat) \cup [cwd : Paths, workers : Seq(Worker)]
    /\ {"/", ".", "tmp", "I", "home", "spec", "team.toml", "b", "gone", "x", "y", "..", "god", "all", "",
        "claude", "codex", "mine", "none", "builder", "worker"} \subseteq STRING

AllDistinct(seq) == Cardinality(Range(seq)) = Len(seq)

-----------------------------------------------------------------------------
(* The launcher table: agents.toml, if there is one, over the defaults.    *)

Launcher(command) == [command |-> command]
DefaultLaunchers == [kind \in {"claude", "codex"} |-> Launcher(<<kind>>)]

(* load_launcher_table, load_from_env: the file may be missing or a table. *)
LoadLaunchers(file) ==
    IF file = Missing THEN DefaultLaunchers
    ELSE [kind \in DOMAIN file \cup DOMAIN DefaultLaunchers |->
             IF kind \in DOMAIN file THEN file[kind] ELSE DefaultLaunchers[kind]]

-----------------------------------------------------------------------------
(* The specification. *)

DefaultCwd == <<".">>

(* resolve_raw_spec: a builder has a working tree unless it says otherwise. *)
ResolveWorker(raw) ==
    [raw EXCEPT !.worktree = IF @ = Missing THEN raw.role = "builder" ELSE @]
ResolveRawSpec(raw) ==
    [cwd |-> IF raw.cwd = Missing THEN DefaultCwd ELSE raw.cwd,
     workers |-> [i \in DOMAIN raw.workers |-> ResolveWorker(raw.workers[i])]]

(* validate_team_spec *)
Validate(spec, launchers) ==
    /\ AllDistinct([i \in DOMAIN spec.workers |-> spec.workers[i].name])
    /\ \A w \in Range(spec.workers) :
          /\ w.agent \in DOMAIN launchers
          /\ IF w.worktree THEN w.branch \notin {Missing, ""} ELSE w.branch = Missing

(* A bug StartsFromSoundTeams must catch: shorthand workers are numbered by kind. *)
ShorthandNameOfKind(kinds, i) == <<kinds[i]>>

(* Shorthand workers are numbered by position. *)
ShorthandName(kinds, i) == <<kinds[i], i>>

(* team_spec_from_agents and materialize_shorthand_briefs, which writes to a new directory; *)
(* the names of its files are numbered in strokes.                                          *)
ScratchBrief(i) == <<"/", "tmp">> \o [n \in 1..i |-> "I"]
SpecFromAgents(kinds, cwd) ==
    [cwd |-> cwd,
     workers |-> [i \in DOMAIN kinds |->
         [name |-> ShorthandName(kinds, i), agent |-> kinds[i], role |-> "worker",
          worktree |-> FALSE, branch |-> Missing, brief |-> ScratchBrief(i)]]]

-----------------------------------------------------------------------------
(* load_context: which file is read, and what its paths are relative to.   *)

Absolute(path) == path # <<>> /\ path[1] = "/"
Plain(path) == Picked(path, {i \in DOMAIN path : path[i] # "."})
Absolutize(path, base) == Plain(IF Absolute(path) THEN path ELSE base \o path)
Parent(path) == Front(path)

SpecBase(file, cwd) == Parent(Absolutize(file, cwd))

(* resolve_paths: both must exist. *)
ResolvePaths(spec, base, exists) ==
    LET cwd == Absolutize(spec.cwd, base)
        brief(w) == Absolutize(w.brief, cwd)
    IN IF cwd \notin exists \/ \E w \in Range(spec.workers) : brief(w) \notin exists
       THEN Refused
       ELSE [cwd |-> cwd,
             workers |-> [i \in DOMAIN spec.workers |->
                            [spec.workers[i] EXCEPT !.brief = brief(spec.workers[i])]]]

(* A source is a file with its contents or a list of agent kinds; env is    *)
(* where spawn is called, agents.toml, and the directories, files and       *)
(* commands there are.                                                      *)
LoadContext(source, env) ==
    LET launchers == LoadLaunchers(env.table)
        byFile == "file" \in DOMAIN source
        base == IF byFile THEN SpecBase(source.file, env.cwd) ELSE env.cwd
        spec == IF byFile THEN ResolveRawSpec(source.raw)
                ELSE SpecFromAgents(source.agents, env.cwd)
        exists == env.dirs \cup env.files
                  \cup (IF byFile THEN {} ELSE {ScratchBrief(i) : i \in DOMAIN source.agents})
    IN CASE env.table = Refused -> Refused
         [] ~byFile /\ source.agents = <<>> -> Refused
         [] env.table # Refused /\ ~Validate(spec, launchers) -> Refused
         [] OTHER -> ResolvePaths(spec, base, exists)

-----------------------------------------------------------------------------
(* preflight, the last thing before anything is created. *)

SafeFileName(name) == name \notin {<<"">>, <<"..">>, <<"/x">>}

Preflight(spec, launchers, env) ==
    /\ Validate(spec, launchers)
    /\ spec.workers # <<>>
    /\ spec.cwd \in env.dirs
    /\ \A w \in Range(spec.workers) :
          /\ SafeFileName(w.name)
          /\ w.brief \notin env.dirs
          /\ launchers[w.agent].command # <<>>
          /\ Head(launchers[w.agent].command) \in env.installed

(* spawn_resolved: the team that is started, or Refused. *)
Start(source, env) ==
    LET spec == LoadContext(source, env) IN
    IF spec # Refused /\ Preflight(spec, LoadLaunchers(env.table), env) THEN spec ELSE Refused

-----------------------------------------------------------------------------
(* The targets of a message.  A run has the god's pane and, for each name, *)
(* a worker with a pane, if it has one yet, that is live or not.  A target *)
(* is a tuple of names: what stands between the commas.                    *)

All == <<"all">>
God == <<"god">>

(* resolve_target: the panes a name may stand for; a worker without a pane refuses it. *)
Matches(run, name) ==
    (IF name = God THEN {run.god} ELSE {})
    \cup (IF name \in DOMAIN run.workers THEN {run.workers[name].pane} ELSE {})
Resolves(run, name) ==
    /\ Cardinality(Matches(run, name)) = 1
    /\ Missing \notin Matches(run, name)

(* send_to_targets: the workers that are live or those listed, each once. *)
NamesOf(run, target) ==
    IF target = <<All>>
    THEN SetToSeq({n \in DOMAIN run.workers : run.workers[n].live})
    ELSE Picked(target, {i \in DOMAIN target : \A j \in DOMAIN target : target[i] = target[j] => i =< j})

(* All of them are resolved before the first is sent to. *)
SendsTo(run, target) ==
    LET names == NamesOf(run, target)
    IN IF names = <<>> \/ \E n \in Range(names) : ~Resolves(run, n)
       THEN Refused
       ELSE [i \in DOMAIN names |-> CHOOSE p \in Matches(run, names[i]) : TRUE]

-----------------------------------------------------------------------------
(* What is written, and where.                                             *)

RawWorker(names, agents, roles, trees, branches, briefs) ==
    [name : names, agent : agents, role : roles, worktree : trees, branch : branches,
     brief : briefs]
Written ==
    {<<>>}
    \cup {<<w>> : w \in RawWorker({<<"x">>, <<"..">>}, {"claude", "mine"}, {"builder", "worker"},
                                 {Missing, TRUE, FALSE}, {Missing, "", "b"},
                                 {<<"b">>, <<"/", "b">>, <<"gone">>})}
    \cup {<<v, w>> : v, w \in RawWorker({<<"x">>, <<"y">>}, {"codex", "mine"}, {"builder"},
                                       {Missing, FALSE}, {Missing, "b"}, {<<"b">>})}
    \cup {<<v, w>> : v, w \in RawWorker({God, All}, {"claude"}, {"worker"}, {Missing}, {Missing},
                                       {<<"b">>})}

SpecFile == <<"/", "spec", "team.toml">>
Sources ==
    [file : {SpecFile, <<"team.toml">>}, raw : [cwd : {Missing, <<"/", "home">>}, workers : Written]]
    \cup [agents : SeqOf({"claude", "codex", "mine", "none"}, 3)]

Files == {<<"/", "spec", "b">>, <<"/", "home", "b">>, <<"/", "b">>}
Envs == [cwd : {<<"/", "home">>, <<"/", "spec">>}, dirs : {{<<"/", "home">>, <<"/", "spec">>}},
         files : {Files},
         table : {Missing, Refused, [kind \in {"mine"} |-> Launcher(<<"mine">>)],
                  [kind \in {"mine", "codex"} |-> Launcher(IF kind = "mine" THEN <<>> ELSE <<"claude">>)]},
         installed : {{"claude"}, {"claude", "mine"}}]

(* The run of a team as spawn leaves it: each worker in a pane of its own. *)
RunOf(spec) ==
    LET at(n) == CHOOSE i \in DOMAIN spec.workers : spec.workers[i].name = n
    IN [god |-> 0, workers |-> [n \in {w.name : w \in Range(spec.workers)} |->
                                  [pane |-> at(n), live |-> TRUE]]]

(***************************************************************************)
(* Whatever is written and wherever spawn is called, a team that passes    *)
(* the checks has all that its launch will need: a command that exists,    *)
(* names that make distinct files and a branch for each working tree.  A   *)
(* specification named by its full path is the same team wherever spawn is *)
(* called, and a list of agent kinds is refused only for a kind without a  *)
(* launcher that exists.  Each worker then answers to its name, each of a  *)
(* list gets one message, and all is every worker; names that msg keeps    *)
(* for itself are the exception.                                           *)
(***************************************************************************)
LaunchNeeds(spec, launchers, env) ==
    /\ AllDistinct([i \in DOMAIN spec.workers |-> spec.workers[i].name])
    /\ \A w \in Range(spec.workers) :
          /\ launchers[w.agent].command # <<>>
          /\ launchers[w.agent].command[1] \in env.installed
          /\ w.worktree => w.branch \notin {Missing, ""}
          /\ Absolute(w.brief) /\ Absolute(spec.cwd)

Answers(run) ==
    LET names == DOMAIN run.workers \ {God, All}
    IN /\ \A n \in names : SendsTo(run, <<n>>) = <<run.workers[n].pane>>
       /\ \A m, n \in names : m # n =>
             SendsTo(run, <<m, n, m>>) = <<run.workers[m].pane, run.workers[n].pane>>
       /\ God \notin DOMAIN run.workers => SendsTo(run, <<All>>) # Refused

StartsSoundly(source, env) ==
    LET spec == Start(source, env)
        launchers == LoadLaunchers(env.table)
    IN /\ spec # Refused => LaunchNeeds(spec, launchers, env) /\ Answers(RunOf(spec))
       /\ "file" \in DOMAIN source /\ Absolute(source.file) =>
             \A cwd \in env.dirs : Start(source, [env EXCEPT !.cwd = cwd]) = spec
       /\ "agents" \in DOMAIN source /\ env.table # Refused =>
             (spec # Refused <=>
                /\ source.agents # <<>>
                /\ \A k \in Range(source.agents) :
                      /\ k \in DOMAIN launchers
                      /\ launchers[k].command # <<>>
                      /\ launchers[k].command[1] \in env.installed)

TeamsCanStart == \A source \in Sources, env \in Envs : StartsSoundly(source, env)
=============================================================================

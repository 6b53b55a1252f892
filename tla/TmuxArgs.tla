------------------------------ MODULE TmuxArgs ------------------------------
(***************************************************************************)
(* The argument parser of the teammux shim (src/tmuxargs.rs): which calls  *)
(* of tmux it takes, and for which of its verbs, checked against the       *)
(* inventory of calls that Claude Code was seen to make.                   *)
(*                                                                         *)
(* An argument is a string; those the parser does not look into are        *)
(* represented by "word", the ids by one pane and one window.              *)
(***************************************************************************)
EXTENDS Naturals, Sequences, SequencesExt

Ids == {"%0", "@0"}
DisplayFields == {"#{client_termtype}", "#{window_id}", "#{pane_width}", "#{pane_height}",
                  "#{pane_left}", "#{pane_top}", "#{window_width}", "#{window_height}"}
Globals == {"-S", "-L"}
Styles == [SetWindowStyle |-> "window-style", SetPaneBorderStyle |-> "pane-border-style",
           SetPaneActiveBorderStyle |-> "pane-active-border-style",
           SetPaneBorderFormat |-> "pane-border-format", SetRemainOnExit |-> "remain-on-exit"]

Arguments ==
    Ids \cup DisplayFields \cup Globals \cup {Styles[v] : v \in DOMAIN Styles}
    \cup {"show", "display-message", "list-panes", "split-window", "set-option", "select-pane",
          "respawn-pane", "select-layout", "resize-pane", "kill-pane"}
    \cup {"-Av", "-gv", "-t", "-p", "-w", "-F", "-d", "-h", "-v", "-l", "-P", "-T", "-k", "-x", "--"}
    \cup {"mouse", "focus-events", "#{pane_id}", "pane-border-status", "top"}
    \cup {"-q", "word"}

-----------------------------------------------------------------------------
(* The parsers of the verbs as the arguments they pop, one after another.  *)

Pop(accepted) == [does |-> "pop", accepts |-> accepted]
Flag(f) == Pop({f})                                     \* expect_flag
Id == Pop(Ids)                                          \* TmuxId::parse
Value == Pop(Arguments)                                 \* take_value
IfFlag(f, accepted) == [does |-> "option", flag |-> f, accepts |-> accepted]
Drain == [does |-> "drain"]

Parser(name, as, steps) == [name |-> name, as |-> as, steps |-> steps]

ParseSetOption(scope, option, value, as) ==
    Parser("set-option", as, <<Flag(scope), Flag("-t"), Id, Flag(option), value>>)

Parsers ==
    {ParseSetOption("-p", Styles[v], Value, v) : v \in DOMAIN Styles}
    \cup {
    Parser("show", "ShowMouse", <<Flag("-Av"), Flag("mouse")>>),
    Parser("show", "ShowFocusEvents", <<Flag("-gv"), Flag("focus-events")>>),
    Parser("display-message", "DisplayMessage",
           <<IfFlag("-t", Ids), Flag("-p"), Pop(DisplayFields)>>),
    Parser("list-panes", "ListPaneIds", <<Flag("-t"), Id, Flag("-F"), Flag("#{pane_id}")>>),
    Parser("split-window", "SplitWindow",
           <<Flag("-d"), Flag("-t"), Id, Pop({"-h", "-v"}), IfFlag("-l", Arguments), Flag("-P"),
             Flag("-F"), Flag("#{pane_id}"), Flag("--"), Drain>>),
    ParseSetOption("-w", "pane-border-status", Flag("top"), "SetPaneBorderStatusTop"),
    Parser("select-pane", "SelectPaneTitle", <<Flag("-t"), Id, Flag("-T"), Value>>),
    Parser("respawn-pane", "RespawnPane", <<Flag("-k"), Flag("-t"), Id, Flag("--"), Value>>),
    Parser("select-layout", "SelectLayout", <<Flag("-t"), Id, Value>>),
    Parser("resize-pane", "ResizePane", <<Flag("-t"), Id, Flag("-x"), Value>>),
    Parser("kill-pane", "KillPane", <<Flag("-t"), Id>>)}

-----------------------------------------------------------------------------
(* parse.  The next argument has a number; it is Refused when a step fails. *)

Refused == 0

Pops(args, next, accepted) ==
    IF next \in DOMAIN args /\ args[next] \in accepted THEN next + 1 ELSE Refused

StepTakes(step, args, next) ==
    CASE next = Refused -> Refused
      [] next # Refused /\ step.does = "pop" -> Pops(args, next, step.accepts)
      [] next # Refused /\ step.does = "drain" -> Len(args) + 1
      [] next # Refused /\ step.does = "option" ->
            IF next \in DOMAIN args /\ args[next] = step.flag
            THEN Pops(args, next + 1, step.accepts) ELSE next

(* The next argument after each step; the first is the name of the verb. *)
AfterStep(p, args) ==
    LET next[k \in 0..Len(p.steps)] ==
            IF k = 0 THEN Pops(args, 1, {p.name}) ELSE StepTakes(p.steps[k], args, next[k - 1])
    IN next

(* A bug ParsesInventory must catch: what follows a call is ignored. *)
AcceptsPrefix(p, args) == AfterStep(p, args)[Len(p.steps)] # Refused

(* Trailing arguments are refused. *)
Accepts(p, args) == AfterStep(p, args)[Len(p.steps)] = Len(args) + 1

(* The pairs of a global flag and its value at the front are skipped. *)
PairsInFront(args, n) == 2 * n =< Len(args) /\ \A i \in 0..n - 1 : args[2 * i + 1] \in Globals
SkipGlobals(args) ==
    LET n == CHOOSE k \in 0..Len(args) : PairsInFront(args, k) /\ ~PairsInFront(args, k + 1)
    IN SubSeq(args, 2 * n + 1, Len(args))

(* The verb of a call; none if the call is refused. *)
Parse(args) == {p.as : p \in {q \in Parsers : Accepts(q, SkipGlobals(args))}}

-----------------------------------------------------------------------------
(* The calls Claude Code was seen to make, with the fields cmux reads (the *)
(* inventory and its tests), shape by shape, each with what it is for: the *)
(* first arguments are as the shape has them; "more" are the words of a    *)
(* shell command.                                                          *)

Call(as, shape) == [as |-> as, shape |-> shape, more |-> FALSE]
CallWithCommand(as, shape) == [as |-> as, shape |-> shape, more |-> TRUE]

Inventory ==
    {Call(v, <<{"set-option"}, {"-p"}, {"-t"}, Ids, {Styles[v]}, Arguments>>) : v \in DOMAIN Styles}
    \cup {
    Call("ShowMouse", <<{"show"}, {"-Av"}, {"mouse"}>>),
    Call("ShowFocusEvents", <<{"show"}, {"-gv"}, {"focus-events"}>>),
    Call("DisplayMessage", <<{"display-message"}, {"-p"}, DisplayFields>>),
    Call("DisplayMessage", <<{"display-message"}, {"-t"}, Ids, {"-p"}, DisplayFields>>),
    Call("ListPaneIds", <<{"list-panes"}, {"-t"}, Ids, {"-F"}, {"#{pane_id}"}>>),
    CallWithCommand("SplitWindow",
         <<{"split-window"}, {"-d"}, {"-t"}, Ids, {"-h", "-v"},
           {"-P"}, {"-F"}, {"#{pane_id}"}, {"--"}>>),
    CallWithCommand("SplitWindow",
         <<{"split-window"}, {"-d"}, {"-t"}, Ids, {"-h", "-v"}, {"-l"}, Arguments,
           {"-P"}, {"-F"}, {"#{pane_id}"}, {"--"}>>),
    Call("SetPaneBorderStatusTop",
         <<{"set-option"}, {"-w"}, {"-t"}, Ids, {"pane-border-status"}, {"top"}>>),
    Call("SelectPaneTitle", <<{"select-pane"}, {"-t"}, Ids, {"-T"}, Arguments>>),
    Call("RespawnPane", <<{"respawn-pane"}, {"-k"}, {"-t"}, Ids, {"--"}, Arguments>>),
    Call("SelectLayout", <<{"select-layout"}, {"-t"}, Ids, Arguments>>),
    Call("ResizePane", <<{"resize-pane"}, {"-t"}, Ids, {"-x"}, Arguments>>),
    Call("KillPane", <<{"kill-pane"}, {"-t"}, Ids>>)}

(* Whether the arguments from a place on are such a call. *)
Fits(c, args, from) ==
    /\ Len(args) - from >= Len(c.shape)
    /\ ~c.more => Len(args) - from = Len(c.shape)
    /\ \A i \in DOMAIN c.shape : args[from + i] \in c.shape[i]

(* What the arguments are a call for, whatever global flags are in front of it. *)
Meant(args) ==
    {c.as : c \in {d \in Inventory :
        \E n \in 0..Len(args) : PairsInFront(args, n) /\ Fits(d, args, 2 * n)}}

(* A call is taken exactly when it is in the inventory, and for what it is there for: one verb. *)
ParsesExactly(args) ==
    /\ Parse(args) = Meant(args)
    /\ \A v, w \in Parse(args) : v = w

-----------------------------------------------------------------------------
(* Lines about the inventory: a call of each shape with a few words more,  *)
(* behind some global flags, and what is one argument away from it.        *)

InFront == {<<>>, <<"-L", "word">>, <<"-S", "word", "-L", "word">>}

Example(c, words) ==
    [i \in 1..(Len(c.shape) + words) |->
        IF i =< Len(c.shape) THEN CHOOSE w \in c.shape[i] : TRUE ELSE "word"]

Near(args) ==
    {args, <<"-S">> \o args, <<"-q">> \o args}
    \cup {SubSeq(args, 1, i - 1) \o SubSeq(args, i + 1, Len(args)) : i \in DOMAIN args}
    \cup {[args EXCEPT ![i] = w] : i \in DOMAIN args, w \in {"word", "@0", "-t", "-w", "mouse"}}

Lines == UNION {Near(g \o Example(c, words)) : g \in InFront, c \in Inventory, words \in 0..1}
=============================================================================

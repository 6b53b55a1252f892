---------------------------- MODULE CommandLine ----------------------------
(***************************************************************************)
(* The command lines of the program: the hand-written scanners of its      *)
(* commands, each described by its options, checked against a reading of   *)
(* the line that does not scan it.                                         *)
(*                                                                         *)
(* A word is a string.  What a scanner tells apart is its own options,     *)
(* other words that begin with a dash ("-z"), numbers, the conditions of   *)
(* wait, worker names that are no file name, and all other words.          *)
(***************************************************************************)
EXTENDS Lists, SequencesExt

CONSTANT Absent             \* no value, no option waiting

Dash == "-z"
Numbers == {"7"}
Conditions == {"any-report", "report:w"}    \* two of what parse_until takes
UnsafeNames == {".."}
Words == {"x", "god", "all"}
Joined == [w \in {"--agents=x"} |-> <<"--agents", "x">>]      \* an option and its value in one word

-----------------------------------------------------------------------------
(* A command: its options without and with a value, those that may be      *)
(* given once only, those that must be given, those whose value may be     *)
(* missing at the end of the line, what is refused as the value of an      *)
(* option, how many other words there may be and whether words that mean   *)
(* nothing are skipped.                                                    *)

Command == [flags |-> {}, valued |-> {}, once |-> {}, needed |-> {}, bare |-> {},
            refused |-> {}, places |-> {0}, skips |-> FALSE]

Strictly(flags, valued, places) ==
    [Command EXCEPT !.flags = flags, !.valued = valued, !.once = flags \cup valued,
                    !.places = places]

Not(option, words) == {<<option, w>> : w \in words}
Anything == Numbers \cup Conditions \cup UnsafeNames \cup Words \cup {Dash}

SpawnOptions == Strictly({}, {"--resume", "--agents"}, 0..1)
DryRunOptions == [Strictly({"--dry-run"}, {"--agents"}, 0..1) EXCEPT !.once = {"--agents"}]
AdoptOptions ==
    [Strictly({}, {"--name", "--role", "--brief", "--run", "--team"}, {1}) EXCEPT
        !.needed = {"--name"}, !.refused = Not("--name", UnsafeNames)]
KillOptions == Strictly({"--remove-worktrees"}, {"--worker"}, {1})
StatusOptions == Strictly({"--json"}, {}, {1})
MsgOptions == Strictly({"--attention", "--ack"}, {"--run"}, {2})
BoardOptions == Strictly({}, {"--run"}, {0})
InboxOptions == [Command EXCEPT !.flags = {"--unread", "--json"}, !.valued = {"--run"}]
ReportOptions ==
    [Command EXCEPT !.valued = {"--run", "--head"}, !.refused = Not("--head", Anything \ Numbers)]
WaitOptions ==
    [Command EXCEPT !.flags = {"--json"}, !.valued = {"--run", "--until", "--timeout"},
                    !.needed = {"--until"},
                    !.refused = Not("--until", Anything \ Conditions)
                                    \cup Not("--timeout", Anything \ Numbers)]
RecordOptions ==
    [Command EXCEPT !.valued = {"--team", "--interval-secs", "--log-path"}, !.bare = {"--team"},
                    !.needed = {"--team"}, !.skips = TRUE,
                    !.refused = Not("--interval-secs", Anything \ Numbers)]
PaneBoardOptions ==
    [Command EXCEPT !.valued = {"--team", "--interval-secs"}, !.bare = {"--team"},
                    !.skips = TRUE, !.refused = Not("--interval-secs", Anything \ Numbers)]

(* main: the commands that read options, by name. *)
Names == {"spawn", "spawn --dry-run", "adopt", "kill", "status", "msg", "board", "inbox",
          "report", "wait", "record", "pane-board"}
Commands == [n \in Names |->
    CASE n = "spawn" -> SpawnOptions      [] n = "spawn --dry-run" -> DryRunOptions
      [] n = "adopt" -> AdoptOptions      [] n = "kill" -> KillOptions
      [] n = "status" -> StatusOptions    [] n = "msg" -> MsgOptions
      [] n = "board" -> BoardOptions      [] n = "inbox" -> InboxOptions
      [] n = "report" -> ReportOptions    [] n = "wait" -> WaitOptions
      [] n = "record" -> RecordOptions    [] n = "pane-board" -> PaneBoardOptions]

-----------------------------------------------------------------------------
(* The scanners: one pass over the words.  "wants" is the option whose     *)
(* value is next.                                                          *)

(* All options, and the words the lines are made of. *)
Options == UNION {Commands[n].flags \cup Commands[n].valued : n \in DOMAIN Commands}
Alphabet == Anything \cup Options \cup DOMAIN Joined \cup {"run", "acknowledged"}

ASSUME CommandLineAssumption == Absent \notin Alphabet

NoWord(c) == [ok |-> TRUE, wants |-> Absent, flags |-> {},
               values |-> [o \in c.valued |-> Absent], places |-> <<>>]

Refuse(s) == [s EXCEPT !.ok = FALSE]

IsOption(w) == w \in {Dash} \cup Options \cup DOMAIN Joined

(* set_option, set_agents: the value of an option, unless it has one or it is no value. *)
SetOption(c, s, o, value) ==
    IF \/ o \in c.once /\ s.values[o] # Absent
       \/ <<o, value>> \in c.refused
    THEN Refuse(s)
    ELSE [s EXCEPT !.wants = Absent, !.values[o] = value]

ScanWord(c, s, w) ==
    CASE s.wants # Absent -> SetOption(c, s, s.wants, w)
      [] s.wants = Absent /\ w \in c.valued -> [s EXCEPT !.wants = w]
      [] s.wants = Absent /\ w \in DOMAIN Joined /\ Joined[w][1] \in c.valued ->
            SetOption(c, s, Joined[w][1], Joined[w][2])
      [] s.wants = Absent /\ w \in c.flags ->
            IF w \in c.once \cap s.flags THEN Refuse(s) ELSE [s EXCEPT !.flags = @ \cup {w}]
      [] OTHER ->
            IF c.skips THEN s
            ELSE IF IsOption(w) THEN Refuse(s)
            ELSE [s EXCEPT !.places = Append(@, w)]

(* A bug ReadsCommandLines must catch: an option at the end of the line that lacks its value *)
(* is passed over, so that kill <run> --worker ends the run.                             *)
FinishForgiving(c, s) ==
    IF s.ok /\ Len(s.places) \in c.places
    THEN [s EXCEPT !.wants = Absent, !.ok = \A o \in c.needed : s.values[o] # Absent]
    ELSE Refuse(s)

(* The line is over: an option may still want its value. *)
Finish(c, s) ==
    IF /\ s.ok
       /\ s.wants \in c.bare \cup {Absent}
       /\ Len(s.places) \in c.places
    THEN LET values == [o \in c.valued |-> IF o = s.wants THEN Absent ELSE s.values[o]]
         IN [s EXCEPT !.wants = Absent, !.values = values,
                      !.ok = \A o \in c.needed : values[o] # Absent]
    ELSE Refuse(s)

(* What is known after each word. *)
AfterWord(c, args) ==
    LET state[k \in 0..Len(args)] ==
            IF k = 0 THEN NoWord(c) ELSE ScanWord(c, state[k - 1], args[k])
    IN state

Scan(c, args) == Finish(c, AfterWord(c, args)[Len(args)])

(* parse_report wants its worker first. *)
Parse(name, args) ==
    LET c == Commands[name] IN
    CASE name # "report" -> Scan(c, args)
      [] name = "report" /\ (args = <<>> \/ IsOption(Head(args))) -> Refuse(NoWord(c))
      [] OTHER -> [Scan(c, Tail(args)) EXCEPT !.places = <<Head(args)>>]

-----------------------------------------------------------------------------
(* What the commands that change a team make of their line: which of the   *)
(* things they can do, and to whom.                                        *)

Does(what, whom) == [does |-> what, whom |-> whom]
Usage == Does("usage", Absent)

PlaceOf(r) == IF r.places = <<>> THEN Absent ELSE r.places[1]
Both(a, b) == a # Absent /\ b # Absent

(* spawn_command: a dry run starts nothing, wherever it is asked for. *)
SpawnCommand(args) ==
    LET dry == Parse("spawn --dry-run", args)
        run == Parse("spawn", args)
        clash(r) == ~r.ok \/ Both(r.values["--agents"], PlaceOf(r))
    IN IF "--dry-run" \in Range(args)
       THEN IF clash(dry) \/ "--dry-run" \notin dry.flags THEN Usage ELSE Does("plan", PlaceOf(dry))
       ELSE IF clash(run) THEN Usage
       ELSE IF run.values["--resume"] = Absent THEN Does("start", PlaceOf(run))
       ELSE IF run.values["--agents"] = Absent /\ run.places = <<>>
            THEN Does("resume", run.values["--resume"])
            ELSE Usage

(* kill_command: a worker if one is named, else the run. *)
KillCommand(args) ==
    LET r == Parse("kill", args) IN
    CASE ~r.ok -> Usage
      [] r.ok /\ r.values["--worker"] = Absent -> Does("kill run", r.places[1])
      [] OTHER -> Does("kill worker", r.values["--worker"])

(* msg_command: what it does to the attention gate besides sending. *)
MultiTarget == {"all"}
MsgCommand(args) ==
    LET r == Parse("msg", args)
        raises == "--attention" \in r.flags
        clears == "--ack" \in r.flags
    IN IF \/ ~r.ok
          \/ raises /\ r.places[1] # "god"
          \/ clears /\ (raises \/ r.places[1] \in {"god"} \cup MultiTarget)
       THEN Usage
       ELSE Does(CASE raises -> "raise" [] clears -> "clear" [] OTHER -> "send", r.places[1])

AdoptCommand(args) ==
    LET r == Parse("adopt", args)
    IN IF r.ok THEN Does("adopt", r.values["--name"]) ELSE Usage

-----------------------------------------------------------------------------
(* The run board composes such lines too: a key binds the worker that is   *)
(* selected, and the human types the rest.                                 *)

(* apply_key: rows are numbered from 1, of count > 0. *)
Selected(key, row, count) ==
    CASE key = "down" -> (row % count) + 1
      [] key = "up" -> ((row + count - 2) % count) + 1
      [] OTHER -> row

(* bind_worker and action_args *)
BoardLine(key, worker, typed) ==
    CASE key = "message" -> <<worker, typed[1], "--run", "run">>
      [] key = "acknowledge" -> <<worker, "acknowledged", "--ack", "--run", "run">>
      [] key = "kill" -> <<"run", "--worker", worker>>
      [] key = "adopt" -> <<typed[1], "--name", typed[2], "--run", "run">>

(* execute_action: what the command does that is started with the line. *)
BoardDoes(key, worker, typed) ==
    LET line == BoardLine(key, worker, typed) IN
    CASE key \in {"message", "acknowledge"} -> MsgCommand(line)
      [] key = "kill" -> KillCommand(line)
      [] key = "adopt" -> AdoptCommand(line)

-----------------------------------------------------------------------------
(* The reading that does not scan: some of the words are options, the word *)
(* after one with a value is its value, and the rest are neither.          *)

Tokens(c) ==
    c.flags \cup c.valued \cup {Dash, "x"}
    \cup (IF "--agents" \in c.valued THEN DOMAIN Joined ELSE {})
    \cup {r[2] : r \in {q \in c.refused : q[2] \in UnsafeNames}}
    \cup (IF c.refused # {} THEN {"7", "report:w"} ELSE {})

Named(w) == IF w \in DOMAIN Joined THEN Joined[w][1] ELSE w
ValueAt(c, args, i) ==
    CASE args[i] \in DOMAIN Joined -> Joined[args[i]][2]
      [] args[i] \notin DOMAIN Joined /\ i + 1 \in DOMAIN args -> args[i + 1]
      [] OTHER -> Absent

(* The readings: the positions of the options, of their values and of the rest. *)
Reading(c, args, O) ==
    LET at(o) == {i \in O : Named(args[i]) = o}
        values == {i + 1 : i \in {j \in O : args[j] \in c.valued}}
    IN [options |-> O, values |-> values, rest |-> DOMAIN args \ (O \cup values),
        flags |-> {args[i] : i \in O} \cap c.flags,
        value |-> [o \in c.valued |-> IF at(o) = {} THEN Absent
                                     ELSE ValueAt(c, args, Max(at(o)))]]

(* A reading is right when every word has one part and the command allows all of it. *)
RightReading(c, args, r) ==
    /\ \A i \in r.options : Named(args[i]) \in c.flags \cup c.valued
    /\ \A i \in r.options : args[i] \in c.valued /\ i = Len(args) => args[i] \in c.bare
    /\ r.values \cap r.options = {}
    /\ \A i, j \in r.options : Named(args[i]) = Named(args[j]) /\ Named(args[i]) \in c.once => i = j
    /\ \A i \in r.options : <<Named(args[i]), ValueAt(c, args, i)>> \notin c.refused
    /\ \A o \in c.needed : r.value[o] # Absent
    /\ IF c.skips THEN \A i \in r.rest : args[i] \notin c.valued
       ELSE Cardinality(r.rest) \in c.places /\ \A i \in r.rest : ~IsOption(args[i])

ReadsAsWritten(c, args) ==
    LET all == {Reading(c, args, O) : O \in SUBSET DOMAIN args}
        readings == {r \in all : RightReading(c, args, r)}
        s == Scan(c, args)
    IN /\ s.ok <=> readings # {}
       /\ \A r \in readings :
             /\ s.flags = r.flags
             /\ s.values = r.value
             /\ ~c.skips => s.places = [k \in 1..Cardinality(r.rest) |-> args[Ascending(r.rest)[k]]]

(* Whatever is typed, a key of the board reaches the worker that was selected or nobody; and *)
(* what is typed is taken as it is unless it looks like an option itself.                 *)
BoardReaches ==
    \A worker \in Words \cup {Dash}, typed \in [1..2 -> Anything \cup Tokens(MsgOptions)
                                                     \cup Tokens(AdoptOptions)] :
        /\ BoardDoes("kill", worker, typed) = Does("kill worker", worker)
        /\ BoardDoes("acknowledge", worker, typed) \in {Usage, Does("clear", worker)}
        /\ BoardDoes("message", worker, typed) \in {Usage, Does("send", worker)}
        /\ ~IsOption(worker) /\ ~IsOption(typed[1]) =>
              /\ BoardDoes("message", worker, typed).does = "send"
              /\ Parse("msg", BoardLine("message", worker, typed)).places = <<worker, typed[1]>>
        /\ ~IsOption(typed[1]) =>
              BoardDoes("adopt", worker, typed) \in {Usage, Does("adopt", typed[2])}

Rows == \A count \in 1..4 : \A row \in 1..count :
            /\ Selected("up", row, count) \in 1..count
            /\ Selected("down", Selected("up", row, count), count) = row

(* No slip in a line widens what it does. *)
NeverWidens(Lines(_)) ==
    /\ \A args \in Lines(Tokens(KillOptions)) :
          "--worker" \in Range(args) => KillCommand(args).does # "kill run"
    /\ \A args \in Lines(Tokens(SpawnOptions) \cup {"--dry-run"}) :
          /\ "--dry-run" \in Range(args) => SpawnCommand(args).does \notin {"start", "resume"}
          /\ \A i \in DOMAIN args :
                args[i] = "--resume" /\ SpawnCommand(args).does = "start"
                => i > 1 /\ args[i - 1] = "--agents"
    /\ \A args \in Lines(Tokens(MsgOptions) \cup {"god", "all"}) :
          MsgCommand(args).does = "clear" => MsgCommand(args).whom \notin {"god", "all"}

(***************************************************************************)
(* Every command takes exactly the lines that can be read with each word   *)
(* an option, the value of one, or a place, and takes them for that        *)
(* reading, whatever the order of the words; no slip in a line widens what *)
(* it does: a line that names a worker to kill never kills the run, one    *)
(* that asks for a dry run starts and resumes nothing, and one that asks   *)
(* for a resume starts no second team.  A key of the board acts on the     *)
(* worker it was pressed for, whatever is typed after it.                  *)
(***************************************************************************)
CommandsRead(Lines(_)) ==
    /\ BoardReaches /\ Rows
    /\ \A n \in DOMAIN Commands : \A args \in Lines(Tokens(Commands[n])) :
          ReadsAsWritten(Commands[n], args)
    /\ NeverWidens(Lines)

(* The lines of up to four words. *)
Short(words) == SeqOf(words, 4)
CommandsReadAsWritten == CommandsRead(Short)
=============================================================================

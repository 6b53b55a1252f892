---------------------------- MODULE HerdrClient ----------------------------
(***************************************************************************)
(* The client of Herdr's command line (src/herdr.rs): one process per      *)
(* request, whose exit and output are taken for an answer or an error, and *)
(* the submission of a message (msg.rs) built on it.  There is no state:   *)
(* the operators map what the processes do to what the caller is told.     *)
(*                                                                         *)
(* A process is not started, ends with an exit status (none if a signal    *)
(* killed it) and prints something: no JSON, the result of a request with  *)
(* its type, or an event.                                                  *)
(***************************************************************************)
EXTENDS Lists, SequencesExt

CONSTANTS
    Asked, Other,       \* the pane or the working tree asked for, and another
    Unset               \* a field or a value that is missing

ASSUME ClientAssumption ==
    /\ Asked # Other
    /\ Unset \notin Nat \cup {Asked, Other, "pane_agent_status_changed", "pane_exited"}

Objects == {Asked, Other}
Statuses == {"working", "idle"}

NotStarted == [started |-> FALSE, exit |-> Unset, out |-> Unset]
Ended(exit, out) == [started |-> TRUE, exit |-> exit, out |-> out]

(* What a request is answered with. *)
NoJson == [form |-> "none"]
Result(kind, pane, status) ==
    [form |-> "result", kind |-> kind, pane |-> pane, status |-> status]
Event(event, kind, pane, status) ==
    [form |-> "event", event |-> event, kind |-> kind, pane |-> pane, status |-> status]
Trees(kind, trees) == [form |-> "trees", kind |-> kind, trees |-> trees]

-----------------------------------------------------------------------------
(* What the caller is told: a value, or one of three errors.               *)

Ok(value) == [is |-> "ok", value |-> value]
SpawnError == [is |-> "spawn", value |-> Unset]
CommandError(exit) == [is |-> "command", value |-> exit]
InvalidResponse == [is |-> "invalid", value |-> Unset]

(* invoke: the output of a process that ran and succeeded. *)
Invoke(process) ==
    CASE ~process.started -> SpawnError
      [] process.started /\ process.exit # 0 -> CommandError(process.exit)
      [] OTHER -> Ok(process.out)

(* The type of the answer each request expects; of the others nothing is read. *)
Kinds == [workspace_create |-> "workspace_created", workspace_close |-> "ok",
          worktree_create |-> "worktree_created", pane_split |-> "pane_info",
          pane_rename |-> "pane_info", pane_get |-> "pane_info", pane_list |-> "pane_list",
          pane_layout |-> "pane_layout", agent_list |-> "agent_list"]
Unread == {"pane_run", "pane_read", "pane_close", "pane_resize", "workspace_focus", "tab_focus",
           "api_schema", "pane_report_metadata", "pane_report_tokens", "notification_show"}

(* parse_response and expect_kind. *)
OfKind(out, kind) == out.form = "result" /\ out.kind = kind

Request(verb, process) ==
    LET answer == Invoke(process)
    IN IF answer.is = "ok" /\ verb \notin Unread /\ ~OfKind(answer.value, Kinds[verb])
       THEN InvalidResponse
       ELSE answer

-----------------------------------------------------------------------------
(* agent_wait. *)

(* A bug DeliversFaithfully must catch: the pane of an event is not compared. *)
MatchesAnyPane(out, pane, status) ==
    /\ out.status = status
    /\ \/ OfKind(out, "agent_info") /\ out.pane = pane
       \/ out.form = "event" /\ out.event = "pane.agent_status_changed"

(* parse_agent_wait: the agent has the status already, or an event says that it came to. *)
Matches(out, pane, status) ==
    /\ out.pane = pane
    /\ out.status = status
    /\ \/ OfKind(out, "agent_info")
       \/ /\ out.form = "event"
          /\ out.event = "pane.agent_status_changed"
          /\ out.kind \in {Unset, "pane_agent_status_changed"}

(* The exit status 1 is taken for a time-out, whatever the reason was. *)
AgentWait(pane, status, process) ==
    LET answer == Invoke(process) IN
    CASE answer.is = "command" /\ answer.value = 1 -> Ok("timed out")
      [] answer.is = "ok" ->
            IF answer.value.form \in {"result", "event"} /\ Matches(answer.value, pane, status)
            THEN Ok("reached")
            ELSE InvalidResponse
      [] OTHER -> answer

-----------------------------------------------------------------------------
(* worktree_remove: the workspace that has the tree open is looked up, then removed. *)

Listed(out, path) == Picked(out.trees, {i \in DOMAIN out.trees : out.trees[i].path = path})

(* parse_worktree_workspace_id *)
WorkspaceOf(answer, path) ==
    CASE answer.is # "ok" -> answer
      [] answer.is = "ok" ->
            IF /\ answer.value.form = "trees"
               /\ answer.value.kind = "worktree_list"
               /\ Listed(answer.value, path) # <<>>
               /\ Listed(answer.value, path)[1].workspace # Unset
            THEN Ok(Listed(answer.value, path)[1].workspace)
            ELSE InvalidResponse

(* What the second process is asked to remove, if there is one, and what the caller is told. *)
WorktreeRemove(path, list, remove) ==
    LET workspace == WorkspaceOf(Invoke(list), path)
        answer == Invoke(remove)
    IN IF workspace.is # "ok"
       THEN [removes |-> Unset, told |-> workspace]
       ELSE [removes |-> workspace.value,
             told |-> IF answer.is = "ok" /\ ~OfKind(answer.value, "worktree_removed")
                      THEN InvalidResponse ELSE answer]

-----------------------------------------------------------------------------
TimedOut(answer) == answer.is = "ok" /\ answer.value = "timed out"

(* deliver_message: the text, a wait for the agent to start working, a     *)
(* bare enter if it did not, and a second wait.  The processes are those   *)
(* that would run, in this order; texts and enters count what was typed.   *)

Told(told, texts, enters) == [told |-> told, texts |-> texts, enters |-> enters]
SubmissionTimeout == [is |-> "timeout", value |-> Unset]

DeliverMessage(verify, process) ==
    LET text == Request("pane_run", process[1])
        grace == AgentWait(Asked, "working", process[2])
        enter == Request("pane_run", process[3])
        second == AgentWait(Asked, "working", process[4])
    IN CASE text.is # "ok" -> Told(text, 0, 0)
         [] text.is = "ok" /\ ~verify -> Told(text, 1, 0)
         [] text.is = "ok" /\ verify /\ ~TimedOut(grace) -> Told(grace, 1, 0)
         [] OTHER ->
               CASE enter.is # "ok" -> Told(enter, 1, 0)
                 [] enter.is = "ok" /\ ~TimedOut(second) -> Told(second, 1, 1)
                 [] OTHER -> Told(SubmissionTimeout, 1, 1)

-----------------------------------------------------------------------------
(* strip_escape_sequences: what is typed or queued is the text without the *)
(* terminal's control sequences.  A sequence has one of three kinds, by    *)
(* its introducer: "csi" ends with a final byte, "osc" with a bell or      *)
(* ESC \, "str" with ESC \ only; ESC and any other character is one too.   *)

Introducers == [CSI |-> "csi", OSC |-> "osc", DCS |-> "str"]
AfterEsc(c) == CASE c = "[" -> "csi" [] c = "]" -> "osc" [] c = "P" -> "str" [] OTHER -> "text"
Finals == {"a", "[", "]", "P", "\\"}

(* In a string, ESC may begin its end. *)
Ending == [osc |-> "osc esc", str |-> "str esc"]

(* One character: the state is where it stands and what has been kept. *)
StripStep(s, c) ==
    LET to(at) == [s EXCEPT !.at = at] IN
    CASE s.at = "text" ->
            CASE c = "ESC" -> to("esc")
              [] c \in DOMAIN Introducers -> to(Introducers[c])
              [] OTHER -> [s EXCEPT !.kept = Append(@, c)]
      [] s.at = "esc" -> to(AfterEsc(c))
      [] s.at = "csi" -> IF c \in Finals THEN to("text") ELSE s
      [] s.at \in {"osc", "str"} ->
            CASE c = "ESC" -> to(Ending[s.at])
              [] c = "BEL" /\ s.at = "osc" -> to("text")
              [] OTHER -> s
      [] OTHER ->
            CASE c = "\\" \/ (c = "BEL" /\ s.at = Ending.osc) -> to("text")
              [] c = "ESC" -> s
              [] OTHER -> to(IF s.at = Ending.osc THEN "osc" ELSE "str")

NothingScanned == [at |-> "text", kept |-> <<>>]
Scanned(text) ==
    LET after[k \in 0..Len(text)] ==
            IF k = 0 THEN NothingScanned ELSE StripStep(after[k - 1], text[k])
    IN after
Strip(text) == Scanned(text)[Len(text)].kept

(* The sequences, without a scan: where the one that begins at i has its body, and whether *)
(* it ends at j if it has not ended before.                                                *)
Begins(c) == c = "ESC" \/ c \in DOMAIN Introducers
KindAt(text, i) ==
    IF text[i] # "ESC" THEN Introducers[text[i]]
    ELSE IF i < Len(text) THEN AfterEsc(text[i + 1]) ELSE "esc"
BodyAt(text, i) == IF text[i] = "ESC" THEN i + 2 ELSE i + 1
Closes(text, i, j) ==
    LET body == BodyAt(text, i) IN
    CASE KindAt(text, i) = "text" -> j = i + 1
      [] KindAt(text, i) = "csi" -> j >= body /\ text[j] \in Finals
      [] KindAt(text, i) = "esc" -> FALSE
      [] OTHER -> \/ j > body /\ text[j - 1] = "ESC" /\ text[j] = "\\"
                  \/ KindAt(text, i) = "osc" /\ j >= body /\ text[j] = "BEL"

(* The text falls into characters that are kept and sequences, of which the last may lack *)
(* its end: cuts are the positions at which a part begins.                                *)
IsPart(text, cuts, i, j) ==
    /\ i =< j /\ i \in cuts /\ \A m \in (i + 1)..j : m \notin cuts
    /\ j = Len(text) \/ j + 1 \in cuts
FallsInto(text, cuts) ==
    /\ text # <<>> => 1 \in cuts
    /\ \A i, j \in DOMAIN text : IsPart(text, cuts, i, j) =>
          IF Begins(text[i])
          THEN /\ \A m \in i..(j - 1) : ~Closes(text, i, m)
               /\ Closes(text, i, j) \/ j = Len(text)
          ELSE j = i
Outside(text, cuts) == Picked(text, {i \in cuts : ~Begins(text[i])})

(* What is left of a text after strip is what stands outside of its sequences. *)
IsPlain(text) ==
    {Outside(text, cuts) : cuts \in {c \in SUBSET DOMAIN text : FallsInto(text, c)}} = {Strip(text)}

Characters == {"a", "1", "[", "]", "P", "\\", "BEL", "ESC", "CSI", "OSC", "DCS"}
Texts == LET short == SeqOf(Characters, 4) IN short \cup {Append(text, "1") : text \in short}

-----------------------------------------------------------------------------
(* What the processes may do.                                              *)

Outputs ==
    {NoJson}
    \cup {Result(k, p, s) : k \in {"agent_info", "pane_info"}, p \in Objects, s \in Statuses}
    \cup {Event(e, k, p, s) : e \in {"pane.agent_status_changed", "pane.exited"},
                             k \in {Unset, "pane_agent_status_changed", "pane_exited"},
                             p \in Objects, s \in Statuses}
Processes ==
    {NotStarted} \cup {Ended(0, out) : out \in Outputs} \cup {Ended(e, NoJson) : e \in {1, 2, Unset}}
Typings == {NotStarted, Ended(0, NoJson), Ended(1, NoJson)}

Listings ==
    {NotStarted, Ended(1, NoJson), Ended(0, NoJson)}
    \cup {Ended(0, Trees(k, t)) : k \in {"worktree_list", "worktree_created"},
            t \in SeqOf([path : Objects, workspace : {Asked, Other, Unset}], 2)}

(* Herdr said that the pane asked for has begun to work. *)
SaysWorking(process) ==
    /\ process.started /\ process.exit = 0 /\ process.out.form # "none"
    /\ process.out.pane = Asked
    /\ process.out.status = "working"
    /\ process.out.form = "result" => process.out.kind = "agent_info"
    /\ process.out.form = "event" =>
          process.out.event = "pane.agent_status_changed" /\ process.out.kind # "pane_exited"

(***************************************************************************)
(* A message is reported as delivered only when it was typed once and,     *)
(* where submission is verified, Herdr has said of this very pane that its *)
(* agent works; enter is pressed again only after a silent wait, so never  *)
(* into an agent that is known to work.  A working tree is removed only    *)
(* through the workspace Herdr lists for it, and an answer of another type *)
(* or a process that failed is an error for every request.  What is typed  *)
(* is the text that was sent but for its control sequences.                *)
(***************************************************************************)
AnswersAreForUs ==
    /\ \A text \in Texts : IsPlain(text)
    /\ \A verify \in BOOLEAN, t, e \in Typings, g, w \in Processes :
          LET d == DeliverMessage(verify, <<t, g, e, w>>) IN
          /\ d.texts =< 1 /\ d.enters =< d.texts
          /\ d.told.is = "ok" => d.texts = 1 /\ (verify => SaysWorking(g) \/ SaysWorking(w))
          /\ d.enters = 1 => verify /\ ~SaysWorking(g)
          /\ verify /\ d.texts = 1 /\ SaysWorking(g) => d.told.is = "ok"
    /\ \A path \in Objects, list \in Listings, remove \in Processes :
          LET r == WorktreeRemove(path, list, remove) IN
          /\ r.removes # Unset =>
                \E i \in DOMAIN list.out.trees :
                    list.out.trees[i] = [path |-> path, workspace |-> r.removes]
          /\ r.removes = Unset => r.told.is # "ok"
    /\ \A verb \in DOMAIN Kinds, process \in Processes :
          Request(verb, process).is = "ok" =>
              process.started /\ process.exit = 0 /\ process.out.form = "result"
=============================================================================

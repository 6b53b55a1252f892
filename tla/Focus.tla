------------------------------- MODULE Focus --------------------------------
(***************************************************************************)
(* The focus pane (src/focus_pane.rs), which shows the attention queue and *)
(* takes a human's keys, and the `jump` command (src/jump.rs), which goes  *)
(* to the most urgent item that has a pane.  Both read the sources of the  *)
(* queue one after the other, and then the audit log they both append to.  *)
(*                                                                         *)
(* A key that is pressed while the pane loads waits: the human chose by    *)
(* the frame that was there.  An append may fail, and nobody is told; nor  *)
(* is anybody when the team's configuration or its lead's inbox cannot be  *)
(* read: the load goes on without the messages.                            *)
(*                                                                         *)
(* One team has a lead; other teams' messages would follow in the queue.   *)
(***************************************************************************)
EXTENDS Attention

CONSTANTS
    Views,          \* the focus panes
    Jumps,          \* the jump commands
    MaxChanges,     \* bounds the changes of the sources
    MaxClock,       \* bounds the time
    MaxKeys         \* bounds the keys pressed

Loaders == Views \cup Jumps

ASSUME FocusAssumption ==
    /\ Views \cap Jumps = {}
    /\ MaxChanges \in Nat /\ MaxClock \in Nat /\ MaxKeys \in Nat

VARIABLES
    now,            \* the time
    agents,         \* the state of each pane's agent
    file,           \* the decisions of the focus file
    leadInbox,      \* the lead's inbox
    changes,        \* how often the sources have changed
    log,            \* the audit log
    pc,             \* what each pane or command does
    got,            \* what it has read of the sources; history: whether it missed the lead
    queue,          \* AppState.queue
    selection,      \* AppState.selection
    status,         \* AppState.status
    pressed,        \* a key that waits, and the item it was pressed at
    keys,           \* how many keys have been pressed
    target,         \* the item a jump goes to
    stamp,          \* when it got there
    moved,          \* history: a row at or above the chosen one has changed
    held,           \* history: what has needed attention since a load began
    done            \* history: what was consumed, and when

sources == <<agents, file, leadInbox, changes>>
view == <<queue, selection, status, pressed, keys, moved>>
jump == <<target, stamp>>
audit == <<log, done>>
focusVars == <<now, sources, audit, pc, got, view, jump, held>>

NoItem == [id |-> <<"none">>, what |-> <<"none">>, pane |-> None]
NoKey == [key |-> "none", item |-> NoItem]
Nothing == [agents |-> [p \in Panes |-> "gone"], file |-> <<>>, inbox |-> <<>>, missed |-> FALSE]

FocusInit ==
    /\ now = 0 /\ changes = 0 /\ log = <<>> /\ done = {}
    /\ agents \in [Panes -> {"blocked", "other"}]
    /\ file \in {<<>>} \cup {<<[text |-> t, resolved |-> FALSE]>> : t \in Texts}
    /\ leadInbox = <<>>
    /\ pc = [l \in Loaders |-> IF l \in Views THEN "focus" ELSE "off"]
    /\ got = [l \in Loaders |-> Nothing]
    /\ queue = [v \in Views |-> <<>>] /\ selection = [v \in Views |-> 1]
    /\ status = [v \in Views |-> "none"] /\ pressed = [v \in Views |-> NoKey]
    /\ keys = 0 /\ moved = [v \in Views |-> FALSE]
    /\ target = [j \in Jumps |-> NoItem] /\ stamp = [j \in Jumps |-> 0]
    /\ held = [l \in Loaders |->
          IF l \in Views THEN ToSet(AttentionQueue(agents, file, leadInbox)) ELSE {}]

-----------------------------------------------------------------------------
(* Loading: the order of the reads is the caller's.                        *)

After(l, step) ==
    CASE step = "focus"  -> IF l \in Views THEN "agents" ELSE "leads"
      [] step = "agents" -> IF l \in Views THEN "leads" ELSE "focus"
      [] step = "leads"  -> "consumed"

Reads(l, source) ==
    /\ pc[l] = source /\ pc' = [pc EXCEPT ![l] = After(l, source)]
    /\ UNCHANGED <<now, sources, audit, view, target, stamp>>

ReadFocusFile(l) == Reads(l, "focus") /\ got' = [got EXCEPT ![l].file = file]
ListAgents(l) == Reads(l, "agents") /\ got' = [got EXCEPT ![l].agents = agents]
ReadLeads(l) == Reads(l, "leads") /\ got' = [got EXCEPT ![l].inbox = leadInbox]

(* A team or an inbox that cannot be read, or is half written, is left out, as *)
(* if the inbox were empty; if it is, nothing is missed.                       *)
MissLeads(l) ==
    leadInbox # <<>> /\ Reads(l, "leads") /\ got' = [got EXCEPT ![l].missed = TRUE]

(* A queue is what was read, without what the log suppresses by now. *)
Loaded(l) == Unconsumed(AttentionQueue(got[l].agents, got[l].file, got[l].inbox), log, now)

(* A pane keeps the state it has, a jump returns the error. *)
LoadFails(l) ==
    /\ pc[l] \in {"focus", "agents", "consumed"}
    /\ pc' = [pc EXCEPT ![l] = IF l \in Views THEN "keys" ELSE "over"]
    /\ got' = [got EXCEPT ![l] = Nothing]
    /\ UNCHANGED <<now, sources, audit, view, target, stamp>>

-----------------------------------------------------------------------------
(* The focus pane.                                                         *)

At(v) == IF selection[v] \in DOMAIN queue[v] THEN queue[v][selection[v]] ELSE NoItem

(* The rows above the selection and the selected one. *)
Above(rows, n) == SubSeq(rows, 1, IF n < Len(rows) THEN n ELSE Len(rows))

(* A bug ChosenUnlessMoved must catch: a reload starts from the top again. *)
SelectionOfReload(v, rows) == 1

SelectionAfter(v, rows) ==
    IF selection[v] <= Len(rows) THEN selection[v] ELSE IF rows = <<>> THEN 1 ELSE Len(rows)

Reload(v) ==
    /\ pc[v] = "consumed" /\ pc' = [pc EXCEPT ![v] = "keys"]
    /\ LET rows == Loaded(v)
       IN  /\ queue' = [queue EXCEPT ![v] = rows]
           /\ selection' = [selection EXCEPT ![v] = SelectionAfter(v, rows)]
           /\ moved' = [moved EXCEPT ![v] =
                 @ \/ (pressed[v] # NoKey
                       /\ Above(rows, selection[v]) # Above(queue[v], selection[v]))]
    /\ got' = [got EXCEPT ![v] = Nothing]
    /\ UNCHANGED <<now, sources, audit, status, pressed, keys, target, stamp>>

(* No key for a while: once a second the state is loaded afresh. *)
Refresh(v) ==
    /\ pc[v] = "keys" /\ pressed[v] = NoKey
    /\ pc' = [pc EXCEPT ![v] = "focus"]
    /\ UNCHANGED <<now, sources, audit, got, view, target, stamp>>

Press(v, key) ==
    /\ pc[v] # "quit" /\ pressed[v] = NoKey /\ keys < MaxKeys /\ keys' = keys + 1
    /\ pressed' = [pressed EXCEPT ![v] = [key |-> key, item |-> At(v)]]
    /\ UNCHANGED <<now, sources, audit, pc, got, queue, selection, status, moved, target, stamp>>

Handles(v, key, next) ==
    /\ pc[v] = "keys" /\ pressed[v].key = key /\ pc' = [pc EXCEPT ![v] = next]
    /\ pressed' = [pressed EXCEPT ![v] = NoKey]
    /\ moved' = [moved EXCEPT ![v] = FALSE]
    /\ UNCHANGED <<now, sources, got, queue, keys, target, stamp>>

Move(v, key, to) ==
    /\ Handles(v, key, "keys")
    /\ selection' = [selection EXCEPT ![v] = IF to \in DOMAIN queue[v] THEN to ELSE @]
    /\ UNCHANGED <<audit, status>>

(* pane_get, workspace_focus and tab_focus, of which any may fail. *)
JumpToSelected(v) ==
    /\ Handles(v, "enter", "keys")
    /\ status' \in {[status EXCEPT ![v] = s] :
          s \in IF At(v).pane = None THEN {"no pane"} ELSE {"none", "failed"}}
    /\ UNCHANGED <<audit, selection>>

(* An append is one write at the end of the file; its errors are ignored. *)
Consume(item, at) ==
    \/ /\ log' = Append(log, [id |-> item.id, at |-> at])
       /\ done' = done \cup {<<item.what, at>>}
    \/ UNCHANGED audit

MarkDone(v) ==
    \/ /\ At(v) # NoItem /\ Handles(v, "d", "focus")
       /\ Consume(At(v), now)
       /\ UNCHANGED <<selection, status>>
    \/ /\ At(v) = NoItem /\ Handles(v, "d", "keys")
       /\ UNCHANGED <<audit, selection, status>>

Quit(v) == Handles(v, "q", "quit") /\ UNCHANGED <<audit, selection, status>>

-----------------------------------------------------------------------------
(* The jump command.                                                       *)

StartJump(j) ==
    /\ pc[j] = "off" /\ pc' = [pc EXCEPT ![j] = "agents"]
    /\ UNCHANGED <<now, sources, audit, got, view, target, stamp>>

(* The places in the queue of the items that have a pane. *)
Candidates(rows) == {i \in 1..Len(rows) : rows[i].pane # None}

PickTarget(j) ==
    /\ pc[j] = "consumed" /\ got' = [got EXCEPT ![j] = Nothing]
    /\ LET rows == Loaded(j)
       IN  IF Candidates(rows) = {}
           THEN pc' = [pc EXCEPT ![j] = "over"] /\ UNCHANGED target
           ELSE /\ pc' = [pc EXCEPT ![j] = "go"]
                /\ target' = [target EXCEPT ![j] = rows[Min(Candidates(rows))]]
    /\ UNCHANGED <<now, sources, audit, view, stamp>>

(* The jump succeeds, and the time of it is taken; or the command fails. *)
Go(j) ==
    /\ pc[j] = "go"
    /\ \/ pc' = [pc EXCEPT ![j] = "append"] /\ stamp' = [stamp EXCEPT ![j] = now]
       \/ pc' = [pc EXCEPT ![j] = "over"] /\ UNCHANGED stamp
    /\ UNCHANGED <<now, sources, audit, got, view, target>>

RecordJump(j) ==
    /\ pc[j] = "append" /\ pc' = [pc EXCEPT ![j] = "over"]
    /\ Consume(target[j], stamp[j])
    /\ UNCHANGED <<now, sources, got, view, target, stamp>>

-----------------------------------------------------------------------------
(* The world.                                                              *)

Changes ==
    /\ changes < MaxChanges /\ changes' = changes + 1
    /\ UNCHANGED <<now, audit, pc, got, view, target, stamp>>

AgentChanges(p) ==
    /\ Changes /\ \E s \in AgentStates : s # agents[p] /\ agents' = [agents EXCEPT ![p] = s]
    /\ UNCHANGED <<file, leadInbox>>

(* Anyone may edit the focus file. *)
Decide ==
    /\ Changes
    /\ \/ \E t \in Texts : file' = Append(file, [text |-> t, resolved |-> FALSE])
       \/ \E i \in DOMAIN file : file' = RemoveAt(file, i)
       \/ \E i \in DOMAIN file : ~file[i].resolved /\ file' = [file EXCEPT ![i].resolved = TRUE]
    /\ UNCHANGED <<agents, leadInbox>>

MessageArrives ==
    /\ Changes /\ \E m \in Messages : leadInbox' = Append(leadInbox, m)
    /\ UNCHANGED <<agents, file>>

Tick ==
    /\ now < MaxClock /\ now' = now + 1
    /\ UNCHANGED <<sources, audit, pc, got, view, target, stamp>>

-----------------------------------------------------------------------------
(* What needs attention by now, consumed by nobody within the last         *)
(* CONSUMED_TTL_MS; and since when a load that is under way has seen it so. *)
Fresh(item) == \A d \in done : d[1] = item.what => now - d[2] >= CONSUMED_TTL_MS
Needs == {item \in ToSet(AttentionQueue(agents, file, leadInbox)) : Fresh(item)}

Loading(l) == pc[l] \in {"focus", "agents", "leads", "consumed"}

Remember ==
    held' = [l \in Loaders |-> CASE ~Loading(l)' -> {}
                                 [] Loading(l)' /\ ~Loading(l) -> Needs'
                                 [] Loading(l)' /\ Loading(l) -> held[l] \cap Needs']

Load(l) ==
    ReadFocusFile(l) \/ ListAgents(l) \/ ReadLeads(l) \/ MissLeads(l) \/ LoadFails(l)

Key(v) ==
    \/ Move(v, "j", selection[v] + 1)
    \/ Move(v, "k", selection[v] - 1)
    \/ JumpToSelected(v)
    \/ MarkDone(v)
    \/ Quit(v)

View(v) == Load(v) \/ Reload(v) \/ Refresh(v) \/ Key(v)

Jump(j) == StartJump(j) \/ Load(j) \/ PickTarget(j) \/ Go(j) \/ RecordJump(j)

FocusNext ==
    /\ \/ \E v \in Views : View(v) \/ \E key \in {"j", "k", "enter", "d", "q"} : Press(v, key)
       \/ \E j \in Jumps : Jump(j)
       \/ \E p \in Panes : AgentChanges(p)
       \/ Decide
       \/ MessageArrives
       \/ Tick
    /\ Remember

FocusSpec == FocusInit /\ [][FocusNext]_focusVars

-----------------------------------------------------------------------------
(* Properties.                                                             *)

(* A message of a lead whose files the load could not read. *)
Overlooked(l, item) == got[l].missed /\ item.id[1] = "inbox"

(* What needs attention throughout a load comes up in the pane, even when  *)
(* it was consumed before, as long as CONSUMED_TTL_MS have passed since    *)
(* (audit.rs, finding 1 of the review of #86), and whichever other reads   *)
(* and appends fail; only the messages of a lead are left out when its own *)
(* files cannot be read.                                                   *)
NothingSwallowed ==
    [][\A v \in Views : Reload(v) =>
          \A item \in held[v] : ~Overlooked(v, item) =>
              \E i \in DOMAIN queue'[v] : queue'[v][i].what = item.what]_focusVars

(* A key acts on the row the human chose, whatever was loaded since, as    *)
(* long as that row and those above it are what they were (focus_pane.rs,  *)
(* try_reload_state).                                                      *)
ChosenUnlessMoved ==
    \A v \in Views : pressed[v] # NoKey /\ ~moved[v] => At(v) = pressed[v].item

(* `jump` goes to "the highest-priority attention-queue item that has a    *)
(* pane to go to": it passes over nothing more urgent that has needed      *)
(* attention from its start, and gives up only when there is nothing,      *)
(* although it reads its sources one after the other (jump.rs); again but  *)
(* for the messages of a lead whose files it could not read.               *)
JumpsToMostUrgent ==
    [][\A j \in Jumps : PickTarget(j) =>
          \A item \in held[j] : item.pane # None /\ ~Overlooked(j, item) =>
              pc'[j] = "go" /\ Urgency(target'[j]) >= Urgency(item)]_focusVars
=============================================================================

# A verification of herdr-agent-team

herdr-agent-team runs teams of coding agents inside the terminal multiplexer
Herdr. Every command (`spawn`, `adopt`, `kill`, `msg`, `status`, `wait`, ...) and
every Herdr hook is a short process of its own, and so is each tmux call that a
lead agent makes through the shim. Nothing runs all the time that could order
them: they meet in files (`run.toml`, the outbox directories, spools, inboxes, id
tables, an audit log) and in what Herdr shows. This directory holds TLA+ models
of that meeting, the TLC configurations that check them, and proofs checked by
TLAPS.

Contents: [the system](#the-system), [modules](#the-modules),
[runs](#the-runs), [bounds](#bounds), [faults and fairness](#faults-and-fairness),
[proofs](#the-proofs), [disagreements](#disagreements-with-the-documents),
[observations](#observations), [not modelled](#what-is-not-modelled),
[what is left](#what-is-left).

## The system

| Component (source) | State it keeps | Operations | Meets others through | What is hard | What makes it correct |
|---|---|---|---|---|---|
| Outbox and drain (`msg.rs`, `hook.rs`) | `<run>/outbox/<target>/<seq>.msg`, `.claim` | `send_message`, `enqueue_message`, `sweep_stale_claims`, `drain_outbox` | the directory; hooks triggered by each idle flip | concurrent drains, crashes with a claim, file age, reused numbers | nothing queued is lost, one owner per claim, no second delivery, order, delivery in the end |
| Run board (`run.rs`, `types.rs`) | `run.toml`: run and worker lifecycles, checkpoints, panes, worktrees, hook metadata | `create_run`, `load_run`, `update_run_with_hook`, `append_event` | every command: locked updates, unlocked loads | a load is stale when it is used | lifecycles only go forward |
| Spawn and resume (`spawn.rs`) | a copy of the board shared by its launch threads | `spawn`, `resume_team`, allocation, protocols, `launch_worker` | board, Herdr | death between any two steps, threads, Herdr calls that fail | all allocated before any launch; running means briefed; briefed once |
| Kill (`status_kill.rs`) | a copy of the board | `kill`, `kill --worker` | board, Herdr | works from a stale copy while others go on | its result accounts for what it closed |
| Adopt (`adopt.rs`) | the pane and the name | `adopt` | board, Herdr | check on a stale copy, then insert | one worker per pane |
| Hook reconciliation (`reconcile.rs`, `hook.rs`) | statuses and gates in `run.toml` | `on_agent_status`, `reconcile_at_with_reports`, actions after the update | Herdr's events, board, outbox | events late and reordered, actions lost in a crash | each condition is notified once, nothing is revived |
| Attention and god CLI (`msg.rs`, `god_cli.rs`) | the attention gate, report read markers | `msg --attention`, `--ack`, `report`, `wait`, `inbox` | board, report files | unlocked reads one after another; a marker read before the lock | verdicts are true, what is marked read was seen |
| Metadata (`metadata.rs`) | a sequence number per worker | publish | board, Herdr | published after the lock is released | the latest status wins |
| Team hook and recorder (`team_hook.rs`, `recorder.rs`) | a spool, the recorder's delta state, a log | append, tick | the spool file, the facts | merged lines, a truncated file, failed appends, restarts | the log says what changed, once |
| Signal engine, gather (`signal_engine.rs`, `gather.rs`, `teamfiles.rs`) | none | read facts, classify | files, Herdr | facts read one after another | see recorder |
| teammux, its id table and launcher (`teammux.rs`, `idmap.rs`, `tmuxargs.rs`, `teammux_launch.rs`) | `%id` to pane table | the tmux verbs, seeding, the link to the shim | table lock, Herdr | look up, then call, then register; ids used again | an id names one pane, none names a killed one |
| Inbox writer and pane board (`inbox_write.rs`, `pane_board.rs`) | the inbox of another program, the selection and overlay | nudge, confirm, refresh | a lock file | the rows change under the confirmation; death with the lock | no entry lost, the nudge goes where it was aimed |
| Socket client, controller, run board view (`socket.rs`, `socket_backend.rs`, `board.rs`) | snapshot, loss budget, backoff, deadline | connect, subscribe, read, reconnect, collect | Herdr's socket | losses, halves of frames, silence | retries are bounded, changes are seen |
| Attention queue, audit, focus, jump (`attention.rs`, `audit.rs`, `focusfile.rs`, `focus_pane.rs`, `jump.rs`) | the audit log, the selection | load, keys, jump | files | keys typed while it loads, ids that come back, the clock | the key acts on what was chosen, nothing is swallowed |
| Herdr client (`herdr.rs`) | none | one process per request | Herdr | exits and outputs to tell apart | a delivery reported as made was made |
| Specification, launchers, targets (`spec.rs`, `launcher.rs`) | none | defaults, validation, targets | - | combinations of what is missing | only sound teams start, a message reaches whom it names |
| Entry points (`main.rs`, `lib.rs`) | none | a scanner per command | - | options in any place | a line is taken as it is written |
| Pump, tokens, paths, protocols (`pump.rs`, `tokens.rs`, `paths.rs`, `agents_md.rs`) | a debounce marker | publish, render | - | see [not modelled](#what-is-not-modelled) | - |

`PROJECT.json` lists the components with their status, the source lines each
definition stands for, and the hazards of this code, each at its line, with the
properties that would catch it.

How they interact on one run: `spawn` creates the board and one workspace per
worker, types a launcher into each and then a brief. An agent that is busy is sent
nothing: `msg` leaves a file in its outbox. When the agent's status turns to idle or
done, Herdr starts a hook process that updates the board, and only then drains the
outbox, notifies the god and publishes the status. Closed panes and workspaces start
hook processes too, which mark workers orphaned or ended. `adopt` takes the agent of
an existing pane into the run, `kill` closes what the board shows, `wait` and the
board look at it again and again, woken by the socket. A Herdr call is never made
under the board's lock, so each process acts on what it has read before.

Beside the runs there are native teams of Claude Code: it calls the tmux shim to
open its teammates' panes, and runs `hook` on its events. The recorder, the pane
board, the focus pane and `jump` read its files; a nudge writes one of them.

## The modules

A module with a component's name has its `VARIABLES`, one action per step and its
properties. An `MC` module adds symmetry and values for TLC, and lets a run check
the stateless operators of a second module beside it.

| Module | What it is |
|---|---|
| `Outbox` | One outbox directory with its `msg` and hook processes. |
| `MessageQueue` | What the outbox promises: an abstract queue without files, processes or order. `Outbox` implements it (`KeepsMessages`). |
| `RunBoard` | The board of one run, and Herdr's panes, agents, working trees and events, which no command owns. |
| `Spawn`, `Kill`, `Adopt`, `Reconcile` | One command each, over `RunBoard`, with the variables of its own processes. |
| `Team` | All of them together on one run. |
| `Roster` | What the board of a run promises: an abstract list of who is on the run, how far and where, without commands or processes. `Team` implements it (`KeepsRoster`). |
| `Hook` | Status events, gates, metadata and the actions after an update, with `msg --attention` and `--ack`. |
| `Notices` | What hooks and attention requests promise whoever is notified: abstract gates and notifications without events or processes. `Hook` implements it (`KeepsNotices`). |
| `GodCli` | `wait` and `report`. |
| `TeamFacts`, `Recorder` | The facts of a native team and their classification; the hooks' spool and the recorder's log, over the facts. |
| `TmuxArgs`, `TeamMux` | The shim's parser; the shim's processes over the id table. |
| `Socket` | One client of the socket: the loop of the board or of `wait` over the controller. |
| `PaneBoard` | Boards, their overlays and the locked append to an inbox. |
| `Mailboxes` | What the inboxes promise whoever writes to one: abstract boxes without files, locks or copies. `PaneBoard` implements it (`KeepsMailboxes`). |
| `Attention`, `Focus` | The queue of what needs attention; the focus pane and the jump over it. |
| `Lists` | How what is picked from a sequence is listed, for `Recorder`, `Attention`, `TeamSpec` and `HerdrClient`. |
| `HerdrClient`, `TeamSpec`, `CommandLine` | Operators without state: one request of Herdr, from specification to team and targets, the command lines. |
| `OutboxProofs`, `TeamProofs`, `SocketProofs`, `PaneBoardProofs`, `TeamMuxProofs`, `HookProofs`, `RecorderProofs` | The proofs, each of its component. |
| `GodProofs` | The proofs of `GodCli`, of `Focus` and of `CommandLine`. |

### Outbox

`queue[s]` and `claims[s]` are the files that the names `<s>.msg` and `<s>.claim`
lead to. A file is identified with the message its sender writes in it, so a
rename that replaces a file is a message that is gone. `stale` holds the files
last written 300 s ago (`STALE_CLAIM_THRESHOLD`): only a write makes a file young,
because a rename keeps the modification time. A sender goes `start -> list ->
create -> write -> queued` (a collision of `create_new` goes back to `list`), or
delivers at once. A drain sweeps stale claims, lists the queue, and for each entry in
order claims, reads, types, verifies and removes, or requeues and stops. Each failure
and each early return is an action; a step is at most one system call on the
directory or one call into Herdr. In the beginning the directory may hold what earlier
senders queued, under any numbers. `Target` says whether it is a worker's outbox or the
god's: the god's flips never drain it (`AsksForDrain`).

Nothing keeps a sender apart from the drains, nor one drain from another, so there are
messages for which the documents' promises fail without any fault. Two histories that
decide no step say for which: `mishaps[m]` has what befell message `m` (its number was
shared, it was claimed half-written, a sweep took its claim from a drain, a drain passed
it, it came too late for a listing, a drain ended before it removed it), and `before`
who was queued when whom took its number. The properties promise something for each
message that the mishaps they name spared, whatever befell the others.

### Team

One update of the board is one step, because `update_run_with_hook` loads, changes
and renames under the file lock. What a command has loaded without the lock it
keeps in its own variables, and acts on it when the board may have moved on:

* `Spawn`: `copy[s]` is the `RunState` that `update_worker_state` replaces after
  each write and that all launch threads share. `todo[s]` are the workers still to
  allocate, `step[s][w]` is what the process does next for worker `w`, `hand[s][w]`
  the pane it holds. Allocation goes worker by worker (tree, record, setup,
  workspace, record); then `WriteProtocols` starts one thread per worker, whose
  steps interleave: read the pane from the shared copy, look (resume only), launch,
  brief, write the checkpoint.
* `Kill`: `shown[k]` is the loaded board, `due[k]` what is still to be closed,
  `missed[k]` what could not be. `PersistRun` and `PersistWorker` are the final
  update of the board, `persist_kill_state`.
* `Adopt`: `wanted[x]`, `place[x]` and the place in the code. `Selects` is the check
  on the loaded board, `Insert` the check and insertion under the lock.
* `Reconcile`: events of closed panes wait in `events` until some hook handles
  them, in any order and at any time later. A run never becomes active again, so
  events that arise after the run has ended are ignored at once, and those that
  arose before it may still be handled by a hook that listed the run as active.

Herdr is external: it is modelled from how `src/` calls it. `pane[p]` is what it has
at a place: nothing yet, a shell, an agent that is idle or working, or nothing any
more. `workspace_create` returns one root pane and no command splits it, so
workspace and pane share a name. `briefs[p]` counts the briefs submitted in a pane,
up to two.

Choices made in the abstraction: the workers are taken in any order (the code's
order is that of the specification file, so every code behaviour is one of the
model's); a failed write of the board ends a command and is the same as its death;
protocol files have no content; agent ids, statuses, gates and the event log are
not on this board. Statuses and gates are in `Hook`, over one active run.

### Hook and GodCli

In `Hook` an event waits in `events` from the moment Herdr emits it. A hook process
takes one (`hpc`, `hev`), updates statuses, gates and numbers in one step, and then
performs its actions (`hacts`) one per step; the first that fails ends it. Herdr keeps,
per pane, the metadata with the highest number (`meta`). `msg --attention` sets the gate
under the lock and notifies after it; `--ack` clears gates.

In `GodCli` a `wait` reads the board, then the hook's metadata, then one report after
another, and decides; then it starts over. `report` reads the time of the file, stores
it in a locked update, then prints the file. The readings, the verdicts, the commands'
updates and the workers' writes interleave freely. `life` is what the board says of a
worker, `alive` whether its agent runs: a worker that is given up because its launch was
not verified in time, or whose pane a kill failed to close, is over and may still finish
its report (`late`).

### Recorder and TeamMux

`TeamFacts` has the task list, the inboxes, the status and the transcript's age of a
team, and `ReasonOf`, the classification of `signal_engine.rs`. A tick of the recorder
gathers the facts, reads the tasks once more, then the spool from its offset, and
appends one record per change. The spool is a sequence of writes, since `writeln!` on
an unbuffered file makes two of a line.

A `TeamMux` shim process loads the table, resolves what the call names, calls Herdr,
and registers or removes in a locked transaction. `held` pairs each id Claude Code was
given with the pane it was printed for, and the properties compare it with the table.
Panes are numbers in the order they open. Shims overlap in any way, a list with splits,
kills and other lists too; `contested` has the panes that one process registered while
another was still to look them up in an older table, `crossed` the ids that were printed
or about to be printed when their kill went on.

### Socket, PaneBoard and Focus

`Socket` has the phases of the controller (a snapshot needed, ready, subscribed, terminal
or exhausted) with its attempts, deadline and backoff, the stream as the pieces the
server has written (`wire`), and the loop that collects and waits. `run` is the version
on disk and `shown` the one last collected.

`PaneBoard` has rows, selection and overlay of each board, where the overlay keeps the
row's number, and the append: open the lock, try it up to `LOCK_RETRY_ATTEMPTS` times,
read the inbox, write a temporary file, rename it, unlock. The kernel drops the lock of
a process that dies. The teammate's client reads, changes and replaces the same file under
a lock of another kind, so neither waits for the other: `clashed` has the entries that one
side put in or dropped while the other had read the file and was to replace it. In
`Mailboxes` these letters are `adrift` from that instant.

`Focus` loads the agents, the focus file and the inbox one after the other and merges
them, less what the audit log suppresses. A lead whose team file or inbox cannot be read
is left out without a word (`MissLeads`), as in the code. `pressed` is a key that waits for
the load to end, with the item the human meant.

### HerdrClient, TeamSpec and CommandLine

These translate code without state. Each is checked against a reading that does not
work the way the code does, over all inputs of a small domain: `DeliversFaithfully`
(with `outbox_claims`), `StartsFromSoundTeams` (with `team_resume`), `ReadsCommandLines`
(with `god_wait`) and, for `TmuxArgs`, `ParsesInventory` (with `teammux`). They are
invariants of those runs only so that TLC evaluates them. All four are proved as well, the
last two for lines of any length (`EveryLineIsReadAsWritten`, `EveryCallIsParsed`).
`TmuxArgs` goes through a line by positions: each step of a verb's parser says which
argument is next, and a call is taken when that is behind the last one. The reading it is
compared with lists the calls that the source's inventory and its tests give, shape by shape.

## The runs

| Run | Question | Instance |
|---|---|---|
| `outbox_durable` | Drains that overlap with senders and with each other, in every way: a queued message is on disk until its delivery is verified (`NoLoss`), in the hands of one drain (`ExclusiveClaim`), not typed again once verified (`NoResubmission`) and submitted in its turn (`InOrder`), unless one of the mishaps that the property names befell this very message; `TypeOK`. | 2 messages, 2 drains, numbers to 2; `crash`, `io`, `age`; 1.1 million states |
| `outbox_claims` | The outbox implements the abstract queue (`KeepsMessages`, the refinement of `MessageQueue`), and what is queued for a worker is submitted in the end although drains die with claims (`EventuallySubmitted`); what the client reports of a delivery (`DeliversFaithfully`). | 2 messages, 1 drain, fair; `crash`, `age`; 32 thousand |
| `outbox_reuse` | The violated one: `Durable`, which is `NoLoss` of all messages, those that shared a number included. | 2 messages, 1 drain, no fault |
| `team_resume` | Spawn and any number of resumes, dying anywhere: `RunningBriefed`, `BriefedOnce`, `LaunchAfterAllocation`; `StartsFromSoundTeams`. | 2 workers, 1 with a tree, 3 panes; `exit`, `god`; 328 thousand |
| `team_kill` | All commands on one run, with two adoptions of one pane: `OnePanePerWorker`, no step but an entry of the roster (`KeepsRoster`, the refinement of `Roster`), and a kill's result accounts for each workspace it set out to close (`KillAccounts`). | 1 spawned and 2 adoptable workers; `exit`, `prompt`; 1.1 million |
| `hook` | Two hooks beside `--attention` and `--ack`, any call may fail: a gate and the notification it stands for come about in one instant (`KeepsNotices`, the refinement of `Notices`, from which each condition is notified once), a gate is set only for a request (`GatesAnswered`), Herdr ends up with the board's status (`MetadataAgrees`), one pointer per finished turn (`OnePointerEach`). | 1 worker and the god, 4 events, 1 request; `fail`, `move`; 1.4 million |
| `god_wait` | A wait and a `report` that may die while reports are written, workers exit or are given up and the run is killed: a worker called dead is over, with no report but one that its agent finished after that (`DeadIsDead`), `ReachedMeansReady`, `ReadMeansSeen`, `ReportEndsWait` (liveness); `ReadsCommandLines`. | 2 workers, 2 writes of one and 1 of the other; `die`, `timeout`; 478 thousand |
| `recorder` | Hooks, ticks, failed appends, restarts and a truncated spool: the log says what the recorder knows (`LogIsCurrent`), deltas chain (`DeltasChain`), a signal is recorded once (`SignalOnce`) and none that has a line of its own is skipped (`SignalsKept`). | the lead, 2 tasks, 2 signals; 3.6 million |
| `teammux` | Two shims that overlap in any way and two launches, while panes open and close by hand and processes die: an id that did not cross its kill names its pane (`HeldResolves`), only a contested pane has two ids (`OneIdPerPane`), no other resolves after its kill (`KilledIsGone`); `ParsesInventory`. | 2 panes beside the lead's, 4 calls; 1.2 million |
| `socket` | A server that refuses, answers wrongly, splits, spoils or ends the stream: `RetriesCapped`, and changes are collected in the end (`CatchesUp`). | 2 panes, 2 changes, 2 pieces, 3 reconnects; 544 thousand |
| `pane_board` | Two boards and the teammates' clients on the same inboxes, any call may fail, a board may die: an append is one instant in which the inbox gains that entry, once, and no entry is lost but one that clashed (`KeepsMailboxes`, the refinement of `Mailboxes`), `ChosenUnlessShifted`, `SentOrSaid`. | 2 teammates, one nudge per board; 1.1 million |
| `focus` | A pane whose human types while it loads, and a jump: `ChosenUnlessMoved`, and what needs attention comes up and is jumped to (`NothingSwallowed`, `JumpsToMostUrgent`), but for the messages of a lead whose files that load could not read. | 1 pane, 1 text, 1 message, 2 keys; 529 thousand |

Every property of a passing run has a mutant: a plausible bug, written out next to
the definition it would replace ("A bug the ... check must catch"), under which TLC
finds the property violated in the same instance.

## Bounds

* `MaxSeq` stands for `u64::MAX`. With 2 the overflow branch (`SequenceExhausted`),
  collisions of two senders and numbers that are given again all occur. Two drains suffice
  for every race between two hooks, and two messages for every mishap, since each is of a
  message and one other. Liveness is checked with one drain at a time, which may die with a
  claim and leave it to the next; what overlapping drains do is left to the safety run.
* Several runs have a view, a definition of the MC module that says what no step and none
  of the run's properties reads any more: in the outbox runs what befell a message once it
  has been submitted, in `teammux` what a shim has looked up and done with, in `pane_board`
  what a board held when it quit, in `focus` the line that says how the last key went.
* Two spawned workers show every order of allocation and of threads. A third pane in
  `team_resume` lets a resume replace a pane that has exited. In `team_kill` one
  spawned worker beside two adoptable names makes kill treat both kinds, and the two
  names share one pane. `briefs` is capped at 2, since the properties ask for none, one
  or more. The view of `team_kill` leaves out what no step and none of its properties asks
  for: `briefs`, whether the agent of a user's pane is at work, and the checkpoint of an
  adopted worker.
* Processes of `Team`, `Hook` and `TeamMux`, and the drains of `Outbox`, are reused: one
  that has left may start again, so the bound is on those under way at once, not on those
  one after the other.
* `hook`: four events make two turns, or a turn, an exit and a move, handled by two
  hooks in either order of their actions. One request is raised, and can be
  acknowledged and be answered by the same events.
* `god_wait`: of the worker that writes twice, a report is finished, read and rewritten
  between two readings of the wait; of the other it is written once, before or after its
  worker is over. The command lines are all those of up to four words, over the options
  of the command, an unknown option and the kinds of operand.
* `recorder`: ages stop at 2, with thresholds 1 and 2, so every class of
  `StalledThresholds` occurs; only the lead has a pane, so only the lead has ages. The
  second task waits for the first. One hook names its team, the other is routed by the
  lead's session.
* `teammux`: two panes and four calls let two splits race, an id be killed and another
  call hold it, and a list and a split give one pane two ids. Ids go to 4, which these
  calls never exhaust.
* `socket`: with two pieces on the stream a frame can be split and followed by another;
  the budget of three reconnects is the code's.
* `pane_board`: two lock attempts instead of the code's four, so a board finds the lock
  taken, gets it on its second attempt, or gives up; one nudge per board and one message
  of a teammate are three writers of one inbox, and one change of the team moves the rows.
* `focus`: one of each kind of item gives a queue of up to three; the time to live is
  one tick, so the clock crosses it in the run; two keys are what marking an item done
  takes.
* `HerdrClient` strips control sequences from texts of up to four characters over all
  classes of character, with and without a plain one after them, which shows whether the
  last sequence has ended. `TeamSpec` has specifications of up to two workers and shorthand
  teams of up to three.

Counters that end a behaviour (`MaxEvents`, `MaxRaises`, `MaxWrites`, `MaxCalls`,
`MaxPanes`, `MaxChanges`, `MaxWire`, `MaxNudges`, `MaxMessages`, `MaxClock`, `MaxKeys`,
`MaxAge`) bound what the environment does, never what the code does in answer; `MaxId` would,
but is not reached. Runs
switch the deadlock check off where the system really stops: commands are done, the
run has ended, or the environment has used up its changes.

## Faults and fairness

`Faults` and `Mortal` name what may happen beyond failing Herdr calls, which always
may. They are explained at the head of each module. A run switches on what its question
is about, and claims no more than that. In particular:

* `outbox_durable`, `teammux` and `pane_board` switch everything on. Where the code does
  not keep a promise even without a fault, the property names the message, the pane or
  the entry for which it may fail, by a history that records what happened to it and
  decides no step. So nothing is kept out of the run, and a failure that is not of one
  of these kinds is found. `outbox_reuse` shows one of them.
* `BriefedOnce` holds as long as no agent ends its turn before its checkpoint is on the
  board (no `idle`); the code knows about the window (`spawn.rs:848`) and decides by
  whether the agent is still working. `RunningBriefed` likewise needs that nobody else
  prompts the agent in the window (no `prompt` in `team_resume`).
* Some faults are on in no run, because a property fails with them and the code does not
  rule them out: in `hook`, `reorder` (`OnePointerEach`) and `noseq`
  (`MetadataAgrees`); in `god_wait`, `rewrite` (`ReachedMeansReady`: the report was ready
  when it was read) and `tick` (`ReadMeansSeen`). Two `report`s at a time (`race`) break
  no property, but make `god_wait` too large to keep.

Fairness:

* `Outbox!FairSpec`: weak fairness for each sender and each drain, because a process
  that has a step to take takes it; a drain's covers `StartDrain`, because Herdr starts
  a hook on every idle or done flip, and a worker goes on having turns. Strong fairness
  for `TypeText` and `Verified`: a delivery is retried on every flip, and the target does
  not refuse for ever; without that a message may fail for ever, by design. Strong
  fairness for `ReadClaim`: a drain does not lose every claim to a sweep before it has
  read it. `Age` is fair, since time passes, so a claim whose drain died is old at last.
  Hooks die finitely often: if each died with its claim, none would deliver. For the god
  nothing is promised, as nothing drains its outbox (`reconcile.rs:195`).
* `GodCli!FairSpec`: weak fairness of a wait, which polls in a loop. Nothing is assumed
  of the workers and the readers.
* `Socket!FairSpec`: weak fairness of the client's own steps, among which are the ends of
  its timers. The server owes nothing.

Liveness of the other components is not stated: each command is bounded work and a
human or a god agent decides when to run the next, so nothing must happen.

## The proofs

All are checked by TLAPS for every value of the constants that satisfies the named
assumptions (`OutboxAssumption`, `BoardAssumption`, `KillAssumption`,
`SocketAssumption`, `PaneBoardAssumption`, `GodCliAssumption`, `TeamMuxAssumption`,
`HookAssumption`, `FactsAssumption`, `RecorderAssumption`, `AttentionAssumption`,
`FocusAssumption`, `CommandLineAssumption`, `TeamSpecAssumption`, `ClientAssumption`), that
is any number of messages, drains, workers, panes, boards and
processes. Where they are counted or listed they are finite (workers and hooks in `Hook`,
teammates and tasks in `TeamFacts`, panes in `Attention`).

The library's induction theorems take an operator as a parameter, which none of the
provers can instantiate. Where a proof needs an induction over the naturals or the
places of a sequence, it takes the least number with a property, which exists because
`<` is well founded, and shows that there is none (`LeastExists`, `GoesOn`).

`OutboxProofs`:

* `TypeCorrect`: `TypeOK`, with the sequence numbers in range, for all faults.
* `NothingLost`: `NoLoss`. It is not inductive: one must know that no rename replaces a
  file and no removal hits one that did not share its number. The invariant `Kept` adds
  that a file has the name its sender gave it (`NamesOwned`), that of two files under one
  number both are exposed (`NamesOne`), that a sender writes alone what is not exposed
  (`WritesAlone`), and that what a drain has read, if it is not exposed, is what it removes
  (`ReadsOwn`, `RemovesSubmitted`, `SentOnly`).
* `ImplementsMessageQueue`: under the same invariant each step is a step of
  `MessageQueue` or leaves it unchanged.
* `ClaimsAreExclusive` and `NothingResubmitted`, for all faults and any overlap. `Owned`
  says, of a message that shared no number and was not swept from its drain, that who has
  read it holds its claim, which no other drain holds, and nobody does while it is queued;
  `Done` that once submitted it is gone, or its claim about to be removed, unless a drain
  left it. So the three mishaps that `NoResubmission` names are all the ways to a second
  delivery.
* `DrainedInOrder`: `InOrder`, for all faults and any overlap. `Rising` says that a number
  is larger than those queued when it was taken; `ListsEarlier` that a drain with a larger
  number to handle has listed the earlier message too, or is handling it; `ClaimsLater` that
  a message is claimed when those before it are submitted (`Ordered`).

And of `HerdrClient`, which has no state:

* `TextsArePlain`: what `Strip` leaves of a text of any length. The reading it is compared
  with cuts the text into plain characters and control sequences, and says of each place
  whether a sequence that begins before it closes there. As long as none does, the scan is
  where the introducer and the last character put it (`Mode`), so the scan is in plain
  text exactly where a part may begin (`Starts`), and no other cuts fit.
* `DeliveriesAreFaithful` (`DeliversFaithfully`), by cases of what each process does.

`TeamProofs` first proves `TypeCorrect` for `Team`. The conjunct on which the code would
panic (a launch thread past reading its pane has one) needs the invariant `Typed`:
where each recorded, copied and held pane comes from (`PanesTyped`, `Made`), in which
phase a step occurs (`Phased`), that the shared copy has a pane for each worker that
was allocated or is launched (`Copied`), and what kill and adopt have loaded
(`KillAims`, `KillTargets`, `AdoptAims`, `Begun`). There is one lemma for each command
and part, with one step per action, and `TypedStep` combines them.

Everything else of `TeamProofs` starts from `Typed`. For all faults and any process dying
anywhere:

* `ImplementsRoster`: `KeepsRoster`. Each step of each command is one entry of `Roster`
  (`Found`, `FoundAround`, `Join`, `House`, `Start`, `Settle`) or none. So a worker that
  is over stays so, whatever late checkpoint, failure, hook or kill is written, nobody
  runs who was not pending, and a run that ended never becomes active again. It needs
  that `create_run` and `bootstrap_run` find no workers, that what a kill has loaded is on
  the board, that a pane about to be recorded is nobody's (`Fresh`), and that events and
  kills are of a run that has begun (`OfRuns`).
* `PanesDistinct`: `OnePanePerWorker`. The strengthening `Fresh` says that a pane about
  to be recorded is recorded nowhere and is in one hand only.
* `LaunchesOrdered`: `LaunchAfterAllocation`. The strengthening `Allotted` says that
  a process that allocates is through with all but its `todo` (a resume because nobody
  else was pending), and one that launches with everybody; and terminal workers stay
  terminal.
* `KillsAreAccounted`: `KillAccounts`. A pane that is closed stays so in every step
  (`Shuts`), whoever takes it, and what a kill of the run is through with is closed or
  known not to be (`Accounted`).

And with fewer faults, because each of the others breaks the property:

* `RunningAreBriefed`: `RunningBriefed`, given `Unprompted` (no `overlap`, no `prompt`;
  agents may end their turns at any time). `Crewed` says that a process works on workers
  that have no checkpoint nor anybody else to write one, and knows their panes;
  `Unlaunched` that what is to be launched has not been; `WorksBriefed` that an agent that
  works has its brief, which is what a resume that finds one concludes. `AdoptsBriefed`
  does the same for adopted workers, and needs neither condition.
* `NoSecondBrief`: `BriefedOnce`, given `Steadfast` (no `overlap`, no `idle`; anybody may
  prompt). `RestsUnbriefed` says that an agent at rest which is not known to have its brief
  has not got it, which is what a resume that finds one concludes. That it stays so rests on
  `OnePanePerWorker`: only the worker recorded in a pane lets its agent end its turn.

And of `TeamSpec`, which has no state:

* `TeamsStartSoundly`: what a team that starts needs, for every specification
  (`SoundSource`: any number of workers, with any names, roles, branches and briefs, or
  any list of agent kinds) in every environment (`SoundEnv`: any files, directories,
  installed commands and launcher table). Their hypotheses are what the code's types say,
  that `spawn` is called in a directory that exists, that directories are absolute, and
  that the briefs written for a list of kinds are in a new directory.
  The claim that each worker answers to its name rests on `AllDistinct`: names that are as
  many as their places are each at one place. `StartsSound` has it for the run's inputs
  (`StartsFromSoundTeams`).

What the other commands, hooks and Herdr may do to spawn's workers is stated once (`Aside`)
and shown of each of them, so that each of these invariants has one lemma for them all.

`SocketProofs`: `TypeCorrect` and `RetriesStayCapped` (`RetriesCapped`) for any budget.
The count of snapshots is tied to the count of losses (`LossPerSnapshot`), and a client
without panes never subscribes (`SubscribesToSome`).

`PaneBoardProofs`: `ImplementsMailboxes` (`KeepsMailboxes`), `NudgesAreChosen`
(`ChosenUnlessShifted`) and `NudgesAreAccounted` (`SentOrSaid`), for any number of
boards, teammates, nudges and messages. The invariant `IInv` says what a board in the
course of a nudge must know (`Sending`, `Addressed`), that rows and overlays have
their shape (`Shape`, `Drawn`), that the lock has its holder (`Locks`), and that what
a board or a client has read agrees with the inbox but for what clashed (`Fresh`, with
`Agree`), which is why the rename of either loses nothing else (`Kept`, and with it
`InboxesKept`); `Chosen` relates the overlay's number to the row meant. That boards do not
take entries from each other follows from their lock; that a client's do not rests on what
is recorded of clashes. For the refinement it must also be known that what is about to be
written was not written before (`Unsent`): a rename of a board, or a client's write of a
message, is then a `Puts` of `Mailboxes`, a client's pruning an `Empties`, and all other
steps are none.

`GodProofs`, for any number of workers, waits and reports:

* `TheDeadAreDead` (`DeadIsDead`) and `TheReachedAreReady` (`ReachedMeansReady`), given
  `ReportsFinal` (no `rewrite`). A wait reads its facts one by one; `SnapHolds` says that
  what a snapshot has of the dead and of finished reports stays true, and
  `DeadUnfinished` that a worker that was over before its report was looked at has not
  finished it since, or its agent did after the worker was given up (`late`). Hence the
  code must read the board before the reports.
* `TheReadWereSeen` (`ReadMeansSeen`), given `ClockTicks` (no `tick`), even if reports
  overtake each other (`race`). `MarkerOwed` says that a marker ahead of what was
  printed is owed by a `report` that has set it and is yet to print, or died.

And for any number of focus panes and jumps, whatever the sources hold, whichever reads
and appends fail (the second two but for the messages of a lead that a load could not
read):

* `KeysStay` (`ChosenUnlessMoved`). A selection is a row as long as there is one
  (`ViewsTyped`): a reload that clamped it could otherwise move a key to another row
  while those down to it stay.
* `AttentionIsShown` (`NothingSwallowed`) and `JumpsAreUrgent` (`JumpsToMostUrgent`). The
  sources are read at three times and in two orders, so no reading need ever have been
  the state of all three. `HeldIsRead` therefore says source by source that what has
  needed attention since the load began is in what the load has read of it. The log is
  read last: `LogInDone` says that whoever suppresses an item has consumed it, so one that
  still needs attention is kept (`LoadedHasHeld`), and what is kept is in the order of its
  urgency.

And for command lines of any number of words:

* `EveryLineIsReadAsWritten`, and from it `LinesAreRead` (`ReadsCommandLines`). The parsers
  walk through a line word by word; the reading they are compared with says of each word
  whether it is an option, the value of one or an operand, by the words before it. By
  induction over the words, the state after each prefix is the one this reading gives.

`TeamMuxProofs`, for any number of shims, panes and calls that overlap, fail or die
anywhere:

* `HeldIdsResolve` (`HeldResolves`), `IdsAreUnique` (`OneIdPerPane`) and
  `KilledStaysGone` (`KilledIsGone`). A pane that opens has no id until its split or a
  list registers it (`Fresh`); what a process is about to look up or register is in the
  table only if it is contested (`Missed`, `MayRegister`), which is what a second id of a
  pane comes to; an id is removed for the pane it was loaded with (`KillAims`); and what a
  list has found and not printed is in the table, or crossed its kill (`Listed`).

And for the shim's parser, with no assumption:

* `EveryCallIsParsed`, and from it `CallsAreParsed` (`ParsesInventory`). `AfterEachStep`
  gives what the recursive function of a parser computes; from it, steps that all pop
  find their arguments in turn or the call is refused (`PopsInTurn`, by induction over
  the steps), so that a parser that only pops takes exactly the lines that fit its shape
  (`PopsWhatFits`). The two with an option have two shapes each (`DisplayFits`,
  `SplitFits`). No call begins with a global flag, so the parser and the reading agree on
  where it begins (`CallsFollowGlobals`), and the first, second and fifth argument tell
  its verb (`ShapesTell`).

`HookProofs`, for any number of workers, hooks and events, whatever calls fail:

* `HookTypes`: `HookTypeOK`, with what Herdr puts in an event of each kind.
* `ImplementsNotices` (`KeepsNotices`), `NotifiedOnce` (once per condition) and
  `GatesAreAnswered` (`GatesAnswered`). `OneNotice`
  says that the notification of a condition is nowhere before its gate is set, and from
  then on is shown or at one place in the actions of one hook; `AttentionCounted` that a
  request sets the gate before it notifies. Hence the gate must be set in the update that
  decides on the notification.
* `MetadataIsTheBoards` (`MetadataAgrees`), given `Sequenced` (no `noseq`).
  `PublishesBoard` says that no publication is ahead of the board's number, and the one
  with that number has the board's status; `MetadataFollows` that metadata behind the
  board have a publication under way that is not, or lost one.
* `PointersAreDue` (`OnePointerEach`), given `Ordered` (no `reorder`). The proof follows the
  `Line` of events from the one in a hook's hands to the one emitted last: each change
  starts from the one before it (`Chained`), a pane moves once (`MovesOnce`). A pointer
  that is due is typed, in a hook's actions, owed by an event of the line, or `Missing`.
  Where the board takes an agent for working that no longer is, one is missing already
  (`Slack`); as long as none is, the board keeps up (`KeepsUp`, `Synced`).

`RecorderProofs`, for any team, spool and number of hooks, ticks and restarts:

* `RecorderTypes`: `TypeOK`.
* `TheLogIsCurrent` (`LogIsCurrent`) and `TheDeltasChain` (`DeltasChain`), as long as no
  append failed. `Phased` says which records a tick may have in which phase, `OneEach` that
  there is one of an agent, a task or an event; `AgentsFollow` and `TasksFollow` that what
  the recorder knows is in the log or in a record that leads there.
* `SignalsAreOnce` (`SignalOnce`), for all faults. Each hook writes its line once
  (`WrittenOnce`), and what was taken from the spool is behind the offset as long as there
  is one (`TakenBehind`); a truncation or a restart sets a baseline and takes nothing.
* `SignalsAreKept` (`SignalsKept`), as long as nothing was lost. It is inductive with the
  rest once the offset is known to be behind a newline (`OffsetAtLine`).
* The events of the spool are listed by `Ascending`, which gives the k-th place to the
  element with k elements no larger, so that it lists each once follows from
  cardinalities. `Attention`, `TeamSpec` and `HerdrClient` filter so too.

Only model-checked: liveness (`EventuallySubmitted`, `ReportEndsWait`, `CatchesUp`),
which is out of the prover's reach.

## Disagreements with the documents

`outbox_reuse` has a run. The others were read in the code while it was modelled; the
models contain the steps, but no run of the list is spent on them. `spec-v1.md` is in `docs/legacy/`.

| Where | What the code does | What the repository says |
|---|---|---|
| `msg.rs:577` (`outbox_reuse`) | A message queued while a claim is held takes the claim's number; the failed delivery's requeue renames over it, and it is lost. | "durably retained in the outbox" (`CONTEXT.md:138`) |
| `msg.rs:577` | Such a message can be claimed under the name of the other's claim: two drains own one file, a requeue brings back what the other drain has delivered, and it is typed again; or it is queued under a number smaller than one that is requeued, and goes first. `docs/reviews/slices/slice4-messaging.md` has the format behind it. | "the rename winner owns delivery" (`spec-v1.md:537`), "drained in order" (`CONTEXT.md:135`) |
| `hook.rs:339` | Of two drains that overlap one goes past an entry that the other has claimed, and delivers the next before it. | "drained in order" (`CONTEXT.md:135`) |
| `reconcile.rs:195` | For a flip of the god the update returns before it asks for a drain, so what is queued for a god at work stays in its outbox. `docs/reviews/slices/slice1-event-truth.md` reports it (F3). | "on any team member flipping to `idle` or `done`, drains that member's outbox" (`spec-v1.md:530`) |
| `hook.rs:315` | The age of a claim is that of its message, so a message that waited 300 s is swept back while its delivery is under way, and delivered twice. | "a concurrent invocation's live claim is never swept back" (`hook.rs:290`) |
| `msg.rs:554` | A drain may claim and type the file that was created and not yet written. | "content = exact text to deliver" (`spec-v1.md`) |
| `spawn.rs:582` | A recorded worktree counts as prepared; after a failed setup the next resume skips it and briefs the worker. | "run the team `setup` command inside it" (`spec-v1.md`) |
| `status_kill.rs:377` | After the god's pane has closed and the hook has ended the run, `kill` closes no workspace. | "close team workspaces" (`spec-v1.md`) |
| `status_kill.rs:534` | With one worker orphaned, killing the last live one leaves the run active; the hook's test counts orphans, kill's does not. | "ends when ... no non-terminal workers remain" (`spec-v1.md`) |
| `adopt.rs:381` | The insertion under the lock does not check again that the run is active. | "cannot adopt into ended run" (`adopt.rs`) |
| `recorder.rs:492` | A failed append drops the records, and the delta state has advanced: no later tick emits them. | "the next tick's baseline re-derives current truth" (comment there) |
| `recorder.rs:7` | The seconds of a stall are part of the compared snapshot, so a stalled agent is logged on every tick. | deltas only (comment there) |
| `team_hook.rs:172` | `writeln!` on a file is two writes, so lines of two hooks can merge; the recorder skips such a line. | one system call (comment there) |
| `god_cli.rs` | A wait for `all-terminal` mostly ends as `inactive_run`, since ending the last worker ends the run in the same update. | `spec-v1.md:624` and `:632` |
| `god_cli.rs` | A wait for a signal on a team whose workers are all over, with a ready report and the run still active, has no `dead-worker` verdict. | `spec-v1.md:633` |
| `idmap.rs:114` | A list and a split that overlap can give a pane two ids, and so can two lists. A kill of one leaves the other. | "bijective in practice" (comment there) |
| `spawn.rs:630` | A worker whose launch is not verified in time is failed, its pane stays open, and its agent may have the brief and finish its report after a wait has called it dead; so may one whose pane a kill could not close (`status_kill.rs:471`). | "a wait that cannot satisfy the condition" (`spec-v1.md:633`) |
| `inbox_write.rs:161` | The lock is `flock` on a file that stays, so a client that locks by the file's existence is neither kept out by it nor keeps a board out, and a write of one can take back that of the other. | "acquire a sidecar `.lock` (create-exclusive ...)" (`inbox_write.rs:5`), `docs/research/hook-companion-surface-2026-07-16.md` section 5 |
| `jump.rs:132`, `pump.rs:166` | A team file or an inbox that cannot be read is left out of the queue without a word, and `jump` may say that there is nothing to jump to. | "exactly the failure this feature exists to prevent (attention silently not surfaced)" (`audit.rs:30`) |
| `pane_board.rs` | The overlay keeps a row's number; a refresh under it can send the nudge to another teammate. | "human reviews + confirms before write" (`pane_board.rs:175`) |
| `pump.rs:93` | The debounce drops the last event of a burst, and an older pass that overlaps may publish last. | "never a stuck or duplicated publish" (comment there) |
| `attention.rs:41` | Two equal messages from one sender have one id. | unique within one queue (comment there) |

## Observations

What the models show of the code without contradicting a document, kept for whoever
changes it.

* Command lines: an option with a value takes the next word whatever it is, even another
  option; options of the god's commands may repeat and the last wins; `record` and
  `pane-board` skip words they don't know, and `--team` at the end of the line unsets
  it. The run board composes lines from typed text: a text or a pane that is itself an
  option is misread, but never reaches another worker. A message to a worker named
  "all" is a broadcast, and an ack of a worker named "god" or "all" is refused.
* Specification: the names "god" and "all" and names with commas are not refused; a
  worker called god makes `msg god` ambiguous and one called all cannot be addressed
  alone. `msg all` is refused for everyone while a live worker has no pane yet. Two
  workers may share a branch. The briefs of a shorthand team are written before the
  preflight that may refuse it.
* Herdr client: every exit status 1 of `agent wait` counts as a time-out; a
  single-character string terminator (0x9c) does not end a control string.
* GodCli: of two `report`s the slower one can put back an older read marker, so that a
  report that was read shows as unread; two writes within a millisecond look like one.
* Hook: the gate is set before the notification; if that fails, no later request notifies
  until an ack. Events of the god's status only sweep.
* TeamMux: a list that overlaps a kill may print the id that is being removed; the highest
  id is given again after its kill; a kill that dies between the
  close and the removal leaves an id that cannot be killed; the link is removed and then
  made, so a launch that dies in between leaves none.
* Socket: a board on a healthy socket does not collect after a silent wait, while one
  without a socket collects every 100 ms; the end of the stream instead of a reply is
  `InvalidResponse` and final, though `docs/learnings` count it among what may reconnect;
  a poll that times out in the middle of a frame drops its first part and then takes the
  rest for a malformed frame; the subscription is made once, with the panes of that
  moment.
* Pane board: keys that come fast enough keep it from refreshing; an inbox that is
  removed between its reading and the rename is made again; a confirmation whose row is
  gone closes the overlay and says nothing (`pane_board.rs:288`).
* Focus: the ids of equal decisions shift when the first of them is removed; a stamp that
  was taken before a later append shortens the suppression; a line torn by a crash
  swallows the next; a clock set back lengthens the suppression; a `d` typed ahead marks
  the row that comes next; the pane never writes the focus file.

## What is not modelled

Of modelled components: several targets of one `msg` at a time; hooks that handle several
runs side by side; `--remove-worktrees`; agent ids and `PaneAgentDetected`; the status
table; the mesh topology, in which adoption is refused before anything changes; a user
who closes the workspace of an adopted worker; a kill of the lead's own pane through the
shim; `--split` of the launcher; the choice of a run or a team when none is named; the
resolution of transcript paths; the time-out of a wait on the socket and errors of the
collection; `subscribe_with_reconnect` and `wait_for_team_change`, which only tests call.

`append_event` serialises a line in pieces into an unbuffered file, so lines of two
processes can interleave in `events.jsonl`. No code reads that file, so there is nothing a
property could relate it to.

Components without a module: `agents_md.rs` renders a text from the specification;
`tokens.rs` formats what is modelled elsewhere; `paths.rs` reads the environment; `pump.rs`
reads a marker, and writes it after a pass that overwrites what the last one published
(its races are in the table above).

## What is left

* Proofs: an abstract log that `Recorder` implements, as `Outbox` has a queue.
* `Hook` with two runs in one process, where a failure in the first skips the second, and
  `Hook` composed with `Outbox` through the drain it starts.
* The pump, with the number its tokens lack.
* Larger instances of `hook` and `recorder`, which take the most time for their size.

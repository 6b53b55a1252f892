------------------------------- MODULE GodCli -------------------------------
(***************************************************************************)
(* The god's commands `wait`, `report` and `inbox` (src/god_cli.rs), which *)
(* read run.toml and the inbox without a lock while hooks, kill and the    *)
(* workers change them.                                                    *)
(*                                                                         *)
(* A snapshot is put together from separate reads: first the board with    *)
(* the hook's metadata, then the report of one worker after another.  A    *)
(* wait repeats it until a verdict.  `report` reads the time a report was  *)
(* written, stores it as read in a locked update, then prints the report.  *)
(*                                                                         *)
(* The board calls a worker over when its pane is gone, but also when      *)
(* spawn gives it up after its brief was typed, or when kill could not     *)
(* close its pane: its agent then goes on, and may yet finish its report.  *)
(*                                                                         *)
(* The constant Faults names what may happen:                              *)
(*   "rewrite"  a worker starts a finished report over;                    *)
(*   "tick"     a report is written twice within a millisecond;            *)
(*   "race"     two `report` commands run at a time;                       *)
(*   "die"      `report` dies before it prints;                            *)
(*   "timeout"  a wait reaches its deadline.                               *)
(***************************************************************************)
EXTENDS Naturals, FiniteSets

CONSTANTS
    Workers,    \* the workers of the run
    Waiters,    \* the `wait` commands
    Readers,    \* the `report` commands
    MaxWrites,  \* bounds how often each worker writes its report
    Faults      \* see above

(* `terminal` treats the four lifecycles of a worker that is over alike. *)
Lives == {"running", "over"}
Untils == {<<"report", w>> : w \in Workers}
          \cup {<<c, "any worker">> : c \in {"any", "all", "signal", "terminal"}}

ASSUME GodCliAssumption ==
    /\ MaxWrites \in [Workers -> Nat]
    /\ Faults \subseteq {"rewrite", "tick", "race", "die", "timeout"}

VARIABLES
    runLife,    \* RunState.lifecycle
    life,       \* WorkerRunState.lifecycle
    marker,     \* HookMetadata.report_read_mtime_ms, 0 for none
    inbox,      \* inbox/<worker>.md: how often it was written, its mtime, and whether it
                \* ends in the completion sentinel
    alive,     \* the workers whose agent runs in an open pane
    late,       \* history: the workers that finished a report after they were over
    until,      \* what each wait is for
    wpc,        \* where it is
    snap,       \* its snapshot
    unread,     \* the workers whose report it has still to look at
    verdict,    \* its verdict
    rpc,        \* where each `report` is
    rof,        \* the worker it is for
    rtime,      \* the mtime it has read
    seen        \* history: the last version of the report that was printed

board == <<runLife, life, marker>>
work == <<inbox, alive, late>>
waits == <<until, wpc, snap, unread, verdict>>
reads == <<rpc, rof, rtime, seen>>
vars == <<board, work, waits, reads>>

Snapshots == [runLife : {"active", "ended"}, life : [Workers -> Lives],
              signal : BOOLEAN, ready : SUBSET Workers]
Verdicts == {<<"none">>, <<"reached">>, <<"inactive">>, <<"timeout">>}
            \cup {<<"dead", w>> : w \in Workers}

TypeOK ==
    /\ runLife \in {"active", "ended"}
    /\ life \in [Workers -> Lives]
    /\ marker \in [Workers -> Nat]
    /\ inbox \in [Workers -> [version : Nat, mtime : Nat, ready : BOOLEAN]]
    /\ alive \subseteq Workers /\ late \subseteq Workers
    /\ until \in [Waiters -> Untils]
    /\ wpc \in [Waiters -> {"start", "board", "reports", "decide", "sleep", "done"}]
    /\ snap \in [Waiters -> Snapshots]
    /\ unread \in [Waiters -> SUBSET Workers]
    /\ \A v \in Waiters : unread[v] # {} <=> wpc[v] = "reports"
    /\ verdict \in [Waiters -> Verdicts]
    /\ rpc \in [Readers -> {"off", "mark", "print", "done", "died"}]
    /\ rof \in [Readers -> Workers]
    /\ rtime \in [Readers -> Nat]
    /\ seen \in [Workers -> Nat]

Blank == [runLife |-> "active", life |-> [w \in Workers |-> "running"],
          signal |-> FALSE, ready |-> {}]

Init ==
    /\ runLife = "active" /\ life = [w \in Workers |-> "running"]
    /\ marker = [w \in Workers |-> 0]
    /\ inbox = [w \in Workers |-> [version |-> 0, mtime |-> 0, ready |-> FALSE]]
    /\ alive = Workers /\ late = {}
    /\ until \in [Waiters -> Untils]
    /\ wpc = [v \in Waiters |-> "start"]
    /\ snap = [v \in Waiters |-> Blank]
    /\ unread = [v \in Waiters |-> {}]
    /\ verdict = [v \in Waiters |-> <<"none">>]
    /\ rpc = [r \in Readers |-> "off"]
    /\ rof = [r \in Readers |-> CHOOSE w \in Workers : TRUE]
    /\ rtime = [r \in Readers |-> 0]
    /\ seen = [w \in Workers |-> 0]

-----------------------------------------------------------------------------
(* The other processes: the workers, and the locked updates of the board. *)

Writes(w, ready) ==
    /\ w \in alive /\ inbox[w].version < MaxWrites[w]
    /\ \E t \in {inbox[w].mtime, inbox[w].version + 1} :
          /\ t = inbox[w].version + 1 \/ ("tick" \in Faults /\ t > 0)
          /\ inbox' = [inbox EXCEPT ![w] =
                          [version |-> @.version + 1, mtime |-> t, ready |-> ready]]
    /\ late' = IF ready /\ life[w] = "over" THEN late \cup {w} ELSE late
    /\ UNCHANGED <<alive, board, waits, reads>>

WritesPart(w) ==
    /\ "rewrite" \in Faults \/ ~inbox[w].ready
    /\ Writes(w, FALSE)

FinishesReport(w) == Writes(w, TRUE)

(* A worker is over: the hook was told that its pane is gone, or `kill --worker` *)
(* saves, even if it could not close the pane.  The run ends in the update that  *)
(* takes its last worker.                                                        *)
WorkerOver(w) ==
    /\ life[w] = "running"
    /\ life' = [life EXCEPT ![w] = "over"]
    /\ runLife' = IF \A v \in Workers : life'[v] = "over" THEN "ended" ELSE runLife
    /\ alive' \in {alive, alive \ {w}}
    /\ UNCHANGED <<marker, inbox, late, waits, reads>>

(* Spawn gives a worker up: its pane stays as it is, with the agent it may have *)
(* started and even briefed, and so does the run.                               *)
LaunchFails(w) ==
    /\ life[w] = "running"
    /\ life' = [life EXCEPT ![w] = "over"]
    /\ UNCHANGED <<runLife, marker, work, waits, reads>>

(* `kill` saves, whichever panes it could close. *)
RunKilled ==
    /\ runLife = "active"
    /\ runLife' = "ended"
    /\ life' = [w \in Workers |-> "over"]
    /\ alive' \in SUBSET alive
    /\ UNCHANGED <<marker, inbox, late, waits, reads>>

-----------------------------------------------------------------------------
(* wait_command and wait_with. *)

WaitGoes(v, from, to) ==
    /\ wpc[v] = from
    /\ wpc' = [wpc EXCEPT ![v] = to]
    /\ UNCHANGED <<board, work, until, reads>>

(* select_wait_run refuses a run that is over before it polls. *)
StartWait(v) ==
    /\ runLife = "active"
    /\ WaitGoes(v, "start", "board")
    /\ UNCHANGED <<snap, unread, verdict>>

(* collect_snapshot: load_run, then load_hook_metadata.  What a wait for `blocked` *)
(* or for `attention` is for comes and goes in the metadata with the hooks, with  *)
(* msg --attention and with msg --ack: it is there or not, whenever it is read.   *)
LoadBoard(v) ==
    /\ WaitGoes(v, "board", "reports")
    /\ \E signal \in {FALSE, until[v][1] = "signal"} :
          snap' = [snap EXCEPT ![v] =
                      [Blank EXCEPT !.runLife = runLife, !.life = life, !.signal = signal]]
    /\ unread' = [unread EXCEPT ![v] = Workers]
    /\ UNCHANGED verdict

(* A bug the verdicts must show: a report counts before it is finished. *)
ReportPresent(w) == inbox[w].version > 0

ReportReady(w) == inbox[w].ready

(* A bug DeadIsDead must catch: the board is read again after the reports. *)
LoadReportThenBoard(v, w) ==
    /\ w \in unread[v]
    /\ WaitGoes(v, "reports", IF unread[v] = {w} THEN "decide" ELSE "reports")
    /\ unread' = [unread EXCEPT ![v] = @ \ {w}]
    /\ snap' = [snap EXCEPT ![v].ready = IF ReportReady(w) THEN @ \cup {w} ELSE @,
                            ![v].life = life]
    /\ UNCHANGED verdict

(* then the reports, one file after another. *)
LoadReport(v, w) ==
    /\ w \in unread[v]
    /\ WaitGoes(v, "reports", IF unread[v] = {w} THEN "decide" ELSE "reports")
    /\ unread' = [unread EXCEPT ![v] = @ \ {w}]
    /\ snap' = [snap EXCEPT ![v].ready = IF ReportReady(w) THEN @ \cup {w} ELSE @]
    /\ UNCHANGED verdict

TerminalIn(s) == {w \in Workers : s.life[w] = "over"}

ConditionMet(s, u) ==
    CASE u[1] = "any"       -> s.ready # {}
      [] u[1] = "report"    -> u[2] \in s.ready
      [] u[1] = "all"       -> Workers \subseteq s.ready
      [] u[1] = "signal"    -> s.signal
      [] u[1] = "terminal"  -> TerminalIn(s) = Workers

(* A bug ReportEndsWait must catch: one dead worker is nothing while others live. *)
RequiredTogether(s, u) ==
    IF u[1] # "terminal" /\ TerminalIn(s) = Workers THEN Workers ELSE {}

(* The workers whose death decides the wait. *)
Required(s, u) ==
    CASE u[1] = "any"       -> IF s.ready = {} THEN Workers ELSE {}
      [] u[1] = "report"    -> {u[2]}
      [] u[1] = "all"       -> Workers
      [] u[1] = "signal" ->
            IF TerminalIn(s) = Workers /\ s.ready = {} THEN Workers ELSE {}
      [] u[1] = "terminal"  -> {}

DeadWorkers(s, u) == (Required(s, u) \cap TerminalIn(s)) \ s.ready

Says(v, what) ==
    /\ verdict' = [verdict EXCEPT ![v] = what]
    /\ snap' = [snap EXCEPT ![v] = Blank]
    /\ UNCHANGED unread

VerdictInactive(v) ==
    /\ snap[v].runLife # "active"
    /\ WaitGoes(v, "decide", "done") /\ Says(v, <<"inactive">>)

VerdictDead(v) ==
    /\ snap[v].runLife = "active"
    /\ WaitGoes(v, "decide", "done")
    /\ \E w \in DeadWorkers(snap[v], until[v]) : Says(v, <<"dead", w>>)

VerdictReached(v) ==
    /\ snap[v].runLife = "active" /\ DeadWorkers(snap[v], until[v]) = {}
    /\ ConditionMet(snap[v], until[v])
    /\ WaitGoes(v, "decide", "done") /\ Says(v, <<"reached">>)

KeepsWaiting(v) ==
    /\ snap[v].runLife = "active" /\ DeadWorkers(snap[v], until[v]) = {}
    /\ ~ConditionMet(snap[v], until[v])
    /\ WaitGoes(v, "decide", "sleep")
    /\ snap' = [snap EXCEPT ![v] = Blank]
    /\ UNCHANGED <<unread, verdict>>

(* The deadline is looked at after the sleep and before the next snapshot. *)
PollAgain(v) ==
    /\ WaitGoes(v, "sleep", "board")
    /\ UNCHANGED <<snap, unread, verdict>>

TimesOut(v) ==
    /\ "timeout" \in Faults
    /\ WaitGoes(v, "sleep", "done") /\ Says(v, <<"timeout">>)

-----------------------------------------------------------------------------
(* report_command. *)

ReportGoes(r, from, to) ==
    /\ rpc[r] = from
    /\ rpc' = [rpc EXCEPT ![r] = to]
    /\ UNCHANGED <<runLife, life, work, waits>>

StatReport(r, w) ==
    /\ inbox[w].version > 0
    /\ "race" \in Faults \/ \A q \in Readers : rpc[q] \in {"off", "done", "died"}
    /\ ReportGoes(r, "off", "mark")
    /\ rof' = [rof EXCEPT ![r] = w]
    /\ rtime' = [rtime EXCEPT ![r] = inbox[w].mtime]
    /\ UNCHANGED <<marker, seen>>

(* A bug ReadMeansSeen must catch: the mark is the time of the marking. *)
MarkNow(r) ==
    /\ ReportGoes(r, "mark", "print")
    /\ marker' = [marker EXCEPT ![rof[r]] = MaxWrites[rof[r]]]
    /\ rtime' = [rtime EXCEPT ![r] = 0]
    /\ UNCHANGED <<rof, seen>>

MarkRead(r) ==
    /\ ReportGoes(r, "mark", "print")
    /\ marker' = [marker EXCEPT ![rof[r]] = rtime[r]]
    /\ rtime' = [rtime EXCEPT ![r] = 0]
    /\ UNCHANGED <<rof, seen>>

PrintReport(r) ==
    /\ ReportGoes(r, "print", "done")
    /\ seen' = [seen EXCEPT ![rof[r]] = inbox[rof[r]].version]
    /\ UNCHANGED <<rof, marker, rtime>>

ReportDies(r) ==
    /\ "die" \in Faults
    /\ ReportGoes(r, "mark", "off") \/ ReportGoes(r, "print", "died")
    /\ rtime' = [rtime EXCEPT ![r] = 0]
    /\ UNCHANGED <<rof, marker, seen>>

-----------------------------------------------------------------------------
Wait(v) ==
    \/ LoadBoard(v) \/ \E w \in Workers : LoadReport(v, w)
    \/ VerdictInactive(v) \/ VerdictDead(v) \/ VerdictReached(v) \/ KeepsWaiting(v)
    \/ PollAgain(v)

Report(r) == (\E w \in Workers : StatReport(r, w)) \/ MarkRead(r) \/ PrintReport(r)

Next ==
    \/ \E w \in Workers :
          \/ WritesPart(w) \/ FinishesReport(w) \/ WorkerOver(w) \/ LaunchFails(w)
    \/ RunKilled
    \/ \E v \in Waiters : StartWait(v) \/ Wait(v) \/ TimesOut(v)
    \/ \E r \in Readers : Report(r) \/ ReportDies(r)

Spec == Init /\ [][Next]_vars

(* A command that has started goes on. *)
FairSpec == Spec /\ \A v \in Waiters : WF_vars(Wait(v))

-----------------------------------------------------------------------------
(* Properties. *)

(***************************************************************************)
(* A wait calls a worker dead only when it was over without a finished     *)
(* report: one that finishes and exits between two reads of the snapshot   *)
(* is not taken for one that failed.  A report that is there all the same  *)
(* was finished later, by an agent that went on after its worker was given *)
(* up.                                                                     *)
(***************************************************************************)
DeadIsDead ==
    \A v \in Waiters, w \in Workers :
        verdict[v] = <<"dead", w>> => life[w] = "over" /\ (inbox[w].ready => w \in late)

(***************************************************************************)
(* As long as no report is started over, a wait for reports that is        *)
(* reached leaves them finished, although it looked at them one by one.    *)
(***************************************************************************)
ReachedMeansReady ==
    \A v \in Waiters : verdict[v] = <<"reached">> =>
        /\ until[v][1] = "all" => \A w \in Workers : inbox[w].ready
        /\ until[v][1] = "report" => inbox[until[v][2]].ready
        /\ until[v][1] = "any" => \E w \in Workers : inbox[w].ready

(***************************************************************************)
(* `inbox` shows a report as read only when the god was given what is in   *)
(* it, or a `report` is about to print it or died just before it did: a    *)
(* version written while the command runs stays unread.                    *)
(***************************************************************************)
ReadMeansSeen ==
    \A w \in Workers :
        inbox[w].version > 0 /\ marker[w] >= inbox[w].mtime =>
            \/ seen[w] >= inbox[w].version
            \/ \E r \in Readers : rof[r] = w /\ rpc[r] \in {"print", "died"}

(***************************************************************************)
(* A wait for a report ends once the report is finished or its worker is   *)
(* dead, whatever happens to the other workers.                            *)
(***************************************************************************)
ReportEndsWait ==
    \A v \in Waiters, w \in Workers :
        (until[v] = <<"report", w>> /\ wpc[v] # "start" /\ (inbox[w].ready \/ life[w] = "over"))
            ~> (verdict[v] # <<"none">>)
=============================================================================

------------------------------ MODULE Recorder ------------------------------
(***************************************************************************)
(* The team hooks and the recorder: `hook` (src/team_hook.rs) is run by    *)
(* Claude Code for each event of a team and appends a line to the team's   *)
(* spool; `record` (src/recorder.rs) polls the facts and the spool on an   *)
(* interval and appends to its log what has changed since the last tick.   *)
(*                                                                         *)
(* The spool is the sequence of what was written to it, one element per    *)
(* write: writeln! on an unbuffered file writes the line and the newline   *)
(* separately.  A tick is a sequence of separate readings: the facts of    *)
(* the agents, the task files once more, then the spool.                   *)
(*                                                                         *)
(* The constant Faults names what may happen:                              *)
(*   "merge"     a hook writes between the two writes of another;          *)
(*   "append"    appending to the log fails at some record;                *)
(*   "truncate"  somebody truncates the spool, once;                       *)
(*   "restart"   the recorder is killed and started again.                 *)
(***************************************************************************)
EXTENDS TeamFacts, Lists, SequencesExt

CONSTANTS
    Signals,    \* the hook processes, each with the event it was run for
    LeadSignals,\* those whose payload names no team, only the lead's session
    Newline,    \* the end of a line
    Faults      \* see above

ASSUME RecorderAssumption ==
    /\ LeadSignals \subseteq Signals
    /\ Newline \notin Signals
    /\ Faults \subseteq {"merge", "append", "truncate", "restart"}

VARIABLES
    spool,      \* the team's spool file; it is created by the first write
    exists,     \* whether it has been
    hpc,        \* where each hook is
    rpc,        \* where the recorder's tick is
    known,      \* RecorderState.agents: the reason of each agent seen
    knownTask,  \* RecorderState.tasks
    offset,     \* RecorderState.spool_offset
    records,    \* the records this tick has made and not yet appended
    last,       \* the log: the reason in the last record of each agent
    lastTask,   \*   what the last delta of each task said it has become
    logged,     \*   how often each signal is in it
    base,       \* history: the offset the recorder started from
    lost        \* history: "spool" if it has been truncated, "records" if some were not written

hooks == <<spool, exists, hpc>>
state == <<rpc, known, knownTask, offset, records, base>>
log == <<last, lastTask, logged>>
vars == <<facts, hooks, state, log, lost>>

AgentRecord(m, r) == [type |-> "agent", of |-> m, was |-> None, now |-> r]
TaskDelta(t, was, now) == [type |-> "task", of |-> t, was |-> was, now |-> now]
HookSignal(e) == [type |-> "signal", of |-> e, was |-> None, now |-> None]

TypeOK ==
    /\ FactsTypeOK
    /\ spool \in Seq(Signals \cup {Newline})
    /\ exists \in BOOLEAN
    /\ hpc \in [Signals -> {"start", "line", "newline", "done", "astray"}]
    /\ rpc \in {"sleep", "tasks", "spool", "append"}
    /\ known \in [Members -> Reasons \cup {None}]
    /\ knownTask \in [Tasks -> TaskFiles \cup {Absent}]
    /\ offset \in Nat \cup {None}
    /\ \A i \in DOMAIN records : records[i].type \in {"agent", "task", "signal"}
    /\ last \in [Members -> Reasons \cup {None}]
    /\ lastTask \in [Tasks -> TaskFiles \cup {Absent}]
    /\ logged \in [Signals -> Nat]
    /\ base \in Nat \cup {None}
    /\ lost \subseteq {"spool", "records"}

Fresh ==
    /\ rpc = "sleep"
    /\ known = [m \in Members |-> None]
    /\ knownTask = [t \in Tasks |-> Absent]
    /\ offset = None
    /\ records = <<>>
    /\ base = None

Init ==
    /\ FactsInit /\ Fresh
    /\ spool = <<>> /\ exists = FALSE
    /\ hpc = [e \in Signals |-> "start"]
    /\ last = [m \in Members |-> None]
    /\ lastTask = [t \in Tasks |-> Absent]
    /\ logged = [e \in Signals |-> 0]
    /\ lost = {}

-----------------------------------------------------------------------------
(* hook_command. *)

HookGoes(e, from, to) ==
    /\ hpc[e] = from
    /\ hpc' = [hpc EXCEPT ![e] = to]
    /\ UNCHANGED <<facts, state, log, lost>>

(***************************************************************************)
(* resolve_team_bucket: an event that names no team is matched by the      *)
(* session of the lead, for which the team's config must be readable;      *)
(* otherwise it goes to the spool of no team.                              *)
(***************************************************************************)
StartHook(e) ==
    /\ HookGoes(e, "start", IF e \in LeadSignals /\ ~config THEN "astray" ELSE "line")
    /\ UNCHANGED <<spool, exists>>

(* append_line. *)
WriteLine(e) ==
    /\ "merge" \in Faults \/ \A o \in Signals : hpc[o] # "newline"
    /\ HookGoes(e, "line", "newline")
    /\ spool' = Append(spool, e)
    /\ exists' = TRUE

WriteNewline(e) ==
    /\ HookGoes(e, "newline", "done")
    /\ spool' = Append(spool, Newline)
    /\ UNCHANGED exists

Truncate ==
    /\ "truncate" \in Faults /\ "spool" \notin lost
    /\ spool # <<>>
    /\ spool' = <<>>
    /\ lost' = lost \cup {"spool"}
    /\ UNCHANGED <<facts, exists, hpc, state, log>>

-----------------------------------------------------------------------------
(* One tick of the recorder: tick_with_spool and append_records. *)

TickGoes(from, to) ==
    /\ rpc = from
    /\ rpc' = to
    /\ UNCHANGED <<facts, hooks, lost>>

(* A bug LogIsCurrent must catch: an agent's first reason is only remembered. *)
ChangedSince == {m \in Gathered : known[m] \notin {None, ReasonOf(m)}}

(* A record for each agent that is new or whose reason is not the known one. *)
Changed == {m \in Gathered : known[m] # ReasonOf(m)}

TickAgents ==
    /\ TickGoes("sleep", "tasks")
    /\ LET new == SetToSeq(Changed)
       IN records' = [i \in DOMAIN new |-> AgentRecord(new[i], ReasonOf(new[i]))]
    /\ known' = [m \in Members |-> IF m \in Gathered THEN ReasonOf(m) ELSE known[m]]
    /\ UNCHANGED <<knownTask, offset, base, log>>

Present == {t \in Tasks : tasks[t] # Absent}

(* A bug DeltasChain must catch: the owner is not remembered. *)
TickTasksForgetsOwner ==
    /\ TickGoes("tasks", "spool")
    /\ LET new == SetToSeq({t \in Present : knownTask[t] \notin {Absent, tasks[t]}})
       IN records' = records \o [i \in DOMAIN new |-> TaskDelta(new[i], knownTask[new[i]], tasks[new[i]])]
    /\ knownTask' = [t \in Tasks |-> IF t \in Present THEN [tasks[t] EXCEPT !.owner = None] ELSE knownTask[t]]
    /\ lastTask' = [t \in Tasks |-> IF knownTask[t] = Absent THEN knownTask'[t] ELSE lastTask[t]]
    /\ UNCHANGED <<known, offset, base, last, logged>>

(* The first sight of a task makes no record. *)
TickTasks ==
    /\ TickGoes("tasks", "spool")
    /\ LET new == SetToSeq({t \in Present : knownTask[t] \notin {Absent, tasks[t]}})
       IN records' = records \o [i \in DOMAIN new |-> TaskDelta(new[i], knownTask[new[i]], tasks[new[i]])]
    /\ knownTask' = [t \in Tasks |-> IF t \in Present THEN tasks[t] ELSE knownTask[t]]
    /\ lastTask' = [t \in Tasks |-> IF knownTask[t] = Absent THEN knownTask'[t] ELSE lastTask[t]]
    /\ UNCHANGED <<known, offset, base, last, logged>>

(***************************************************************************)
(* consume_spool.  A line is what stands between two newlines; it is an    *)
(* event if it is the line of one hook, and skipped if two have merged.    *)
(***************************************************************************)
Start == IF offset = None THEN Len(spool) ELSE offset
Ends == {i \in Start + 1..Len(spool) : spool[i] = Newline}
ConsumedTo == IF Ends = {} THEN Start ELSE CHOOSE i \in Ends : \A j \in Ends : j =< i
IsEvent(i) ==
    /\ i > Start
    /\ spool[i] # Newline
    /\ i + 1 \in Ends
    /\ i = Start + 1 \/ spool[i - 1] = Newline

Baseline(n) == base' = IF offset = None THEN n ELSE base

TickNoSpool ==
    /\ ~exists
    /\ TickGoes("spool", "append")
    /\ offset' = IF offset = None THEN 0 ELSE offset
    /\ Baseline(0)
    /\ UNCHANGED <<known, knownTask, records, log>>

TickTruncated ==
    /\ exists /\ offset # None /\ Start > Len(spool)
    /\ TickGoes("spool", "append")
    /\ offset' = Len(spool)
    /\ UNCHANGED <<known, knownTask, base, records, log>>

(* A bug SignalsKept must catch: the offset is the length of the file. *)
TickSpoolToEnd ==
    /\ exists /\ Start =< Len(spool)
    /\ TickGoes("spool", "append")
    /\ LET events == Ascending({i \in 1..Len(spool) : IsEvent(i)})
       IN records' = records \o [i \in DOMAIN events |-> HookSignal(spool[events[i]])]
    /\ offset' = Len(spool)
    /\ Baseline(Start)
    /\ UNCHANGED <<known, knownTask, log>>

(* A bug SignalOnce must catch: the offset stays when nothing but a part was new. *)
TickSpoolFromOld ==
    /\ exists /\ Start =< Len(spool)
    /\ TickGoes("spool", "append")
    /\ LET events == Ascending({i \in 1..Len(spool) : IsEvent(i)})
       IN records' = records \o [i \in DOMAIN events |-> HookSignal(spool[events[i]])]
    /\ offset' = IF spool = <<>> \/ Last(spool) # Newline THEN Start ELSE ConsumedTo
    /\ Baseline(Start)
    /\ UNCHANGED <<known, knownTask, log>>

TickSpool ==
    /\ exists /\ Start =< Len(spool)
    /\ TickGoes("spool", "append")
    /\ LET events == Ascending({i \in 1..Len(spool) : IsEvent(i)})
       IN records' = records \o [i \in DOMAIN events |-> HookSignal(spool[events[i]])]
    /\ offset' = ConsumedTo
    /\ Baseline(Start)
    /\ UNCHANGED <<known, knownTask, log>>

(***************************************************************************)
(* append_records: the first n records are written, one by one.  A failure *)
(* ends it, and the records that were not written are dropped.             *)
(***************************************************************************)
Write(n) ==
    LET of(type, x) == {i \in 1..n : records[i].type = type /\ records[i].of = x}
        now(type, x, old) == IF of(type, x) = {} THEN old ELSE records[CHOOSE i \in of(type, x) : TRUE].now
    IN /\ last' = [m \in Members |-> now("agent", m, last[m])]
       /\ lastTask' = [t \in Tasks |-> now("task", t, lastTask[t])]
       /\ logged' = [e \in Signals |-> logged[e] + Cardinality(of("signal", e))]

AppendRecords ==
    /\ TickGoes("append", "sleep")
    /\ Write(Len(records))
    /\ records' = <<>>
    /\ UNCHANGED <<known, knownTask, offset, base>>

AppendFails ==
    /\ "append" \in Faults
    /\ rpc = "append"
    /\ rpc' = "sleep"
    /\ \E n \in 0..Len(records) - 1 : Write(n)
    /\ records' = <<>>
    /\ lost' = lost \cup {"records"}
    /\ UNCHANGED <<facts, hooks, known, knownTask, offset, base>>

(* RecorderState lives in memory only: a new recorder starts over. *)
Restart ==
    /\ "restart" \in Faults
    /\ offset # None
    /\ rpc' = "sleep"
    /\ known' = [m \in Members |-> None]
    /\ knownTask' = [t \in Tasks |-> Absent]
    /\ offset' = None
    /\ records' = <<>>
    /\ base' = None
    /\ UNCHANGED <<facts, hooks, log, lost>>

-----------------------------------------------------------------------------
Hook(e) == StartHook(e) \/ WriteLine(e) \/ WriteNewline(e)

Tick == \/ TickAgents \/ TickTasks \/ TickNoSpool \/ TickTruncated \/ TickSpool
        \/ AppendRecords \/ AppendFails

Next ==
    \/ World /\ UNCHANGED <<hooks, state, log, lost>>
    \/ \E e \in Signals : Hook(e)
    \/ Truncate \/ Restart
    \/ Tick

Spec == Init /\ [][Next]_vars

-----------------------------------------------------------------------------
(* Properties. *)

(***************************************************************************)
(* Between two ticks the log says what the recorder knows, as long as      *)
(* every append succeeded: the last record of an agent has its reason, and *)
(* the deltas of a task lead without a gap to its status and owner.        *)
(***************************************************************************)
LogIsCurrent ==
    rpc = "sleep" /\ "records" \notin lost =>
        /\ \A m \in Members : known[m] \in {None, last[m]}
        /\ \A t \in Tasks : knownTask[t] \in {Absent, lastTask[t]}

(* A delta starts where the previous one of its task ended. *)
DeltasChain ==
    "records" \notin lost => \A i \in DOMAIN records :
        records[i].type = "task" => records[i].was = lastTask[records[i].of]

(***************************************************************************)
(* No event of a hook is recorded twice, whether its line was seen in      *)
(* part, the spool was truncated or the recorder was restarted between two *)
(* readings.                                                               *)
(***************************************************************************)
SignalOnce ==
    \A e \in Signals :
        logged[e] + Cardinality({i \in DOMAIN records : records[i] = HookSignal(e)}) =< 1

(***************************************************************************)
(* As long as nobody truncates the spool and every append succeeds, every  *)
(* line that stands alone between two newlines and that the recorder has   *)
(* passed is recorded.                                                     *)
(***************************************************************************)
SignalsKept ==
    lost = {} /\ offset # None =>
        \A i \in base + 1..offset - 1 :
            spool[i] # Newline /\ spool[i + 1] = Newline /\ (i = base + 1 \/ spool[i - 1] = Newline) =>
                \/ logged[spool[i]] = 1
                \/ \E j \in DOMAIN records : records[j] = HookSignal(spool[i])
=============================================================================

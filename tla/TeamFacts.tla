----------------------------- MODULE TeamFacts ------------------------------
(***************************************************************************)
(* One native team as its files and Herdr show it (src/gather.rs,          *)
(* src/teamfiles.rs, resolve_lead_pane of src/pump.rs), and the reason an  *)
(* agent waits for (src/signal_engine.rs).  The recorder and the board     *)
(* look at the same facts; both only read them.                            *)
(*                                                                         *)
(* Only the lead resolves to a pane, by its session, so only the lead has  *)
(* a status and a transcript.  A time since something is None for unknown, *)
(* else a number of ticks up to MaxAge, which stands for all that follow.  *)
(***************************************************************************)
EXTENDS Integers, FiniteSets

CONSTANTS
    Mates,          \* the members of the team that are not its lead
    Lead,           \* its lead
    Tasks,          \* its tasks
    BlockedBy,      \* the tasks each task lists in blockedBy
    QuietSecs, StalledSecs, InboxSecs,  \* StalledThresholds
    MaxAge,         \* bounds the times
    MaxChanges,     \* bounds the changes of the world
    None            \* no value

Members == Mates \cup {Lead}
Ages == 0..MaxAge
Statuses == {"working", "idle", "blocked"}

ASSUME FactsAssumption ==
    /\ Lead \notin Mates
    /\ IsFiniteSet(Mates) /\ IsFiniteSet(Tasks)
    /\ BlockedBy \in [Tasks -> SUBSET Tasks]
    /\ InboxSecs \in Nat /\ QuietSecs \in Nat /\ StalledSecs \in Nat
    /\ QuietSecs =< StalledSecs
    /\ MaxAge \in Nat /\ StalledSecs =< MaxAge
    /\ MaxChanges \in Nat

VARIABLES
    config,     \* config.json can be read
    pane,       \* Herdr lists an agent with the lead's session, with this status; else None
    quiet,      \* the time since the lead's transcript changed
    unread,     \* the time since the oldest unread message of each inbox
    tasks,      \* the task files: absent, or a status and an owner
    changes     \* how often the world has changed

facts == <<config, pane, quiet, unread, tasks, changes>>

TaskFiles == [status : {"in_progress", "completed"}, owner : Members \cup {None}]
Absent == [status |-> "absent", owner |-> None]

FactsTypeOK ==
    /\ config \in BOOLEAN
    /\ pane \in Statuses \cup {None}
    /\ quiet \in Ages \cup {None}
    /\ unread \in [Members -> Ages \cup {None}]
    /\ tasks \in [Tasks -> TaskFiles \cup {Absent}]
    /\ changes \in 0..MaxChanges

FactsInit ==
    /\ config = TRUE
    /\ pane = "working"
    /\ quiet = 0
    /\ unread = [m \in Members |-> None]
    /\ tasks = [t \in Tasks |-> Absent]
    /\ changes = 0

-----------------------------------------------------------------------------
(* What the agents, Claude Code and Herdr may do to the files. *)

WorldChanges ==
    /\ changes < MaxChanges
    /\ changes' = changes + 1

ConfigChanges ==
    /\ WorldChanges
    /\ config' = ~config
    /\ UNCHANGED <<pane, quiet, unread, tasks>>

(* A turn starts or ends; the transcript is written while the lead works. *)
LeadChanges ==
    /\ WorldChanges
    /\ pane' \in (Statuses \cup {None}) \ {pane}
    /\ quiet' = 0
    /\ UNCHANGED <<config, unread, tasks>>

MessageArrives(m) ==
    /\ WorldChanges
    /\ unread[m] = None
    /\ unread' = [unread EXCEPT ![m] = 0]
    /\ UNCHANGED <<config, pane, quiet, tasks>>

InboxRead(m) ==
    /\ WorldChanges
    /\ unread[m] # None
    /\ unread' = [unread EXCEPT ![m] = None]
    /\ UNCHANGED <<config, pane, quiet, tasks>>

TaskWritten(t) ==
    /\ WorldChanges
    /\ \E f \in TaskFiles \ {tasks[t]} : tasks' = [tasks EXCEPT ![t] = f]
    /\ UNCHANGED <<config, pane, quiet, unread>>

Older(age) == IF age = None \/ age = MaxAge THEN age ELSE age + 1

TimePasses ==
    /\ WorldChanges
    /\ quiet' = IF pane = "working" THEN quiet ELSE Older(quiet)
    /\ unread' = [m \in Members |-> Older(unread[m])]
    /\ <<quiet', unread'>> # <<quiet, unread>>
    /\ UNCHANGED <<config, pane, tasks>>

World ==
    \/ ConfigChanges \/ LeadChanges \/ TimePasses
    \/ \E m \in Members : MessageArrives(m) \/ InboxRead(m)
    \/ \E t \in Tasks : TaskWritten(t)

-----------------------------------------------------------------------------
(* gather_team: what one reading of the sources tells of a member. *)

(***************************************************************************)
(* any_owned_task_blocked: a task without an owner is nobody's, and a      *)
(* dependency without a file is not taken for an open one.                 *)
(***************************************************************************)
OwnedTaskBlocked(m) ==
    \E t \in Tasks : /\ tasks[t].owner = m
                     /\ \E d \in BlockedBy[t] : tasks[d].status \notin {"absent", "completed"}

Gather(m) ==
    [status  |-> IF m = Lead /\ pane # None THEN pane ELSE "unknown",
     blocked |-> OwnedTaskBlocked(m),
     quiet   |-> IF m = Lead THEN quiet ELSE None,
     unread  |-> unread[m]]

(* Without a config that can be read there is nobody to gather for. *)
Gathered == IF config THEN Members ELSE {}

-----------------------------------------------------------------------------
(* classify: one reason per agent, the first that holds. *)

Reasons == {<<c>> : c \in {"permission", "dependency", "complete", "waiting"}}
           \cup {<<"stalled", tier, secs>> : tier \in {"quiet", "stalled"}, secs \in Ages}

AtLeast(age, secs) == age # None /\ age >= secs

Quiescent(f) == f.status = "idle"
IsStalled(f) == AtLeast(f.quiet, StalledSecs)
IsQuiet(f) == AtLeast(f.quiet, QuietSecs) \/ AtLeast(f.unread, InboxSecs)

(* The transcript's time is reported when there is one, whichever signal fired. *)
SecsOf(f) == IF f.quiet # None THEN f.quiet ELSE f.unread

Classify(f) ==
    CASE f.status = "blocked" -> <<"permission">>
      [] f.status # "blocked" /\ f.blocked -> <<"dependency">>
      [] Quiescent(f) /\ ~f.blocked /\ IsStalled(f) -> <<"stalled", "stalled", f.quiet>>
      [] Quiescent(f) /\ ~f.blocked /\ ~IsStalled(f) /\ IsQuiet(f) -> <<"stalled", "quiet", SecsOf(f)>>
      [] Quiescent(f) /\ ~f.blocked /\ ~IsStalled(f) /\ ~IsQuiet(f) -> <<"complete">>
      [] f.status = "working" /\ ~f.blocked -> <<"complete">>
      [] f.status = "unknown" /\ ~f.blocked -> <<"waiting">>

ReasonOf(m) == Classify(Gather(m))
=============================================================================

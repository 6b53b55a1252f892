-------------------------------- MODULE Hook --------------------------------
(***************************************************************************)
(* What the hooks make of agent statuses: `on-agent-status` (src/hook.rs)  *)
(* with the reconciliation of one event (src/reconcile.rs), the metadata   *)
(* it publishes (src/metadata.rs), and the attention requests and          *)
(* acknowledgements of `msg` (src/msg.rs), over one active run.            *)
(*                                                                         *)
(* Herdr runs a hook process for each event.  The process lists the active *)
(* runs, reconciles the event in one locked update of run.toml, and only   *)
(* then, without the lock, performs the actions the update decided on, one *)
(* call after another.  A failed call ends the process, so the rest of its *)
(* actions is lost; what the update wrote stays.                           *)
(*                                                                         *)
(* An agent is named after its worker, God is the god's; `place` says in   *)
(* which of two panes of its own an agent really is.  Statuses are reduced *)
(* to the four the code tells apart.                                       *)
(*                                                                         *)
(* The constant Faults names what may happen:                              *)
(*   "fail"     a call into Herdr or a file operation of a hook fails, or  *)
(*              the hook dies;                                             *)
(*   "reorder"  the updates of two hooks are made in another order than    *)
(*              Herdr's events came in;                                    *)
(*   "noseq"    the installed Herdr has no sequence number in its metadata *)
(*              reports;                                                   *)
(*   "move"     a pane is moved, and so gets another id.                   *)
(***************************************************************************)
EXTENDS Naturals, FiniteSets, Sequences, SequencesExt

CONSTANTS
    Workers,    \* the workers of the run
    God,        \* the god, who is no worker
    Hooks,      \* the hook processes that may be running at one time
    MaxEvents,  \* bounds the events Herdr emits
    MaxRaises,  \* bounds the requests for attention
    Faults,     \* see above
    None        \* no status

AllFaults == {"fail", "reorder", "noseq", "move"}
Agents == Workers \cup {God}
Statuses == {"working", "idle", "done", "blocked"}
Terminal == {"failed", "ended", "released", "orphaned"}

ASSUME HookAssumption ==
    /\ God \notin Workers
    /\ IsFiniteSet(Workers) /\ IsFiniteSet(Hooks)
    /\ MaxEvents \in Nat /\ MaxRaises \in Nat
    /\ Faults \subseteq AllFaults
    /\ None \notin Statuses

VARIABLES
    runLife,    \* RunState.lifecycle
    life,       \* WorkerRunState.lifecycle
    paneOf,     \* WorkerRunState.pane_id, RunState.god_pane_id
    status,     \* HookMetadata.worker_status
    sequence,   \* HookMetadata.metadata_sequence
    blocked,    \* HookMetadata.blocked_since_ms: no entry, fresh or over the threshold
    pending,    \* HookMetadata.attention_pending
    gates,      \* HookMetadata.aggregate_notifications
    agent,      \* the agents' statuses, as Herdr has them
    place,      \* the panes they are in
    reports,    \* the workers with a file in the inbox
    events,     \* the events no hook has taken yet, in Herdr's order
    meta,       \* the metadata Herdr shows for the worker's pane
    hpc,        \* where each hook is
    hev,        \* the event it handles
    hacts,      \* the actions it has yet to perform
    hrun,       \* the panes of the run as it updated it
    raising,    \* how many `msg --attention` of a worker have still to notify
    emitted,    \* history: how many events Herdr has emitted
    raises,     \* history: attention requests
    acks,       \* history: acknowledgements
    due,        \* history: how often the agent became blocked or finished a turn
    pointers,   \* history: pointers typed into the god's pane
    shows,      \* history: notifications shown
    lost        \* history: <<kind, agent>> of the actions that were lost

(* What write_run_with_hook replaces at once. *)
board == <<runLife, life, paneOf, status, sequence, blocked, pending, gates>>
herdr == <<agent, place, events, meta, reports>>
hooks == <<hpc, hev, hacts, hrun>>
counts == <<emitted, raises, acks, due, pointers, shows, lost>>
hookVars == <<board, herdr, hooks, raising, counts>>

-----------------------------------------------------------------------------
(* The values of the state. *)

Keys == {<<c, w>> : c \in {"exit", "blocked", "attention"}, w \in Workers} \cup {<<"complete", God>>}

(* The panes an agent may be in: its first one and the one it is moved to. *)
Spots == {"first", "moved"}

(* owed is no part of an event: it notes that the god is to get a pointer. *)
Event(kind, a, to, owed) ==
    [kind |-> kind, who |-> a, from |-> place[a], to |-> to, owed |-> owed]
Events == [kind : {"status", "exit", "move"}, who : Agents, from : Spots,
           to : Statuses \cup {"moved", None}, owed : BOOLEAN]

Publish(w, s, n, a) == [do |-> "publish", of |-> w, status |-> s, seq |-> n, attention |-> a]
Act(kind, w) == [do |-> kind, of |-> w, status |-> None, seq |-> 0, attention |-> FALSE]
Notify(k) == Act(k[1], k[2])
Actions == [do : {"publish", "drain", "pointer", "exit", "blocked", "complete"},
            of : Agents, status : Statuses \cup {None}, seq : Nat, attention : BOOLEAN]

Losses == {"publish", "drain", "pointer", "exit", "blocked", "complete", "attention"} \X Agents

HookTypeOK ==
    /\ runLife \in {"active", "ended"}
    /\ life \in [Workers -> {"running"} \cup Terminal]
    /\ paneOf \in [Agents -> Spots] /\ place \in [Agents -> Spots]
    /\ status \in [Workers -> Statuses \cup {None}]
    /\ sequence \in [Workers -> Nat]
    /\ blocked \in [Workers -> {"no", "fresh", "over"}]
    /\ pending \subseteq Workers
    /\ gates \subseteq Keys
    /\ agent \in [Agents -> Statuses \cup {"gone"}]
    /\ reports \subseteq Workers
    /\ events \in Seq(Events)
    /\ meta \in [Workers -> [status : Statuses \cup {None}, seq : Nat, attention : BOOLEAN]]
    /\ hpc \in [Hooks -> {"off", "update", "act"}]
    /\ hev \in [Hooks -> Events \cup {None}]
    /\ hacts \in [Hooks -> Seq(Actions)]
    /\ hrun \in [Hooks -> [Agents -> Spots]]
    /\ raising \in [Workers -> Nat]
    /\ emitted \in Nat /\ raises \in Nat
    /\ acks \in [Workers -> Nat] /\ due \in [Workers -> Nat] /\ pointers \in [Workers -> Nat]
    /\ shows \in [Keys -> Nat]
    /\ lost \subseteq Losses

HookInit ==
    /\ runLife = "active"
    /\ life = [w \in Workers |-> "running"]
    /\ paneOf = [a \in Agents |-> "first"] /\ place = [a \in Agents |-> "first"]
    /\ status = [w \in Workers |-> None]
    /\ sequence = [w \in Workers |-> 0]
    /\ blocked = [w \in Workers |-> "no"]
    /\ pending = {} /\ gates = {}
    /\ agent = [a \in Agents |-> "idle"]
    /\ reports = {}
    /\ events = <<>>
    /\ meta = [w \in Workers |-> [status |-> None, seq |-> 0, attention |-> FALSE]]
    /\ hpc = [h \in Hooks |-> "off"]
    /\ hev = [h \in Hooks |-> None]
    /\ hacts = [h \in Hooks |-> <<>>]
    /\ hrun = [h \in Hooks |-> [a \in Agents |-> "first"]]
    /\ raising = [w \in Workers |-> 0]
    /\ emitted = 0 /\ raises = 0
    /\ acks = [w \in Workers |-> 0]
    /\ due = [w \in Workers |-> 0] /\ pointers = [w \in Workers |-> 0]
    /\ shows = [k \in Keys |-> 0]
    /\ lost = {}

-----------------------------------------------------------------------------
(* Herdr and the agents in it, as far as the events tell. *)

(***************************************************************************)
(* A turn ends idle, or done where nobody has looked at the pane yet, and  *)
(* done becomes idle when somebody looks.                                  *)
(***************************************************************************)
Changes == {<<"idle", "working">>, <<"done", "working">>, <<"blocked", "working">>,
            <<"working", "idle">>, <<"working", "done">>, <<"working", "blocked">>,
            <<"done", "idle">>, <<"blocked", "idle">>}

Emits(e) ==
    /\ emitted < MaxEvents
    /\ emitted' = emitted + 1
    /\ events' = Append(events, e)

AgentChanges(w, s) ==
    /\ <<agent[w], s>> \in Changes
    /\ agent' = [agent EXCEPT ![w] = s]
    /\ LET owed == s = "blocked" \/ agent[w] = "working"
       IN /\ Emits(Event("status", w, s, owed))
          /\ due' = IF owed THEN [due EXCEPT ![w] = @ + 1] ELSE due
    /\ UNCHANGED <<board, place, meta, reports, hooks, raising, raises, acks, pointers, shows, lost>>

AgentExits(a) ==
    /\ agent[a] # "gone"
    /\ agent' = [agent EXCEPT ![a] = "gone"]
    /\ Emits(Event("exit", a, None, FALSE))
    /\ UNCHANGED <<board, place, meta, reports, hooks, raising>>
    /\ UNCHANGED <<raises, acks, due, pointers, shows, lost>>

(* A report is written while the agent works. *)
WriteReport(w) ==
    /\ agent[w] = "working" /\ w \notin reports
    /\ reports' = reports \cup {w}
    /\ UNCHANGED <<board, agent, place, events, meta, hooks, raising, counts>>

PaneMoves(a) ==
    /\ "move" \in Faults
    /\ place[a] = "first"
    /\ agent[a] # "gone"
    /\ place' = [place EXCEPT ![a] = "moved"]
    /\ Emits(Event("move", a, "moved", FALSE))
    /\ UNCHANGED <<board, agent, meta, reports, hooks, raising>>
    /\ UNCHANGED <<raises, acks, due, pointers, shows, lost>>

(* The clock passes the blocked-duration threshold. *)
ThresholdPasses(w) ==
    /\ blocked[w] = "fresh"
    /\ blocked' = [blocked EXCEPT ![w] = "over"]
    /\ UNCHANGED <<runLife, life, paneOf, status, sequence, pending, gates>>
    /\ UNCHANGED <<herdr, hooks, raising, counts>>

-----------------------------------------------------------------------------
(* One event: list_active_runs, then reconcile_at_with_reports in an update. *)

Owed(e) == IF e.owed THEN {<<"pointer", e.who>>} ELSE {}

(***************************************************************************)
(* Herdr starts the hooks in the order of its events.  Unless "reorder" is *)
(* allowed a hook has made its update before the next one starts.          *)
(***************************************************************************)
HookStarts(h) ==
    /\ hpc[h] = "off" /\ events # <<>>
    /\ "reorder" \in Faults \/ \A g \in Hooks : hpc[g] # "update"
    /\ events' = Tail(events)
    /\ IF runLife = "active"
       THEN /\ hpc' = [hpc EXCEPT ![h] = "update"]
            /\ hev' = [hev EXCEPT ![h] = Head(events)]
            /\ UNCHANGED lost
       ELSE /\ lost' = lost \cup Owed(Head(events))
            /\ UNCHANGED <<hpc, hev>>
    /\ UNCHANGED <<board, agent, place, reports, meta, hacts, hrun, raising>>
    /\ UNCHANGED <<emitted, raises, acks, due, pointers, shows>>

(* target_for_pane and its kin: a pane is looked up by the id on the board. *)
Matches(e) == paneOf[e.who] = e.from

(* The actions of an update, and where it leaves the hook. *)
Decides(h, acts) ==
    /\ hpc' = [hpc EXCEPT ![h] = IF acts = <<>> THEN "off" ELSE "act"]
    /\ hev' = [hev EXCEPT ![h] = None]
    /\ hacts' = [hacts EXCEPT ![h] = acts]
    /\ hrun' = [hrun EXCEPT ![h] = IF acts = <<>> THEN @ ELSE paneOf']
    /\ UNCHANGED <<herdr, raising, counts>>

Only(condition, act) == IF condition THEN <<act>> ELSE <<>>

(* A bug KeepsNotices must catch: a condition is notified at every event. *)
NotifyAlways(keys) ==
    LET new == SetToSeq(keys) IN [i \in DOMAIN new |-> Notify(new[i])]

(* A bug GatesAnswered must catch: the gate is set before it is tested. *)
NotifyAfterGate(keys) ==
    LET new == SetToSeq(keys \ gates') IN [i \in DOMAIN new |-> Notify(new[i])]

(* notify_once: the conditions of these that have no gate yet. *)
NotifyOnce(keys) ==
    LET new == SetToSeq(keys \ gates) IN [i \in DOMAIN new |-> Notify(new[i])]

(***************************************************************************)
(* sweep_blocked_workers runs at the end of every matched event, with the  *)
(* entries as the event left them.                                         *)
(***************************************************************************)
Overdue == {<<"blocked", w>> : w \in {w \in Workers : blocked'[w] = "over"}}
Sweeps(h, acts, keys) ==
    /\ gates' = gates \cup keys \cup Overdue
    /\ Decides(h, acts \o NotifyOnce(keys) \o NotifyOnce(Overdue \ keys))

Resting(s) == s \in {"idle", "done"}

(* A bug the pointers must show: a pane that is looked at counts as a finished turn. *)
OwesPointerAtRest(w, s) == s = "blocked" \/ Resting(s)

(* A pointer is due for a blocked agent and for the end of a turn. *)
OwesPointer(w, s) == s = "blocked" \/ (Resting(s) /\ status[w] = "working")

(* A bug the metadata must show: the count is not kept. *)
SameSequence(w) == sequence[w]

NextSequence(w) == sequence[w] + 1

(* Every worker rests and its report is in the reports, finished or not. *)
TeamComplete == \A w \in Workers : Resting(status'[w]) /\ w \in reports

UpdateStatus(h) ==
    LET e == hev[h]
        w == e.who
        s == e.to
    IN /\ hpc[h] = "update" /\ e.kind = "status" /\ Matches(e)
       /\ status' = [status EXCEPT ![w] = s]
       /\ sequence' = [sequence EXCEPT ![w] = NextSequence(w)]
       /\ blocked' = [blocked EXCEPT ![w] =
             IF s # "blocked" THEN "no" ELSE IF @ = "no" THEN "fresh" ELSE @]
       /\ UNCHANGED <<runLife, life, paneOf, pending>>
       /\ Sweeps(h,
             <<Publish(w, s, sequence'[w], w \in pending)>>
                \o Only(Resting(s), Act("drain", w))
                \o Only(OwesPointer(w, s), Act("pointer", w)),
             IF TeamComplete THEN {<<"complete", God>>} ELSE {})

UpdateWorkerExit(h) ==
    LET w == hev[h].who
    IN /\ hpc[h] = "update" /\ hev[h].kind = "exit" /\ w # God /\ Matches(hev[h])
       /\ life' = [life EXCEPT ![w] = "orphaned"]
       /\ runLife' = IF \A v \in Workers : life'[v] \in Terminal THEN "ended" ELSE runLife
       /\ UNCHANGED <<paneOf, status, sequence, blocked, pending>>
       /\ Sweeps(h, <<>>, {<<"exit", w>>})

UpdateGodExit(h) ==
    /\ hpc[h] = "update" /\ hev[h].kind = "exit" /\ hev[h].who = God /\ Matches(hev[h])
    /\ runLife' = "ended"
    /\ UNCHANGED <<life, paneOf, status, sequence, blocked, pending>>
    /\ Sweeps(h, <<>>, {})

UpdateMove(h) ==
    LET a == hev[h].who
    IN /\ hpc[h] = "update" /\ hev[h].kind = "move" /\ Matches(hev[h])
       /\ paneOf' = [paneOf EXCEPT ![a] = hev[h].to]
       /\ UNCHANGED <<runLife, life, status, sequence, blocked, pending>>
       /\ Sweeps(h, <<>>, {})

(* An event of no pane of the run changes nothing and sweeps nothing. *)
UpdateUnmatched(h) ==
    /\ hpc[h] = "update" /\ ~Matches(hev[h])
    /\ hpc' = [hpc EXCEPT ![h] = "off"]
    /\ hev' = [hev EXCEPT ![h] = None]
    /\ lost' = lost \cup Owed(hev[h])
    /\ UNCHANGED <<board, herdr, hacts, hrun, raising>>
    /\ UNCHANGED <<emitted, raises, acks, due, pointers, shows>>

(***************************************************************************)
(* The lock, the file or api_schema fails: nothing is written.  Without    *)
(* the status of this event the next one may owe no pointer any more.      *)
(***************************************************************************)
UpdateFails(h) ==
    /\ "fail" \in Faults
    /\ hpc[h] = "update"
    /\ hpc' = [hpc EXCEPT ![h] = "off"]
    /\ hev' = [hev EXCEPT ![h] = None]
    /\ lost' = lost \cup {<<"pointer", hev[h].who>>}
    /\ UNCHANGED <<board, herdr, hacts, hrun, raising>>
    /\ UNCHANGED <<emitted, raises, acks, due, pointers, shows>>

-----------------------------------------------------------------------------
(* The actions of an update, in its order and without the lock.  The event *)
(* is logged before the first of them; failing at that is failing there.   *)

Now(h) == Head(hacts[h])

(***************************************************************************)
(* The pane a call goes to is the one the updated run had: it may have     *)
(* exited or moved since.  A drain with nothing queued makes no call.      *)
(***************************************************************************)
Reaches(h, a) == agent[a] # "gone" /\ hrun[h][a] = place[a]
CanFail(h) == \/ "fail" \in Faults
              \/ Now(h).do \in {"publish", "drain"} /\ ~Reaches(h, Now(h).of)
              \/ Now(h).do = "pointer" /\ ~Reaches(h, God)

HookGoesOn(h) ==
    /\ hpc[h] = "act"
    /\ hacts' = [hacts EXCEPT ![h] = Tail(@)]
    /\ hpc' = [hpc EXCEPT ![h] = IF Tail(hacts[h]) = <<>> THEN "off" ELSE @]
    /\ hrun' = [hrun EXCEPT ![h] = IF Tail(hacts[h]) = <<>> THEN [a \in Agents |-> "first"] ELSE @]
    /\ UNCHANGED <<board, agent, place, events, reports, hev, raising>>
    /\ UNCHANGED <<emitted, raises, acks, due, lost>>

(* The outbox itself is the module Outbox. *)
DrainOutbox(h) ==
    /\ HookGoesOn(h) /\ Now(h).do = "drain"
    /\ UNCHANGED <<meta, pointers, shows>>

(* map_facts carries the sequence number where Herdr knows it, and Herdr   *)
(* then refuses a report that is not newer than the one it has.            *)
Accepted(w, n) == "noseq" \in Faults \/ n > meta[w].seq

PublishMetadata(h) ==
    /\ HookGoesOn(h) /\ Now(h).do = "publish" /\ Reaches(h, Now(h).of)
    /\ LET p == Now(h) IN
       meta' = IF Accepted(p.of, p.seq)
               THEN [meta EXCEPT ![p.of] =
                        [status |-> p.status, seq |-> p.seq, attention |-> p.attention]]
               ELSE meta
    /\ UNCHANGED <<pointers, shows>>

InjectPointer(h) ==
    /\ HookGoesOn(h) /\ Now(h).do = "pointer" /\ Reaches(h, God)
    /\ pointers' = [pointers EXCEPT ![Now(h).of] = @ + 1]
    /\ UNCHANGED <<meta, shows>>

ShowNotification(h) ==
    /\ HookGoesOn(h) /\ <<Now(h).do, Now(h).of>> \in Keys
    /\ shows' = [shows EXCEPT ![<<Now(h).do, Now(h).of>>] = @ + 1]
    /\ UNCHANGED <<meta, pointers>>

(* A failed call ends the hook, and whatever it had yet to do is lost. *)
ActionFails(h) ==
    /\ hpc[h] = "act" /\ CanFail(h)
    /\ hpc' = [hpc EXCEPT ![h] = "off"]
    /\ hacts' = [hacts EXCEPT ![h] = <<>>]
    /\ hrun' = [hrun EXCEPT ![h] = [a \in Agents |-> "first"]]
    /\ lost' = lost \cup {<<a.do, a.of>> : a \in ToSet(hacts[h])}
    /\ UNCHANGED <<board, herdr, hev, raising, emitted, raises, acks, due, pointers, shows>>

-----------------------------------------------------------------------------
(* `msg god --attention` of a worker and `msg <worker> --ack` of the god.  *)
(* Their message is delivered first, as in the module Outbox.              *)

AttentionKey(w) == <<"attention", w>>

RequestAttention(w) ==
    /\ runLife = "active" /\ agent[w] # "gone" /\ paneOf[w] = place[w]
    /\ raises < MaxRaises
    /\ pending' = pending \cup {w}
    /\ gates' = gates \cup {AttentionKey(w)}
    /\ raising' = IF AttentionKey(w) \in gates THEN raising ELSE [raising EXCEPT ![w] = @ + 1]
    /\ raises' = raises + 1
    /\ UNCHANGED <<runLife, life, paneOf, status, sequence, blocked, herdr, hooks>>
    /\ UNCHANGED <<emitted, acks, due, pointers, shows, lost>>

Notifier(w) ==
    /\ raising[w] > 0
    /\ raising' = [raising EXCEPT ![w] = @ - 1]
    /\ UNCHANGED <<board, herdr, hooks, emitted, raises, acks, due, pointers>>

ShowAttention(w) ==
    /\ Notifier(w)
    /\ shows' = [shows EXCEPT ![AttentionKey(w)] = @ + 1]
    /\ UNCHANGED lost

(* The notification fails; the gate stays set. *)
AttentionFails(w) ==
    /\ "fail" \in Faults
    /\ Notifier(w)
    /\ lost' = lost \cup {AttentionKey(w)}
    /\ UNCHANGED shows

(* An acknowledgement with nothing pending changes nothing. *)
ClearAttention(w) ==
    /\ runLife = "active" /\ w \in pending
    /\ pending' = pending \ {w}
    /\ gates' = gates \ {AttentionKey(w)}
    /\ acks' = [acks EXCEPT ![w] = @ + 1]
    /\ UNCHANGED <<runLife, life, paneOf, status, sequence, blocked, herdr, hooks, raising>>
    /\ UNCHANGED <<emitted, raises, due, pointers, shows, lost>>

-----------------------------------------------------------------------------
HookStep(h) ==
    \/ HookStarts(h)
    \/ UpdateStatus(h) \/ UpdateWorkerExit(h) \/ UpdateGodExit(h) \/ UpdateMove(h)
    \/ UpdateUnmatched(h) \/ UpdateFails(h)
    \/ DrainOutbox(h) \/ PublishMetadata(h) \/ InjectPointer(h) \/ ShowNotification(h)
    \/ ActionFails(h)

HookNext ==
    \/ \E h \in Hooks : HookStep(h)
    \/ \E a \in Agents : AgentExits(a) \/ PaneMoves(a)
    \/ \E w \in Workers :
          \/ \E s \in Statuses : AgentChanges(w, s)
          \/ WriteReport(w) \/ ThresholdPasses(w)
          \/ RequestAttention(w) \/ ShowAttention(w) \/ AttentionFails(w) \/ ClearAttention(w)

HookSpec == HookInit /\ [][HookNext]_hookVars

-----------------------------------------------------------------------------
(* Properties. *)

(* A hook has yet to perform this action, and some hook has. *)
Holds(h, kind, w) == \E i \in DOMAIN hacts[h] : hacts[h][i].do = kind /\ hacts[h][i].of = w
InHand(kind, w) == \E h \in Hooks : Holds(h, kind, w)

(* A condition is notified at most once, attention once between acknowledgements. *)
OncePerCondition ==
    \A k \in Keys : shows[k] =< IF k[1] = "attention" THEN 1 + acks[k[2]] ELSE 1

(* The notifications still to be shown: one at most in the hooks, and those of `msg`. *)
Outstanding(k) ==
    IF k[1] = "attention" THEN raising[k[2]] ELSE IF InHand(k[1], k[2]) THEN 1 ELSE 0

(***************************************************************************)
(* Setting a gate and coming to owe its notification are one instant, so   *)
(* each condition is notified once, and attention once between two         *)
(* acknowledgements, although the gate is tested under the lock of one     *)
(* process and the notification shown later, by any, or lost with it.      *)
(***************************************************************************)
Promised == INSTANCE Notices WITH
    Acknowledged <- {AttentionKey(w) : w \in Workers},
    gate <- gates,
    owed <- [k \in Keys |-> Outstanding(k)],
    shown <- shows,
    dropped <- lost \cap Keys,
    cleared <- [k \in Keys |-> IF k[1] = "attention" THEN acks[k[2]] ELSE 0]
KeepsNotices == Promised!Spec

(***************************************************************************)
(* A gate is never set for nothing: its notification was shown, or some    *)
(* process still has to show it, or the process that had to is the one     *)
(* that failed.                                                            *)
(***************************************************************************)
GatesAnswered ==
    \A k \in gates :
        \/ shows[k] > 0 \/ k \in lost
        \/ InHand(k[1], k[2])
        \/ k[1] = "attention" /\ raising[k[2]] > 0

(***************************************************************************)
(* What Herdr shows of a worker is the status on the board once it carries *)
(* the board's sequence number, and it does carry it when no publication   *)
(* is under way and none was lost, although the hooks publish in any order.*)
(***************************************************************************)
MetadataAgrees ==
    \A w \in Workers :
        /\ meta[w].seq = sequence[w] => meta[w].status = status[w]
        /\ meta[w].seq # sequence[w] =>
              InHand("publish", w) \/ <<"publish", w>> \in lost

(***************************************************************************)
(* The god gets one pointer for each time an agent is blocked or ends a    *)
(* turn, whatever else happens between: never another one, when the        *)
(* finished pane is looked at, and none is missing but those a failed hook *)
(* had to inject.                                                          *)
(***************************************************************************)
OnePointerEach ==
    \A w \in Workers :
        LET got == pointers[w] + Cardinality({h \in Hooks : Holds(h, "pointer", w)})
            coming == Cardinality({i \in DOMAIN events : events[i].owed /\ events[i].who = w})
                      + Cardinality({h \in Hooks :
                                        hpc[h] = "update" /\ hev[h].owed /\ hev[h].who = w})
        IN /\ got + coming =< due[w]
           /\ got + coming = due[w] \/ <<"pointer", w>> \in lost
=============================================================================

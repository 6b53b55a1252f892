----------------------------- MODULE Attention -----------------------------
(***************************************************************************)
(* What needs a human's attention and in which order (src/attention.rs,    *)
(* src/focusfile.rs, src/audit.rs and the merge of src/jump.rs): workers   *)
(* that are blocked, the open decisions of the focus file, and the         *)
(* messages in the lead's inbox.  The audit log says which of them have    *)
(* been dealt with, and when.                                              *)
(*                                                                         *)
(* An id names what is the matter and not when: the same worker blocked    *)
(* again has the same id, and so has the same message sent again.  A hash  *)
(* of a text is the text itself here.                                      *)
(***************************************************************************)
EXTENDS Lists, SequencesExt

CONSTANTS
    Panes,              \* the panes of the agents
    LeadPane,           \* the lead's
    Texts,              \* what a decision may say
    Messages,           \* what a message to the lead may say, and who sent it
    CONSUMED_TTL_MS,    \* audit.rs
    None                \* no pane

ASSUME AttentionAssumption ==
    /\ IsFiniteSet(Panes) /\ LeadPane \in Panes /\ None \notin Panes
    /\ CONSUMED_TTL_MS \in Nat \ {0}

AgentStates == {"blocked", "other", "gone"}     \* as `herdr agent list` shows them
Entries == [text : Texts, resolved : BOOLEAN]   \* of the list of decisions

(* An item of the queue; `what` without the number of a repeated decision. *)
Blocked(p) == [id |-> <<"blocked", p>>, what |-> <<"blocked", p>>, pane |-> p]
Decision(text, n) ==
    [id |-> <<"decision", text, n>>, what |-> <<"decision", text>>, pane |-> None]
Message(m, pane) == [id |-> <<"inbox", m>>, what |-> <<"inbox", m>>, pane |-> pane]

(* The first decision with a text has the text's id, the others a suffix,  *)
(* counted over the file with its resolved entries.                        *)
Suffix(file, i) == Cardinality({j \in 1..i : file[j].text = file[i].text})

OpenDecisions(file) ==
    LET open == Ascending({i \in 1..Len(file) : ~file[i].resolved})
    IN  [k \in DOMAIN open |-> Decision(file[open[k]].text, Suffix(file, open[k]))]

BlockedAgents(agents) ==
    LET panes == SetToSeq({p \in Panes : agents[p] = "blocked"})
    IN  [k \in DOMAIN panes |-> Blocked(panes[k])]

(* Each message of the inbox, whether it has been read or not.             *)
LeadMessages(agents, inbox) ==
    [k \in DOMAIN inbox |-> Message(inbox[k], IF agents[LeadPane] = "gone" THEN None ELSE LeadPane)]

(* A bug the jump check must catch: the sources in the order they are read. *)
AttentionQueueAsRead(agents, file, inbox) ==
    LeadMessages(agents, inbox) \o OpenDecisions(file) \o BlockedAgents(agents)

(* Blocked workers first, then decisions, then messages. *)
AttentionQueue(agents, file, inbox) ==
    BlockedAgents(agents) \o OpenDecisions(file) \o LeadMessages(agents, inbox)

Urgency(item) == CASE item.id[1] = "blocked"  -> 3
                   [] item.id[1] = "decision" -> 2
                   [] item.id[1] = "inbox"    -> 1

-----------------------------------------------------------------------------
(* The audit log: a line is an id and the time it was consumed.            *)

(* The last line with an id counts, whatever the times say. *)
ConsumedAt(log, id) ==
    LET lines == {i \in DOMAIN log : log[i].id = id}
    IN  IF lines = {} THEN {} ELSE {log[Max(lines)].at}

Since(now, at) == IF now > at THEN now - at ELSE 0

(* The defect of #86 that NothingSwallowed must catch: done is done for ever. *)
SuppressedForever(log, id, now) == ConsumedAt(log, id) # {}

Suppressed(log, id, now) == \E at \in ConsumedAt(log, id) : Since(now, at) < CONSUMED_TTL_MS

Unconsumed(items, log, now) ==
    LET kept == Ascending({i \in 1..Len(items) : ~Suppressed(log, items[i].id, now)})
    IN  [k \in DOMAIN kept |-> items[kept[k]]]
=============================================================================

----------------------------- MODULE PaneBoard -----------------------------
(***************************************************************************)
(* The mission-control boards (src/pane_board.rs) and their one write: a   *)
(* nudge, appended to a teammate's inbox file (src/inbox_write.rs).        *)
(*                                                                         *)
(* A board shows the teammates of its last refresh.  The human selects     *)
(* one, asks for a nudge, and confirms it; the overlay in between keeps    *)
(* the number of the row.  The inbox is read, extended and replaced under  *)
(* a lock, which the kernel releases when its holder dies.                 *)
(*                                                                         *)
(* The teammate's own client appends to the inbox and prunes it, likewise  *)
(* in a read and a write.  It locks by the existence of a file             *)
(* (docs/research/hook-companion-surface-2026-07-16.md), the boards by     *)
(* flock on a file that stays: the boards' lock keeps no client out, nor   *)
(* the client's a board.  A board gathers in one step: the rows come from  *)
(* one file.                                                               *)
(***************************************************************************)
EXTENDS Naturals, FiniteSets, SequencesExt

CONSTANTS
    Agents,                 \* the teammates there may be
    Boards,                 \* the boards
    None,                   \* no agent, no holder
    Absent,                 \* an inbox file that does not exist
    Malformed,              \* an inbox file that is not an array
    LOCK_RETRY_ATTEMPTS,    \* inbox_write.rs
    MaxNudges,              \* bounds the nudges of a board
    MaxMessages,            \* bounds the messages of other teammates
    MaxChanges              \* bounds the changes of the team

Entries == (Boards \X (1..MaxNudges)) \cup ({"teammate"} \X (1..MaxMessages))

ASSUME PaneBoardAssumption ==
    /\ None \notin Agents \cup Boards
    /\ "teammate" \notin Boards
    /\ \A s \in SUBSET Entries : s \notin {Absent, Malformed}
    /\ MaxNudges \in Nat /\ MaxMessages \in Nat

VARIABLES
    team,       \* the members in config.json, in their order
    inbox,      \* each agent's inbox file
    lock,       \* the board that holds its sidecar lock, if any
    changes,    \* how often the team has changed
    pc,         \* what each board does
    rows,       \* BoardModel.agents
    selected,   \* BoardUiState.selected
    overlay,    \* BoardUiState.overlay
    nudge,      \* the nudge being sent: its number, whom to, and whom it was asked for
    attempt,    \* how often its lock was tried
    copy,       \* the inbox it has read
    client,     \* what each agent's client has read of its inbox, and is to extend
    said,       \* how many messages teammates have sent
    written,    \* history: the entries put into each inbox
    pruned,     \* history: the entries its client has dropped again
    clashed,    \* history: those put in or dropped while the other side had read it
    shifted     \* history: whether the rows changed under the overlay

board == <<pc, rows, selected, overlay, nudge, attempt, copy, shifted>>
others == <<team, changes, client, said, pruned>>
vars == <<board, others, inbox, lock, written, clashed>>

Inboxes == {Absent, Malformed} \cup SUBSET Entries
Teams == {s \in UNION {[1..n -> Agents] : n \in 0..Cardinality(Agents)} : IsInjective(s)}
Confirms == [kind : {"confirm"}, index : 1..Cardinality(Agents), asked : Agents]
Overlays == {[kind |-> "none"], [kind |-> "error"]} \cup Confirms

(* The selection is a row of the board; whoever holds a lock is at it. *)
TypeOK ==
    /\ team \in Teams /\ rows \in [Boards -> Teams]
    /\ inbox \in [Agents -> Inboxes]
    /\ lock \in [Agents -> {None} \cup Boards]
    /\ pc \in [Boards -> {"idle", "look", "lock", "read", "write", "rename", "quit", "dead"}]
    /\ overlay \in [Boards -> Overlays]
    /\ nudge \in [Boards -> [n : 0..MaxNudges, to : Agents \cup {None}, asked : Agents \cup {None}]]
    /\ attempt \in [Boards -> 0..LOCK_RETRY_ATTEMPTS - 1]
    /\ \A b \in Boards :
          /\ selected[b] = 1 \/ selected[b] \in 1..Len(rows[b])
          /\ \A a \in Agents :
                lock[a] = b <=> nudge[b].to = a /\ pc[b] \in {"read", "write", "rename"}

NoOverlay == [kind |-> "none"]
Error == [kind |-> "error"]

Init ==
    /\ team \in {s \in Teams : Len(s) > 0} /\ changes = 0
    /\ inbox \in [Agents -> {Absent, Malformed, {}}]
    /\ lock = [a \in Agents |-> None]
    /\ pc = [b \in Boards |-> "idle"] /\ rows = [b \in Boards |-> team]
    /\ selected = [b \in Boards |-> 1] /\ overlay = [b \in Boards |-> NoOverlay]
    /\ nudge = [b \in Boards |-> [n |-> 0, to |-> None, asked |-> None]]
    /\ attempt = [b \in Boards |-> 0] /\ copy = [b \in Boards |-> {}]
    /\ client = [a \in Agents |-> Absent] /\ said = 0
    /\ written = [a \in Agents |-> {}] /\ pruned = [a \in Agents |-> {}]
    /\ clashed = [a \in Agents |-> {}]
    /\ shifted = [b \in Boards |-> FALSE]

-----------------------------------------------------------------------------
(* The board at rest.                                                      *)

Idle(b) == pc[b] = "idle" /\ UNCHANGED <<others, inbox, lock, written, clashed, attempt, copy>>

ClampSelection(b) ==
    selected' = [selected EXCEPT ![b] = IF @ > Len(rows'[b]) THEN Max({1, Len(rows'[b])}) ELSE @]

(* No key for a while, and the spool has grown or the interval is over. *)
Refresh(b) ==
    /\ Idle(b)
    /\ rows' = [rows EXCEPT ![b] = team]
    /\ ClampSelection(b)
    /\ shifted' = [shifted EXCEPT ![b] = @ \/ (overlay[b].kind = "confirm" /\ rows'[b] # rows[b])]
    /\ UNCHANGED <<pc, overlay, nudge>>

Up(b) ==
    /\ Idle(b) /\ overlay[b] = NoOverlay
    /\ selected' = [selected EXCEPT ![b] = Max({1, @ - 1})]
    /\ UNCHANGED <<pc, rows, overlay, nudge, shifted>>

Down(b) ==
    /\ Idle(b) /\ overlay[b] = NoOverlay /\ rows[b] # <<>>
    /\ selected' = [selected EXCEPT ![b] = Min({@ + 1, Len(rows[b])})]
    /\ UNCHANGED <<pc, rows, overlay, nudge, shifted>>

AskNudge(b) ==
    /\ Idle(b) /\ overlay[b] = NoOverlay /\ selected[b] <= Len(rows[b])
    /\ overlay' = [overlay EXCEPT ![b] = [kind |-> "confirm", index |-> selected[b],
                                          asked |-> rows[b][selected[b]]]]
    /\ UNCHANGED <<pc, rows, selected, nudge, shifted>>

(* Any key dismisses an error, `n` and Escape a nudge. *)
Dismiss(b) ==
    /\ Idle(b) /\ overlay[b] # NoOverlay
    /\ overlay' = [overlay EXCEPT ![b] = NoOverlay]
    /\ shifted' = [shifted EXCEPT ![b] = FALSE]
    /\ UNCHANGED <<pc, rows, selected, nudge>>

(* A bug ChosenUnlessShifted must catch: the row is looked up afresh. *)
ConfirmAfresh(b) ==
    /\ Idle(b) /\ overlay[b].kind = "confirm" /\ nudge[b].n < MaxNudges
    /\ overlay' = [overlay EXCEPT ![b] = NoOverlay]
    /\ overlay[b].index <= Len(team)
    /\ pc' = [pc EXCEPT ![b] = "look"]
    /\ nudge' = [nudge EXCEPT ![b] = [n |-> @.n + 1, to |-> team[overlay[b].index],
                                      asked |-> overlay[b].asked]]
    /\ UNCHANGED <<rows, selected, shifted>>

(* The row is looked up by its number; it may be gone, or another's. *)
Confirm(b) ==
    /\ Idle(b) /\ overlay[b].kind = "confirm" /\ nudge[b].n < MaxNudges
    /\ overlay' = [overlay EXCEPT ![b] = NoOverlay]
    /\ IF overlay[b].index <= Len(rows[b])
       THEN /\ pc' = [pc EXCEPT ![b] = "look"]
            /\ nudge' = [nudge EXCEPT ![b] = [n |-> @.n + 1, to |-> rows[b][overlay[b].index],
                                              asked |-> overlay[b].asked]]
       ELSE UNCHANGED <<pc, nudge>>
    /\ UNCHANGED <<rows, selected, shifted>>

Quit(b) ==
    /\ Idle(b) /\ overlay[b] = NoOverlay
    /\ pc' = [pc EXCEPT ![b] = "quit"]
    /\ UNCHANGED <<rows, selected, overlay, nudge, shifted>>

-----------------------------------------------------------------------------
(* append_entry, during which the board draws nothing and reads no key.    *)

At(b, from, to) ==
    /\ pc[b] = from /\ pc' = [pc EXCEPT ![b] = to]
    /\ UNCHANGED <<others, rows, selected, nudge, shifted>>

Entry(b) == <<b, nudge[b].n>>

(* The append is over: the lock is dropped, and the copy with it. *)
Leaves(b, from, to) ==
    /\ pc[b] = from /\ pc' = [pc EXCEPT ![b] = to]
    /\ lock' = [a \in Agents |-> IF lock[a] = b THEN None ELSE lock[a]]
    /\ nudge' = [nudge EXCEPT ![b] = [n |-> @.n, to |-> None, asked |-> None]]
    /\ shifted' = [shifted EXCEPT ![b] = FALSE]
    /\ attempt' = [attempt EXCEPT ![b] = 0] /\ copy' = [copy EXCEPT ![b] = {}]
    /\ UNCHANGED <<others, rows, selected>>

(* Any error is shown. *)
Fails(b, from) ==
    /\ Leaves(b, from, "idle")
    /\ overlay' = [overlay EXCEPT ![b] = Error]
    /\ UNCHANGED <<inbox, written, clashed>>

LookForInbox(b) ==
    \/ /\ At(b, "look", "lock") /\ inbox[nudge[b].to] # Absent
       /\ UNCHANGED <<inbox, lock, written, clashed, overlay, attempt, copy>>
    \/ Fails(b, "look") /\ inbox[nudge[b].to] = Absent

(* A bug the account of a nudge must catch: contention is passed over. *)
PassOver(b) == Leaves(b, "lock", "idle") /\ UNCHANGED <<inbox, written, clashed, overlay>>

LockContention(b) == Fails(b, "lock")

(* A bug KeepsMailboxes must catch: a lock that is held for long is ignored. *)
TakeLockAnyway(b) ==
    \/ /\ At(b, "lock", "read")
       /\ lock' = [lock EXCEPT ![nudge[b].to] = b]
       /\ UNCHANGED <<inbox, written, clashed, overlay, attempt, copy>>
    \/ Fails(b, "lock")

AcquireLock(b) ==
    \/ /\ At(b, "lock", "read") /\ lock[nudge[b].to] = None
       /\ lock' = [lock EXCEPT ![nudge[b].to] = b]
       /\ attempt' = [attempt EXCEPT ![b] = 0]
       /\ UNCHANGED <<inbox, written, clashed, overlay, copy>>
    \/ /\ At(b, "lock", "lock") /\ lock[nudge[b].to] # None
       /\ attempt[b] + 1 < LOCK_RETRY_ATTEMPTS
       /\ attempt' = [attempt EXCEPT ![b] = @ + 1]
       /\ UNCHANGED <<inbox, lock, written, clashed, overlay, copy>>
    \/ /\ LockContention(b) /\ lock[nudge[b].to] # None
       /\ attempt[b] + 1 = LOCK_RETRY_ATTEMPTS
    \/ Fails(b, "lock")

ReadInbox(b) ==
    \/ /\ At(b, "read", "write") /\ inbox[nudge[b].to] \notin {Absent, Malformed}
       /\ copy' = [copy EXCEPT ![b] = inbox[nudge[b].to]]
       /\ UNCHANGED <<inbox, lock, written, clashed, overlay, attempt>>
    \/ Fails(b, "read")

WriteCopy(b) ==
    \/ /\ At(b, "write", "rename")
       /\ copy' = [copy EXCEPT ![b] = @ \cup {Entry(b)}]
       /\ UNCHANGED <<inbox, lock, written, clashed, overlay, attempt>>
    \/ Fails(b, "write")

Rename(b) ==
    \/ /\ Leaves(b, "rename", "idle")
       /\ inbox' = [inbox EXCEPT ![nudge[b].to] = copy[b]]
       /\ written' = [written EXCEPT ![nudge[b].to] = @ \cup {Entry(b)}]
       /\ clashed' = [clashed EXCEPT ![nudge[b].to] =
                          IF client[nudge[b].to] = Absent THEN @ ELSE @ \cup {Entry(b)}]
       /\ UNCHANGED overlay
    \/ Fails(b, "rename")

Busy(b) == pc[b] \in {"look", "lock", "read", "write", "rename"}

Die(b) ==
    /\ Busy(b) /\ Leaves(b, pc[b], "dead")
    /\ UNCHANGED <<inbox, written, clashed, overlay>>

-----------------------------------------------------------------------------
(* The team: members come and go, and their clients keep their inboxes.    *)

TeamChanges ==
    /\ changes < MaxChanges /\ changes' = changes + 1
    /\ \/ \E a \in Agents \ Range(team) : team' = Append(team, a)
       \/ \E i \in DOMAIN team : team' = RemoveAt(team, i)
    /\ UNCHANGED <<board, inbox, lock, written, clashed, client, said, pruned>>

ClientCreates(a) ==
    /\ inbox[a] = Absent
    /\ inbox' = [inbox EXCEPT ![a] = {}]
    /\ UNCHANGED <<board, others, lock, written, clashed>>

ClientReads(a) ==
    /\ inbox[a] \notin {Absent, Malformed} /\ client[a] = Absent
    /\ client' = [client EXCEPT ![a] = inbox[a]]
    /\ UNCHANGED <<board, inbox, lock, written, clashed, team, changes, said, pruned>>

(* A board has read the inbox and is to replace it. *)
BoardHasRead(a) == \E b \in Boards : nudge[b].to = a /\ pc[b] \in {"write", "rename"}

Clash(a, entries) ==
    clashed' = [clashed EXCEPT ![a] = IF BoardHasRead(a) THEN @ \cup entries ELSE @]

(* The client puts an entry in, or drops what it has read. *)
ClientWrites(a) ==
    /\ client[a] # Absent
    /\ client' = [client EXCEPT ![a] = Absent]
    /\ \/ /\ said < MaxMessages /\ said' = said + 1
          /\ inbox' = [inbox EXCEPT ![a] = client[a] \cup {<<"teammate", said'>>}]
          /\ written' = [written EXCEPT ![a] = @ \cup {<<"teammate", said'>>}]
          /\ Clash(a, {<<"teammate", said'>>})
          /\ UNCHANGED pruned
       \/ /\ inbox' = [inbox EXCEPT ![a] = {}]
          /\ pruned' = [pruned EXCEPT ![a] = @ \cup client[a]]
          /\ Clash(a, client[a])
          /\ UNCHANGED <<said, written>>
    /\ UNCHANGED <<board, lock, team, changes>>

Next ==
    \/ \E b \in Boards :
          \/ Refresh(b) \/ Up(b) \/ Down(b) \/ AskNudge(b) \/ Dismiss(b) \/ Confirm(b) \/ Quit(b)
          \/ LookForInbox(b) \/ AcquireLock(b) \/ ReadInbox(b) \/ WriteCopy(b) \/ Rename(b)
          \/ Die(b)
    \/ TeamChanges
    \/ \E a \in Agents : ClientCreates(a) \/ ClientReads(a) \/ ClientWrites(a)

Spec == Init /\ [][Next]_vars

-----------------------------------------------------------------------------
(* Properties.                                                             *)

(* What anyone put into an inbox, and its client has not dropped, is in the *)
(* file, unless it was put in while the other side, client or board, had    *)
(* read the file already and was to replace it.                             *)
NothingLost ==
    \A a \in Agents :
        inbox[a] \notin {Absent, Malformed} =>
            written[a] \ (pruned[a] \cup clashed[a]) \subseteq inbox[a]

(* The inboxes are those of Mailboxes: a nudge is put into one inbox, once *)
(* and at one instant, although the file is read, copied and replaced in   *)
(* steps of their own.  Boards take nothing from each other, wherever one  *)
(* dies (inbox_write.rs, append_entry); what a board and a client may take *)
(* from each other is what was put in or dropped between the read and the  *)
(* write of the other, and nothing else.                                   *)
Promised == INSTANCE Mailboxes WITH
    Owners <- Agents, Letters <- Entries, box <- inbox,
    sent <- UNION {written[a] : a \in Agents}, emptied <- pruned, adrift <- clashed
KeepsMailboxes == Promised!Spec

(* A board that goes back to its keys has written the nudge or shows why   *)
(* not (pane_board.rs, SendNudge: "never silently swallowed").             *)
SentOrSaid ==
    [][\A b \in Boards :
          Busy(b) /\ pc'[b] = "idle" =>
              Entry(b) \in written'[nudge[b].to] \/ overlay'[b] = Error]_vars

(* A nudge goes to the teammate it was asked for, unless a refresh moved   *)
(* the rows while the human was looking at the overlay (pane_board.rs,     *)
(* Overlay::ConfirmNudge keeps a row number).                              *)
ChosenUnlessShifted ==
    \A b \in Boards : Busy(b) /\ ~shifted[b] => nudge[b].to = nudge[b].asked
=============================================================================

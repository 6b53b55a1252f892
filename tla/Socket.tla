------------------------------- MODULE Socket -------------------------------
(***************************************************************************)
(* A board or a `wait` that watches the team through Herdr's public socket *)
(* (src/socket_backend.rs over src/socket.rs).                             *)
(*                                                                         *)
(* The client collects the run from disk, waits for a change, collects     *)
(* again.  The socket only wakes it up: a controller takes a snapshot,     *)
(* subscribes to the workers' panes, reads events off the stream, and      *)
(* after a loss reconnects a few times before it gives up.  When it has    *)
(* nothing to wait on, the client sleeps as if there were no socket.       *)
(*                                                                         *)
(* A stream is the sequence of pieces the server has written and the       *)
(* client has not read: a whole event, the first or the last part of one,  *)
(* or a frame that is not an event.                                        *)
(*                                                                         *)
(* Time is abstract: an absolute deadline is off, set or past; a backoff   *)
(* is over or not; a read of a silent stream ends whenever it likes.       *)
(***************************************************************************)
EXTENDS Naturals, Sequences

CONSTANTS
    Panes,          \* the panes of the workers
    MaxChanges,     \* bounds how often the run changes
    MaxWire,        \* bounds the pieces on a stream
    MAX_RECONNECTS  \* socket.rs

ASSUME SocketAssumption == MaxChanges \in Nat /\ MaxWire \in Nat /\ MAX_RECONNECTS \in Nat

VARIABLES
    client,     \* "wait" or "board"
    pc,         \* where it is
    phase,      \* LifecycleState.phase
    attempts,   \* LifecycleState.reconnect_attempts
    deadline,   \* LifecycleState.reconnect_deadline
    backoff,    \* whether retry_not_before is still to come
    wanted,     \* the panes this wait would subscribe to
    subs,       \* the panes of the subscription
    wire,       \* the unread pieces of its stream
    up,         \* whether the server has its end of the stream open
    owed,       \* whether the server has written the first part of an event only
    placed,     \* the panes run.toml has for its workers
    run,        \* the version of the run on disk
    shown,      \* the version the client collected last
    asked       \* history: the snapshots asked for since the stream was last healthy

lifecycle == <<phase, attempts, deadline, backoff>>
stream == <<subs, wire, up, owed>>
world == <<placed, run>>
vars == <<client, pc, wanted, shown, asked, lifecycle, stream, world>>

(* The stream lives in the phase: it is dropped with it. *)
TypeOK ==
    /\ client \in {"wait", "board"}
    /\ pc \in {"connect", "refresh", "collect", "look", "poll", "subscribe", "read",
               "fallback", "refused"}
    /\ phase \in {"need", "ready", "subscribed", "terminal", "exhausted"}
    /\ attempts \in 0..MAX_RECONNECTS + 1
    /\ deadline \in {"off", "set", "past"}
    /\ backoff \in BOOLEAN
    /\ wanted \subseteq Panes /\ subs \subseteq Panes /\ placed \subseteq Panes
    /\ wire \in Seq({"event", "head", "tail", "bad"}) /\ Len(wire) <= MaxWire
    /\ up \in BOOLEAN /\ owed \in BOOLEAN
    /\ run \in 0..MaxChanges /\ shown \in 0..run
    /\ asked \in Nat
    /\ phase = "subscribed" <=> subs # {}
    /\ phase # "subscribed" => wire = <<>> /\ ~up /\ ~owed
    /\ pc = "read" => phase = "subscribed"
    /\ pc = "subscribe" => phase = "ready"

Init ==
    /\ client \in {"wait", "board"} /\ pc = "connect"
    /\ phase = "need" /\ attempts = 0 /\ deadline = "off" /\ backoff = FALSE
    /\ wanted = {} /\ subs = {} /\ wire = <<>> /\ up = FALSE /\ owed = FALSE
    /\ placed \in SUBSET Panes /\ run = 0 /\ shown = 0 /\ asked = 0

-----------------------------------------------------------------------------
(* Requests.  The server may not be there, not answer in time, close the   *)
(* connection first, or answer with an error, a frame too long, a frame    *)
(* without its newline, another request's id or an unknown type.           *)

Answers == {"refused", "silent", "closed", "error", "too long", "torn", "other id",
            "other type", "good"}

Loses(answer) == answer \in {"refused", "silent"}

(* The schema the server's program prints, and its reply to `ping`, must be those of *)
(* protocol 16.                                                                       *)
Schemas == {"same", "other", "unavailable"}
Handshake(answer) == answer = "good"

Connect ==
    /\ pc = "connect"
    /\ \E schema \in Schemas, answer \in Answers :
          pc' = IF schema = "same" /\ Handshake(answer) THEN "refresh" ELSE "refused"
    /\ UNCHANGED <<client, wanted, shown, asked, lifecycle, stream, world>>

-----------------------------------------------------------------------------
(* The lifecycle of the subscription.                                      *)

StreamDrops == subs' = {} /\ wire' = <<>> /\ up' = FALSE /\ owed' = FALSE

Ends(last) == phase' = last /\ StreamDrops

(* A lost connection: try again after a while, but neither too often nor   *)
(* too long after the first loss.                                          *)
Loss ==
    /\ attempts' = attempts + 1
    /\ deadline' = IF deadline = "off" THEN "set" ELSE deadline
    /\ Ends(IF attempts' > MAX_RECONNECTS THEN "exhausted" ELSE "need")
    /\ backoff' = (backoff \/ attempts' <= MAX_RECONNECTS)

(* What the server should not have said ends the use of the socket. *)
Invalid == Ends("terminal") /\ UNCHANGED <<attempts, deadline, backoff>>

Healthy == attempts' = 0 /\ deadline' = "off" /\ backoff' = FALSE /\ asked' = 0

Steady == UNCHANGED <<lifecycle, stream, asked>>

Spent == deadline = "past" \/ attempts > MAX_RECONNECTS

(* A bug the retry bound must catch: a snapshot counts as a recovery. *)
SnapshotHeals ==
    /\ asked' = asked + 1
    /\ \E answer \in Answers :
          \/ answer = "good" /\ phase' = "ready" /\ attempts' = 0 /\ deadline' = "off"
             /\ backoff' = FALSE /\ UNCHANGED stream
          \/ Loses(answer) /\ Loss
          \/ ~Loses(answer) /\ answer # "good" /\ Invalid

AsksSnapshot ==
    /\ asked' = asked + 1
    /\ \E answer \in Answers :
          \/ answer = "good" /\ phase' = "ready" /\ backoff' = FALSE
             /\ UNCHANGED <<attempts, deadline, stream>>
          \/ Loses(answer) /\ Loss
          \/ ~Loses(answer) /\ answer # "good" /\ Invalid

EnsureSnapshot ==
    \/ phase # "need" /\ Steady
    \/ phase = "need" /\ Spent /\ Ends("exhausted")
       /\ UNCHANGED <<attempts, deadline, backoff, asked>>
    \/ phase = "need" /\ ~Spent /\ backoff /\ Steady
    \/ phase = "need" /\ ~Spent /\ ~backoff /\ AsksSnapshot

-----------------------------------------------------------------------------
(* The client.                                                             *)

ClientSteps(from) == pc = from /\ UNCHANGED <<client, world>>

(* A bug the wait must not have: it takes a silent stream for an unchanged *)
(* run, as the board does.                                                 *)
WaitsOn(outcome) ==
    CASE outcome = "event" -> "refresh"
      [] outcome = "timeout" -> "look"
      [] outcome = "no socket" -> "fallback"

(* A `wait` collects again whatever woke it up, a board only after an      *)
(* event; either sleeps out its budget when there is nothing to wait on.   *)
Returns(outcome) ==
    CASE outcome = "event" -> "refresh"
      [] outcome = "timeout" -> IF client = "wait" THEN "refresh" ELSE "look"
      [] outcome = "no socket" -> "fallback"

Refresh ==
    /\ ClientSteps("refresh") /\ EnsureSnapshot
    /\ pc' = "collect"
    /\ UNCHANGED <<wanted, shown>>

Collect ==
    /\ ClientSteps("collect") /\ Steady
    /\ shown' = run /\ pc' = "look"
    /\ UNCHANGED wanted

(* A key makes the board collect. *)
Key ==
    /\ ClientSteps("look") /\ client = "board" /\ Steady
    /\ pc' = "refresh"
    /\ UNCHANGED <<wanted, shown>>

(* The budget may be spent already. *)
StartWait ==
    /\ ClientSteps("look") /\ Steady
    /\ wanted' = placed
    /\ pc' \in {"poll", Returns("timeout")}
    /\ UNCHANGED shown

Poll ==
    /\ ClientSteps("poll") /\ EnsureSnapshot
    /\ pc' = CASE phase' = "subscribed" -> "read"
               [] phase' = "ready" /\ wanted # {} -> "subscribe"
               [] OTHER -> Returns("no socket")
    /\ UNCHANGED <<wanted, shown>>

Subscribe ==
    /\ ClientSteps("subscribe")
    /\ \E answer \in Answers :
          \/ /\ answer = "good" /\ phase' = "subscribed" /\ pc' = "read"
             /\ subs' = wanted /\ wire' = <<>> /\ up' = TRUE /\ owed' = FALSE
             /\ UNCHANGED <<attempts, deadline, backoff>>
          \/ Loses(answer) /\ Loss /\ pc' = Returns("no socket")
          \/ ~Loses(answer) /\ answer # "good" /\ Invalid /\ pc' = Returns("no socket")
    /\ UNCHANGED <<wanted, shown, asked>>

(* The budget is spent before the request or before the read. *)
BudgetSpent ==
    /\ pc \in {"subscribe", "read"} /\ Steady
    /\ pc' = Returns("timeout")
    /\ UNCHANGED <<client, wanted, shown, world>>

-----------------------------------------------------------------------------
(* A read of the stream.                                                   *)

Reads == ClientSteps("read") /\ UNCHANGED <<wanted, shown>>

EventPieces == IF Len(wire) > 1 /\ wire[1] = "head" /\ wire[2] = "tail" THEN 2
               ELSE IF wire # <<>> /\ wire[1] = "event" THEN 1 ELSE 0

ReadEvent ==
    /\ Reads /\ EventPieces > 0 /\ Healthy
    /\ wire' = SubSeq(wire, EventPieces + 1, Len(wire))
    /\ pc' = Returns("event")
    /\ UNCHANGED <<phase, subs, up, owed>>

(* What is left of an event whose first part is gone is not an event, nor  *)
(* is a first part that the end of the stream cuts off.                    *)
ReadInvalid ==
    /\ Reads /\ wire # <<>>
    /\ wire[1] \in {"bad", "tail"} \/ (wire = <<"head">> /\ ~up)
    /\ Invalid
    /\ pc' = Returns("no socket")
    /\ UNCHANGED asked

ReadEnd ==
    /\ Reads /\ wire = <<>> /\ ~up
    /\ Loss
    /\ pc' = Returns("no socket")
    /\ UNCHANGED asked

(* The part of an event read so far is dropped with the buffer. *)
ReadTimesOut ==
    /\ Reads /\ up /\ wire \in {<<>>, <<"head">>}
    /\ wire' = <<>> /\ Healthy
    /\ pc' = Returns("timeout")
    /\ UNCHANGED <<phase, subs, up, owed>>

Fallback ==
    /\ ClientSteps("fallback") /\ Steady
    /\ pc' = "refresh"
    /\ UNCHANGED <<wanted, shown>>

Client ==
    \/ Connect \/ Refresh \/ Collect \/ Key \/ StartWait \/ Poll \/ Subscribe \/ BudgetSpent
    \/ ReadEvent \/ ReadInvalid \/ ReadEnd \/ ReadTimesOut \/ Fallback

-----------------------------------------------------------------------------
(* The rest of the world: Herdr, the hooks and the other commands.         *)

Serves == UNCHANGED <<client, pc, wanted, shown, asked, lifecycle, subs, world>>

(* The status of a pane that is subscribed to changes, and Herdr writes    *)
(* the event at once or in two parts.                                      *)
Emits ==
    /\ Serves /\ up /\ ~owed /\ Len(wire) < MaxWire
    /\ \E piece \in {"event", "head", "bad"} :
          wire' = Append(wire, piece) /\ owed' = (piece = "head")
    /\ UNCHANGED up

EmitsRest ==
    /\ Serves /\ up /\ owed /\ Len(wire) < MaxWire
    /\ wire' = Append(wire, "tail") /\ owed' = FALSE
    /\ UNCHANGED up

Closes ==
    /\ Serves /\ up
    /\ up' = FALSE /\ owed' = FALSE
    /\ UNCHANGED wire

(* A hook, a report or a command changes the run, with an event or not. *)
Changes ==
    /\ run < MaxChanges
    /\ run' = run + 1 /\ placed' \in SUBSET Panes
    /\ UNCHANGED <<client, pc, wanted, shown, asked, lifecycle, stream>>

DeadlinePasses ==
    /\ deadline = "set" /\ deadline' = "past"
    /\ UNCHANGED <<client, pc, phase, attempts, backoff, wanted, shown, asked, stream, world>>

BackoffPasses ==
    /\ backoff /\ backoff' = FALSE
    /\ UNCHANGED <<client, pc, phase, attempts, deadline, wanted, shown, asked, stream, world>>

Next ==
    \/ Client
    \/ Emits \/ EmitsRest \/ Closes \/ Changes \/ DeadlinePasses \/ BackoffPasses

Spec == Init /\ [][Next]_vars

(* Every wait of a client ends: requests and reads have a timeout, sleeps a length. *)
FairSpec == Spec /\ WF_vars(Client)

-----------------------------------------------------------------------------
(* Properties.                                                             *)

(* Between two signs of a healthy stream the controller asks for at most   *)
(* one snapshot and MAX_RECONNECTS more, however the losses, the backoffs  *)
(* and the deadline fall (socket_backend.rs, transition_loss).             *)
RetriesCapped == asked <= MAX_RECONNECTS + 1

(* Whatever the socket does, a change of the run is collected in the end:  *)
(* by a `wait` always, by a board unless it holds a snapshot or a stream   *)
(* that is in order (SocketGodCollector and SocketBoardCollector,          *)
(* wait_for_change; a board does not collect after a silent wait).         *)
CatchesUp ==
    \A v \in 1..MaxChanges :
        run >= v ~> \/ shown >= v
                    \/ pc = "refused"
                    \/ client = "board" /\ phase \in {"ready", "subscribed"}
=============================================================================

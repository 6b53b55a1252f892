------------------------------- MODULE Outbox -------------------------------
(***************************************************************************)
(* The outbox of one message target, the directory                         *)
(* <run>/outbox/<target>/, as the processes that share it see it:          *)
(*                                                                         *)
(*  - `msg` processes (src/msg.rs): each sends one message, directly into  *)
(*    the target's pane or as a file <seq>.msg of the directory;           *)
(*  - hook processes (src/hook.rs): each drains the directory, sweeping    *)
(*    the claims a dead drain left behind, then claiming, delivering and   *)
(*    removing the queued files in sequence order.                         *)
(*                                                                         *)
(* Nothing but the file system orders these processes.  Every step below   *)
(* is at most one system call on the directory or one call into herdr.  A  *)
(* file is identified with the message its sender writes in it, so `queue` *)
(* and `claims` say which file, if any, the names <seq>.msg and            *)
(* <seq>.claim lead to; a rename moves a file between the two and replaces *)
(* what the new name led to.                                               *)
(*                                                                         *)
(* The constant Faults names what the environment may do beyond failing a  *)
(* delivery, which it always may:                                          *)
(*   "crash"  a process dies between two of its steps;                     *)
(*   "io"     a file operation fails with an error other than "not found"; *)
(*   "age"    a queued or claimed file grows older than                    *)
(*            STALE_CLAIM_THRESHOLD while no drain is at fault.            *)
(*                                                                         *)
(* The code does not keep every promise of its documents.  What it does    *)
(* instead is part of the model; `mishaps` records to which messages it    *)
(* happened, and decides no step:                                          *)
(*   "shared" a message was queued under a number that another file or a   *)
(*            process still used;                                          *)
(*   "torn"   a drain claimed the file before its sender had written it;   *)
(*   "swept"  a sweep took the claim back from a drain that handled it;    *)
(*   "passed" a drain went on past the message because it found it claimed;*)
(*   "late"   it was queued after a drain's listing, under a smaller number*)
(*            than one that drain still has to handle;                     *)
(*   "left"   a drain ended between the delivery and the removal.          *)
(***************************************************************************)
EXTENDS Naturals, FiniteSets, FiniteSetsExt

CONSTANTS
    Msgs,       \* the messages; each is sent by a `msg` process of its own
    Drains,     \* the hook processes that may be draining at one time
    MaxSeq,     \* the largest sequence number (u64::MAX in the code)
    Faults,     \* see above
    Target,     \* whom the messages are for, a worker or the god
    None,       \* no file, no text
    Empty       \* the text of a file whose sender has not written it

AllFaults == {"crash", "io", "age"}
Mishaps == {"shared", "torn", "swept", "passed", "late", "left"}

ASSUME OutboxAssumption ==
    /\ MaxSeq \in Nat
    /\ Faults \subseteq AllFaults
    /\ Target \in {"worker", "god"}
    /\ None \notin Msgs
    /\ Empty \notin Msgs
    /\ None # Empty

VARIABLES
    queue,      \* the file named <seq>.msg
    claims,     \* the file named <seq>.claim
    stale,      \* the files last written STALE_CLAIM_THRESHOLD ago or more
    spc,        \* where each `msg` process is
    sseq,       \* the sequence number it chose
    dpc,        \* where each hook process is
    todo,       \* the directory entries it has listed and not yet handled
    dseq,       \* the sequence number of the entry it is handling
    dtext,      \* the text it has read
    submitted,  \* the messages whose delivery was verified
    mishaps,    \* history: what happened to each message, see above
    before      \* history: <<m, n>> when n took its number while m was queued

diskVars == <<queue, claims, stale>>
sendVars == <<spc, sseq>>
drainVars == <<dpc, todo, dseq, dtext>>
history == <<mishaps, before>>
vars == <<diskVars, sendVars, drainVars, submitted, history>>

Seqs == 1..MaxSeq
Files == Msgs \cup {None}

(* The names in use, and the messages a name leads to. *)
Queued == {s \in Seqs : queue[s] # None}
Claimed == {s \in Seqs : claims[s] # None}
OnDisk == {queue[s] : s \in Queued} \cup {claims[s] : s \in Claimed}

(* A file is complete once its sender's write has returned. *)
Written(m) == spc[m] = "queued"
TextOf(m) == IF Written(m) THEN m ELSE Empty

(* A drain that handles the claim of entry dseq[d]. *)
Holds(d) == dpc[d] \in {"read", "type", "verify", "requeue", "remove"}
Orphan(s) == s \in Claimed /\ \A d \in Drains : ~(Holds(d) /\ dseq[d] = s)

(* Something befalls messages. *)
Befalls(what, S) ==
    mishaps' = [m \in Msgs |-> IF m \in S THEN mishaps[m] \cup {what} ELSE mishaps[m]]

(***************************************************************************)
(* The messages that the file m creates as <s>.msg shares its number with: *)
(* the one claimed under it, those that drains handle and senders write    *)
(* under it.  Any of these processes may still rename or remove it.        *)
(***************************************************************************)
Sharers(m, s) ==
    IF \/ claims[s] # None
       \/ \E d \in Drains : Holds(d) /\ dseq[d] = s
       \/ \E n \in Msgs : spc[n] = "write" /\ sseq[n] = s
    THEN {m, claims[s]} \cup {dtext[d] : d \in {d \in Drains : Holds(d) /\ dseq[d] = s}}
           \cup {n \in Msgs : spc[n] = "write" /\ sseq[n] = s}
    ELSE {}

(* A drain has listed the directory without this number, and a larger one. *)
TooLate(s) ==
    \E d \in Drains :
        /\ dpc[d] = "claim" \/ Holds(d)
        /\ s \notin todo[d]
        /\ \E r \in todo[d] : r > s

SenderStates ==
    {"start", "list", "create", "write", "queued", "sent", "failed", "crashed"}
DrainStates ==
    {"off", "sweep", "unclaim", "claim", "read", "type", "verify", "requeue", "remove"}

TypeOK ==
    /\ queue \in [Seqs -> Files]
    /\ claims \in [Seqs -> Files]
    /\ stale \subseteq Msgs
    /\ spc \in [Msgs -> SenderStates]
    /\ sseq \in [Msgs -> Seqs \cup {0}]
    /\ dpc \in [Drains -> DrainStates]
    /\ todo \in [Drains -> SUBSET Seqs]
    /\ dseq \in [Drains -> Seqs \cup {0}]
    /\ dtext \in [Drains -> Msgs \cup {None, Empty}]
    /\ submitted \subseteq Msgs
    /\ mishaps \in [Msgs -> SUBSET Mishaps]
    /\ before \subseteq Msgs \X Msgs

(* The directory holds what earlier senders queued, under any numbers. *)
Init ==
    /\ queue \in [Seqs -> Files]
    /\ sseq \in [Msgs -> Seqs \cup {0}]
    /\ \A m \in Msgs, s \in Seqs : queue[s] = m <=> sseq[m] = s
    /\ claims = [s \in Seqs |-> None]
    /\ stale = {}
    /\ spc = [m \in Msgs |-> IF sseq[m] = 0 THEN "start" ELSE "queued"]
    /\ dpc = [d \in Drains |-> "off"]
    /\ todo = [d \in Drains |-> {}]
    /\ dseq = [d \in Drains |-> 0]
    /\ dtext = [d \in Drains |-> None]
    /\ submitted = {}
    /\ mishaps = [m \in Msgs |-> {}]
    /\ before = {}

-----------------------------------------------------------------------------
(* Sending: send_message and enqueue_message. *)

SenderGoes(m, from, to) == spc[m] = from /\ spc' = [spc EXCEPT ![m] = to]

(***************************************************************************)
(* delivery_decision looks at the target's status, which the sender read   *)
(* before and which changes at any time, so either branch may be taken.    *)
(* The direct branch touches no file: it types the text and verifies it.   *)
(***************************************************************************)
SendDirect(m) ==
    /\ SenderGoes(m, "start", "sent")
    /\ submitted' = submitted \cup {m}
    /\ UNCHANGED <<diskVars, sseq, drainVars, history>>

SendDirectFails(m) ==
    /\ SenderGoes(m, "start", "failed")
    /\ UNCHANGED <<diskVars, sseq, drainVars, submitted, history>>

SendQueued(m) ==
    /\ SenderGoes(m, "start", "list")
    /\ UNCHANGED <<diskVars, sseq, drainVars, submitted, history>>

(* next_sequence: one more than the largest <seq>.msg; claims don't count. *)
NextSequence == IF Queued = {} THEN 1 ELSE Max(Queued) + 1

(* A bug the type check must catch: the increment is not checked. *)
ListOutboxUnchecked(m) ==
    /\ SenderGoes(m, "list", "create")
    /\ sseq' = [sseq EXCEPT ![m] = NextSequence]
    /\ UNCHANGED <<diskVars, drainVars, submitted, history>>

(* The directory is read and the entry's number chosen. *)
ListOutbox(m) ==
    /\ NextSequence \in Seqs
    /\ SenderGoes(m, "list", "create")
    /\ sseq' = [sseq EXCEPT ![m] = NextSequence]
    /\ before' = {p \in before : p[2] # m}
                  \cup {<<n, m>> : n \in {n \in Msgs : Written(n) /\ \E s \in Seqs : queue[s] = n}}
    /\ UNCHANGED <<diskVars, drainVars, submitted, mishaps>>

(* checked_add overflows: SequenceExhausted. *)
SequenceExhausted(m) ==
    /\ NextSequence \notin Seqs
    /\ SenderGoes(m, "list", "failed")
    /\ UNCHANGED <<diskVars, sseq, drainVars, submitted, history>>

(* create_new makes the empty file, or another sender has just taken the name. *)
CreateEntry(m) ==
    /\ SenderGoes(m, "create", "write")
    /\ queue[sseq[m]] = None
    /\ queue' = [queue EXCEPT ![sseq[m]] = m]
    /\ mishaps' = [n \in Msgs |-> mishaps[n]
            \cup (IF n \in Sharers(m, sseq[m]) THEN {"shared"} ELSE {})
            \cup (IF n = m /\ TooLate(sseq[m]) THEN {"late"} ELSE {})]
    /\ UNCHANGED <<claims, stale, sseq, drainVars, submitted, before>>

CreateCollides(m) ==
    /\ SenderGoes(m, "create", "list")
    /\ queue[sseq[m]] # None
    /\ UNCHANGED <<diskVars, sseq, drainVars, submitted, history>>

(* write_all and flush; send_message returns Ok(Enqueued). *)
WriteEntry(m) ==
    /\ SenderGoes(m, "write", "queued")
    /\ stale' = stale \ {m}
    /\ UNCHANGED <<queue, claims, sseq, drainVars, submitted, history>>

(* The write fails: the sender removes the path, whatever it leads to now. *)
WriteFails(m) ==
    /\ "io" \in Faults
    /\ SenderGoes(m, "write", "failed")
    /\ queue' = [queue EXCEPT ![sseq[m]] = None]
    /\ UNCHANGED <<claims, stale, sseq, drainVars, submitted, history>>

(* Creating or reading the directory, or creating the file, fails. *)
EnqueueFails(m) ==
    /\ "io" \in Faults
    /\ spc[m] \in {"list", "create"}
    /\ spc' = [spc EXCEPT ![m] = "failed"]
    /\ UNCHANGED <<diskVars, sseq, drainVars, submitted, history>>

SenderCrashes(m) ==
    /\ "crash" \in Faults
    /\ spc[m] \in {"list", "create", "write"}
    /\ spc' = [spc EXCEPT ![m] = "crashed"]
    /\ UNCHANGED <<diskVars, sseq, drainVars, submitted, history>>

-----------------------------------------------------------------------------
(* Draining: drain_outbox and sweep_stale_claims. *)

DrainGoes(d, from, to) == dpc[d] = from /\ dpc' = [dpc EXCEPT ![d] = to]

(* The drain leaves its loop, or dies, and forgets what it held. *)
Stops(d) ==
    /\ dpc' = [dpc EXCEPT ![d] = "off"]
    /\ todo' = [todo EXCEPT ![d] = {}]
    /\ dseq' = [dseq EXCEPT ![d] = 0]
    /\ dtext' = [dtext EXCEPT ![d] = None]

(* Only a worker's flips drain: for the god, reconcile_at_with_reports     *)
(* returns before it asks for a drain.                                     *)
AsksForDrain == Target = "worker"

(* The target went idle or done; the sweep lists the claims on disk. *)
StartDrain(d) ==
    /\ AsksForDrain
    /\ DrainGoes(d, "off", "sweep")
    /\ todo' = [todo EXCEPT ![d] = Claimed]
    /\ UNCHANGED <<diskVars, sendVars, dseq, dtext, submitted, history>>

(* The age of one claim is read; a missing file counts as fresh. *)
SweepFresh(d, s) ==
    /\ dpc[d] = "sweep"
    /\ s \in todo[d]
    /\ claims[s] \notin stale
    /\ todo' = [todo EXCEPT ![d] = @ \ {s}]
    /\ UNCHANGED <<diskVars, sendVars, dpc, dseq, dtext, submitted, history>>

(* A bug the liveness check must catch: no claim is ever taken back (defect #59). *)
SweepNothing(d, s) ==
    /\ dpc[d] = "sweep"
    /\ s \in todo[d]
    /\ claims[s] \in stale
    /\ todo' = [todo EXCEPT ![d] = @ \ {s}]
    /\ UNCHANGED <<diskVars, sendVars, dpc, dseq, dtext, submitted, history>>

SweepStale(d, s) ==
    /\ s \in todo[d]
    /\ claims[s] \in stale
    /\ DrainGoes(d, "sweep", "unclaim")
    /\ todo' = [todo EXCEPT ![d] = @ \ {s}]
    /\ dseq' = [dseq EXCEPT ![d] = s]
    /\ UNCHANGED <<diskVars, sendVars, dtext, submitted, history>>

(* rename(<seq>.claim, <seq>.msg), whose failure is ignored. *)
Unclaimed(s) ==
    IF claims[s] = None
    THEN UNCHANGED diskVars
    ELSE /\ queue' = [queue EXCEPT ![s] = claims[s]]
         /\ claims' = [claims EXCEPT ![s] = None]
         /\ UNCHANGED stale

UnclaimOrIgnore(s) == Unclaimed(s) \/ ("io" \in Faults /\ UNCHANGED diskVars)

SweepClaim(d) ==
    /\ DrainGoes(d, "unclaim", "sweep")
    /\ UnclaimOrIgnore(dseq[d])
    /\ Befalls("swept", IF Orphan(dseq[d]) THEN {} ELSE {claims[dseq[d]]})
    /\ dseq' = [dseq EXCEPT ![d] = 0]
    /\ UNCHANGED <<sendVars, todo, dtext, submitted, before>>

(* queued_message_paths. *)
ListQueue(d) ==
    /\ todo[d] = {}
    /\ DrainGoes(d, "sweep", "claim")
    /\ todo' = [todo EXCEPT ![d] = Queued]
    /\ Befalls("passed", {claims[s] : s \in Claimed})
    /\ UNCHANGED <<diskVars, sendVars, dseq, dtext, submitted, before>>

(* A bug the order check must catch: the listing taken from its other end. *)
LastFirst(d, s) == s \in todo[d] /\ \A other \in todo[d] : s >= other

(* The listing is sorted: the smallest sequence number comes first. *)
IsFirst(d, s) == s \in todo[d] /\ \A other \in todo[d] : s <= other

(* A bug the ownership check must catch: the entry is copied, not renamed. *)
ClaimByCopy(d, s) ==
    /\ DrainGoes(d, "claim", "read")
    /\ IsFirst(d, s)
    /\ queue[s] # None
    /\ claims' = [claims EXCEPT ![s] = queue[s]]
    /\ todo' = [todo EXCEPT ![d] = @ \ {s}]
    /\ dseq' = [dseq EXCEPT ![d] = s]
    /\ Befalls("torn", {m \in Msgs : queue[s] = m /\ spc[m] = "write"})
    /\ UNCHANGED <<queue, stale, sendVars, dtext, submitted, before>>

(* rename(<seq>.msg, <seq>.claim): the winner owns the delivery. *)
ClaimEntry(d, s) ==
    /\ DrainGoes(d, "claim", "read")
    /\ IsFirst(d, s)
    /\ queue[s] # None
    /\ claims' = [claims EXCEPT ![s] = queue[s]]
    /\ queue' = [queue EXCEPT ![s] = None]
    /\ todo' = [todo EXCEPT ![d] = @ \ {s}]
    /\ dseq' = [dseq EXCEPT ![d] = s]
    /\ Befalls("torn", {m \in Msgs : queue[s] = m /\ spc[m] = "write"})
    /\ UNCHANGED <<stale, sendVars, dtext, submitted, before>>

(* Another drain won the entry: the rename finds nothing. *)
SkipEntry(d, s) ==
    /\ dpc[d] = "claim"
    /\ IsFirst(d, s)
    /\ queue[s] = None
    /\ todo' = [todo EXCEPT ![d] = @ \ {s}]
    /\ Befalls("passed", {claims[s]})
    /\ UNCHANGED <<diskVars, sendVars, dpc, dseq, dtext, submitted, before>>

FinishDrain(d) ==
    /\ dpc[d] = "claim"
    /\ todo[d] = {}
    /\ Stops(d)
    /\ UNCHANGED <<diskVars, sendVars, submitted, history>>

(* A bug the loss check must catch: the claim is removed as it is read. *)
ReadAndRemove(d) ==
    /\ DrainGoes(d, "read", "type")
    /\ claims[dseq[d]] # None
    /\ dtext' = [dtext EXCEPT ![d] = TextOf(claims[dseq[d]])]
    /\ claims' = [claims EXCEPT ![dseq[d]] = None]
    /\ UNCHANGED <<queue, stale, sendVars, todo, dseq, submitted, history>>

ReadClaim(d) ==
    /\ DrainGoes(d, "read", "type")
    /\ claims[dseq[d]] # None
    /\ dtext' = [dtext EXCEPT ![d] = TextOf(claims[dseq[d]])]
    /\ UNCHANGED <<diskVars, sendVars, todo, dseq, submitted, history>>

ReadFails(d) ==
    /\ DrainGoes(d, "read", "requeue")
    /\ claims[dseq[d]] = None \/ "io" \in Faults
    /\ UNCHANGED <<diskVars, sendVars, todo, dseq, dtext, submitted, history>>

(* deliver_message: `pane run` types the text, then its submission is verified. *)
TypeText(d) ==
    /\ DrainGoes(d, "type", "verify")
    /\ UNCHANGED <<diskVars, sendVars, todo, dseq, dtext, submitted, history>>

Verified(d) ==
    /\ DrainGoes(d, "verify", "remove")
    /\ submitted' = submitted \cup ({dtext[d]} \cap Msgs)
    /\ UNCHANGED <<diskVars, sendVars, todo, dseq, dtext, history>>

(* The target is unknown, `pane run` fails, or the verification times out. *)
DeliveryFails(d) ==
    /\ dpc[d] \in {"type", "verify"}
    /\ dpc' = [dpc EXCEPT ![d] = "requeue"]
    /\ UNCHANGED <<diskVars, sendVars, todo, dseq, dtext, submitted, history>>

(* A bug the refinement must catch: a failed delivery drops the message. *)
DropClaim(d) ==
    /\ dpc[d] = "requeue"
    /\ claims' = [claims EXCEPT ![dseq[d]] = None]
    /\ Stops(d)
    /\ UNCHANGED <<queue, stale, sendVars, submitted, history>>

(* rename(<seq>.claim, <seq>.msg), log delivery_failed, leave the loop. *)
Requeue(d) ==
    /\ dpc[d] = "requeue"
    /\ UnclaimOrIgnore(dseq[d])
    /\ Stops(d)
    /\ UNCHANGED <<sendVars, submitted, history>>

(* A bug the redelivery check must catch: a delivered claim is not removed. *)
LeaveClaim(d) ==
    /\ DrainGoes(d, "remove", "claim")
    /\ dseq' = [dseq EXCEPT ![d] = 0]
    /\ dtext' = [dtext EXCEPT ![d] = None]
    /\ UNCHANGED <<diskVars, sendVars, todo, submitted, history>>

(* remove_file(<seq>.claim), which may be gone already, then log delivered. *)
RemoveClaim(d) ==
    /\ DrainGoes(d, "remove", "claim")
    /\ claims' = [claims EXCEPT ![dseq[d]] = None]
    /\ dseq' = [dseq EXCEPT ![d] = 0]
    /\ dtext' = [dtext EXCEPT ![d] = None]
    /\ UNCHANGED <<queue, stale, sendVars, todo, submitted, history>>

(***************************************************************************)
(* Listing the directory, a claim's rename, its removal or the append to   *)
(* inbox/events.jsonl fails: the drain ends with what it has not handled   *)
(* still on disk.                                                          *)
(***************************************************************************)
DrainFails(d) ==
    /\ "io" \in Faults
    /\ dpc[d] \in {"sweep", "claim", "remove"}
    /\ Stops(d)
    /\ Befalls("left", IF dpc[d] = "remove" THEN {dtext[d]} ELSE {})
    /\ UNCHANGED <<diskVars, sendVars, submitted, before>>

DrainCrashes(d) ==
    /\ "crash" \in Faults
    /\ dpc[d] # "off"
    /\ Stops(d)
    /\ Befalls("left", IF dpc[d] = "remove" THEN {dtext[d]} ELSE {})
    /\ UNCHANGED <<diskVars, sendVars, submitted, before>>

(* A rename keeps a file's modification time, so only its write makes it young. *)
Age(m) ==
    /\ m \in OnDisk \ stale
    /\ "age" \in Faults \/ \E s \in Seqs : claims[s] = m /\ Orphan(s)
    /\ stale' = stale \cup {m}
    /\ UNCHANGED <<queue, claims, sendVars, drainVars, submitted, history>>

-----------------------------------------------------------------------------
Sender(m) ==
    \/ SendDirect(m)
    \/ SendDirectFails(m)
    \/ SendQueued(m)
    \/ ListOutbox(m)
    \/ SequenceExhausted(m)
    \/ CreateEntry(m)
    \/ CreateCollides(m)
    \/ WriteEntry(m)
    \/ WriteFails(m)
    \/ EnqueueFails(m)

Drain(d) ==
    \/ StartDrain(d)
    \/ \E s \in Seqs : SweepFresh(d, s) \/ SweepStale(d, s)
    \/ \E s \in Seqs : ClaimEntry(d, s) \/ SkipEntry(d, s)
    \/ SweepClaim(d)
    \/ ListQueue(d)
    \/ FinishDrain(d)
    \/ ReadClaim(d)
    \/ ReadFails(d)
    \/ TypeText(d)
    \/ Verified(d)
    \/ DeliveryFails(d)
    \/ Requeue(d)
    \/ RemoveClaim(d)
    \/ DrainFails(d)

Environment ==
    \/ \E m \in Msgs : SenderCrashes(m) \/ Age(m)
    \/ \E d \in Drains : DrainCrashes(d)

Next ==
    \/ \E m \in Msgs : Sender(m)
    \/ \E d \in Drains : Drain(d)
    \/ Environment

Spec == Init /\ [][Next]_vars

(***************************************************************************)
(* Processes that run go on running, and time passes.  A worker goes idle  *)
(* again and again (the hook is triggered on every flip), its deliveries   *)
(* do not fail forever, and a drain does not always lose its claim before  *)
(* it has read it.  Hooks die finitely often.                              *)
(***************************************************************************)
Dies == \E d \in Drains : DrainCrashes(d) /\ ~Drain(d)

FairSpec ==
    /\ Spec
    /\ \A m \in Msgs : WF_vars(Sender(m)) /\ WF_vars(Age(m))
    /\ \A d \in Drains :
        /\ WF_vars(Drain(d))
        /\ SF_vars(ReadClaim(d))
        /\ SF_vars(TypeText(d))
        /\ SF_vars(Verified(d))
    /\ <>[][~Dies]_vars

-----------------------------------------------------------------------------
(***************************************************************************)
(* "Queued: durably retained in the outbox": a message whose `msg`         *)
(* returned Ok(Enqueued) is on disk until its delivery has been verified,  *)
(* whatever happens to others.                                             *)
(***************************************************************************)
Durable == \A m \in Msgs : Written(m) => m \in submitted \cup OnDisk

(***************************************************************************)
(* The same of every message that did not share its number and was not     *)
(* claimed before it was written: no rename replaces it and no removal     *)
(* hits it, whatever befalls the messages beside it.                       *)
(***************************************************************************)
Exposed == {m \in Msgs : mishaps[m] \cap {"shared", "torn"} # {}}
NoLoss == \A m \in Msgs \ Exposed : Written(m) => m \in submitted \cup OnDisk

(***************************************************************************)
(* "The rename winner owns delivery": no message is in the hands of two    *)
(* drains, however they overlap, unless it shared its number or a sweep    *)
(* took it from one of them.                                               *)
(***************************************************************************)
Delivers(d, m) == dpc[d] \in {"type", "verify", "remove"} /\ dtext[d] = m

ExclusiveClaim ==
    \A m \in Msgs : mishaps[m] \cap {"shared", "swept"} = {} =>
        \A d, e \in Drains : Delivers(d, m) /\ Delivers(e, m) => d = e

(***************************************************************************)
(* The double delivery of defect #59: no drain types a message again once  *)
(* a delivery of it has been verified.  Of all the ways in which processes *)
(* interleave and die only three lead there: it shared its number, a sweep *)
(* took it from the drain that delivered it, or that drain did not come to *)
(* remove it.                                                              *)
(***************************************************************************)
NoResubmission ==
    \A m \in submitted : mishaps[m] \cap {"shared", "swept", "left"} = {} =>
        \A d \in Drains : ~(dpc[d] = "type" /\ dtext[d] = m)

(***************************************************************************)
(* "Drained in order": a message is not submitted before one that was in   *)
(* the queue when it took its number, whatever drains overlap and die,     *)
(* unless a drain found the earlier one claimed and passed it, or it came  *)
(* too late for a listing, or was exposed.                                 *)
(***************************************************************************)
InOrder ==
    \A p \in before :
        /\ mishaps[p[1]] \cap {"shared", "torn", "passed", "late"} = {}
        /\ Written(p[2]) /\ p[2] \in submitted
        => p[1] \in submitted

(***************************************************************************)
(* The outbox implements the abstract queue: what is pending there is what *)
(* is written on disk here and not submitted.  No step but a write adds to *)
(* it, and only a verified delivery takes from it, or else what is exposed *)
(* is lost.                                                                *)
(***************************************************************************)
Pending == {m \in OnDisk \ submitted : Written(m)}

Abstract == INSTANCE MessageQueue WITH pending <- Pending, exposed <- Exposed

KeepsMessages == Abstract!Spec

(* Every message queued for a worker is submitted in the end, unless it is exposed. *)
EventuallySubmitted ==
    AsksForDrain => \A m \in Msgs : Written(m) ~> m \in submitted \cup Exposed

=============================================================================

---------------------------- MODULE SocketProofs ----------------------------
(***************************************************************************)
(* What holds of Socket for any panes, any number of changes and pieces    *)
(* and any number of reconnects: its variables stay among their values,    *)
(* and no client asks for more snapshots than the retries allow.           *)
(***************************************************************************)
EXTENDS Socket, SequenceTheorems, TLAPS

(***************************************************************************)
(* The invariant behind RetriesCapped.  A snapshot is asked for with fewer *)
(* losses than reconnects are allowed, and the next one only after another *)
(* loss: while the client needs one it has asked no more often than it has *)
(* lost the connection since the stream was last healthy, and while it has *)
(* one at most once more.                                                  *)
(***************************************************************************)
LossPerSnapshot ==
    /\ phase # "exhausted" => attempts <= MAX_RECONNECTS
    /\ phase = "need" => asked <= attempts
    /\ phase \in {"ready", "subscribed"} => asked <= attempts + 1

(* A subscription is for some pane. *)
SubscribesToSome == pc = "subscribe" => wanted # {}

IInv == TypeOK /\ SubscribesToSome /\ LossPerSnapshot /\ RetriesCapped

-----------------------------------------------------------------------------
(* The types. *)

Pieces == {"event", "head", "tail", "bad"}

LEMMA RestOfWire ==
    ASSUME NEW s \in Seq(Pieces), NEW n \in 1..2, n <= Len(s), Len(s) <= MaxWire
    PROVE  SubSeq(s, n + 1, Len(s)) \in Seq(Pieces) /\ Len(SubSeq(s, n + 1, Len(s))) <= MaxWire
<1>1. n + 1 \in Int /\ Len(s) \in Int /\ \A i \in n + 1 .. Len(s) : s[i] \in Pieces
  OBVIOUS
<1>2. /\ SubSeq(s, n + 1, Len(s)) \in Seq(Pieces)
      /\ Len(SubSeq(s, n + 1, Len(s))) = IF n + 1 <= Len(s) THEN Len(s) - (n + 1) + 1 ELSE 0
  BY <1>1, SubSeqProperties
<1>3. MaxWire \in Nat
  BY SocketAssumption
<1> QED BY <1>2, <1>3

LEMMA OneMorePiece ==
    ASSUME NEW s \in Seq(Pieces), Len(s) < MaxWire, NEW p \in Pieces
    PROVE  Append(s, p) \in Seq(Pieces) /\ Len(Append(s, p)) <= MaxWire
BY AppendProperties, SocketAssumption

(* The two halves of TypeOK that a loss changes. *)
LifecycleTyped ==
    /\ phase \in {"need", "ready", "subscribed", "terminal", "exhausted"}
    /\ attempts \in 0..MAX_RECONNECTS + 1
    /\ deadline \in {"off", "set", "past"}
    /\ backoff \in BOOLEAN

StreamTyped ==
    /\ subs \subseteq Panes
    /\ wire \in Seq(Pieces) /\ Len(wire) <= MaxWire
    /\ up \in BOOLEAN /\ owed \in BOOLEAN
    /\ phase = "subscribed" <=> subs # {}
    /\ phase # "subscribed" => wire = <<>> /\ ~up /\ ~owed

LEMMA TypedInHalves ==
    TypeOK <=> /\ LifecycleTyped /\ StreamTyped
               /\ client \in {"wait", "board"}
               /\ pc \in {"connect", "refresh", "collect", "look", "poll", "subscribe", "read",
                          "fallback", "refused"}
               /\ wanted \subseteq Panes /\ placed \subseteq Panes
               /\ run \in 0..MaxChanges /\ shown \in 0..run
               /\ asked \in Nat
               /\ pc = "read" => phase = "subscribed"
               /\ pc = "subscribe" => phase = "ready"
BY Zenon DEF TypeOK, LifecycleTyped, StreamTyped, Pieces

LEMMA NoWire == <<>> \in Seq(Pieces) /\ Len(<<>>) <= MaxWire
BY SocketAssumption

LEMMA NoLosses == 0 \in 0..MAX_RECONNECTS + 1
BY SocketAssumption

LEMMA DropTyped == ASSUME StreamDrops, phase' # "subscribed" PROVE StreamTyped'
BY NoWire, Zenon DEF StreamDrops, StreamTyped

LEMMA LossTyped ==
    ASSUME LifecycleTyped, LossPerSnapshot, phase # "exhausted", Loss
    PROVE  LifecycleTyped' /\ StreamTyped' /\ phase' \notin {"ready", "subscribed"}
<1>1. phase' \in {"need", "exhausted"} /\ StreamDrops
  BY DEF Loss, Ends
<1>2. StreamTyped'
  BY <1>1, DropTyped
<1>3. attempts' \in 0..MAX_RECONNECTS + 1 /\ deadline' \in {"off", "set", "past"}
  BY SocketAssumption DEF Loss, LifecycleTyped, LossPerSnapshot
<1>4. backoff' \in BOOLEAN
  BY Zenon DEF Loss
<1> QED BY <1>1, <1>2, <1>3, <1>4 DEF LifecycleTyped

LEMMA EndTyped ==
    ASSUME LifecycleTyped, NEW last \in {"terminal", "exhausted"}, Ends(last),
           UNCHANGED <<attempts, deadline, backoff>>
    PROVE  LifecycleTyped' /\ StreamTyped' /\ phase' = last
<1>1. StreamTyped'
  BY DropTyped DEF Ends
<1> QED BY <1>1, Zenon DEF LifecycleTyped, Ends

(* A snapshot is asked for, or nothing happens. *)
LEMMA SnapshotTyped ==
    ASSUME TypeOK, LossPerSnapshot, EnsureSnapshot
    PROVE  /\ LifecycleTyped' /\ StreamTyped' /\ asked' \in Nat
           /\ phase' = "subscribed" => phase = "subscribed"
<1>1. LifecycleTyped /\ StreamTyped /\ asked \in Nat
  BY TypedInHalves
<1>2. CASE Steady
  BY <1>1, <1>2, Zenon DEF Steady, lifecycle, stream, LifecycleTyped, StreamTyped
<1>3. CASE Ends("exhausted") /\ UNCHANGED <<attempts, deadline, backoff, asked>>
  BY <1>1, <1>3, EndTyped
<1>4. CASE AsksSnapshot /\ phase = "need"
  <2>1. asked' \in Nat
    BY <1>1, <1>4 DEF AsksSnapshot
  <2>2. CASE phase' = "ready" /\ backoff' = FALSE /\ UNCHANGED <<attempts, deadline, stream>>
    <3>1. LifecycleTyped'
      BY <1>1, <2>2 DEF LifecycleTyped
    <3>2. StreamTyped'
      BY <1>1, <1>4, <2>2, Zenon DEF StreamTyped, stream
    <3> QED BY <2>1, <2>2, <3>1, <3>2
  <2>3. CASE Loss
    BY <1>1, <1>4, <2>1, <2>3, LossTyped
  <2>4. CASE Invalid
    BY <1>1, <2>1, <2>4, EndTyped DEF Invalid
  <2> QED BY <1>4, <2>2, <2>3, <2>4 DEF AsksSnapshot
<1> QED BY <1>2, <1>3, <1>4 DEF EnsureSnapshot

(* Where a wait goes back to. *)
LEMMA ReturnsSomewhere ==
    \A o \in {"event", "timeout", "no socket"} : Returns(o) \in {"refresh", "look", "fallback"}
BY DEF Returns

LEMMA StepKeepsTypes == TypeOK /\ SubscribesToSome /\ LossPerSnapshot /\ [Next]_vars => TypeOK'
<1> SUFFICES ASSUME TypeOK, SubscribesToSome, LossPerSnapshot, [Next]_vars PROVE TypeOK'
  OBVIOUS
<1> DEFINE Rest == /\ client \in {"wait", "board"}
                   /\ pc \in {"connect", "refresh", "collect", "look", "poll",
                              "subscribe", "read", "fallback", "refused"}
                   /\ wanted \subseteq Panes /\ placed \subseteq Panes
                   /\ run \in 0..MaxChanges /\ shown \in 0..run
                   /\ asked \in Nat
                   /\ pc = "read" => phase = "subscribed"
                   /\ pc = "subscribe" => phase = "ready"
<1>0. LifecycleTyped /\ StreamTyped /\ Rest
  BY TypedInHalves
<1> SUFFICES LifecycleTyped' /\ StreamTyped' /\ Rest'
  BY Zenon DEF TypeOK, LifecycleTyped, StreamTyped, Pieces
<1>1. ASSUME Steady PROVE LifecycleTyped' /\ StreamTyped' /\ UNCHANGED <<asked, phase>>
  BY <1>0, <1>1, Zenon DEF Steady, lifecycle, stream, LifecycleTyped, StreamTyped
<1>2. CASE Refresh \/ Poll
  <2>1. LifecycleTyped' /\ StreamTyped' /\ asked' \in Nat
    BY <1>2, SnapshotTyped DEF Refresh, Poll
  <2>2. Rest'
    BY <1>0, <1>2, <2>1, ReturnsSomewhere DEF Refresh, Poll, ClientSteps, world
  <2> QED BY <2>1, <2>2
<1>3. CASE Connect \/ Collect \/ Key \/ StartWait \/ BudgetSpent \/ Fallback
  <2>1. Steady
    BY <1>3 DEF Connect, Collect, Key, StartWait, BudgetSpent, Fallback, Steady
  <2>2. pc' \in {"refresh", "collect", "look", "poll", "fallback", "refused"}
    BY <1>3, ReturnsSomewhere DEF Connect, Collect, Key, StartWait, BudgetSpent, Fallback
  <2>3. /\ UNCHANGED <<client, world>> /\ wanted' \in {wanted, placed}
        /\ shown' \in {shown, run}
    BY <1>3 DEF Connect, Collect, Key, StartWait, BudgetSpent, Fallback, ClientSteps
  <2>4. Rest'
    BY <1>0, <1>1, <2>1, <2>2, <2>3, SocketAssumption DEF world
  <2> QED BY <1>1, <2>1, <2>4
<1>4. CASE Subscribe
  <2>1. phase = "ready"
    BY <1>0, <1>4 DEF Subscribe, ClientSteps
  <2>2. CASE Loss /\ pc' = Returns("no socket")
    <3>1. LifecycleTyped' /\ StreamTyped'
      BY <1>0, <2>1, <2>2, LossTyped
    <3> QED BY <1>0, <1>4, <2>2, <3>1, ReturnsSomewhere DEF Subscribe, ClientSteps, world
  <2>3. CASE Invalid /\ pc' = Returns("no socket")
    <3>1. LifecycleTyped' /\ StreamTyped'
      BY <1>0, <2>3, EndTyped DEF Invalid
    <3> QED BY <1>0, <1>4, <2>3, <3>1, ReturnsSomewhere DEF Subscribe, ClientSteps, world
  <2>4. CASE /\ phase' = "subscribed" /\ pc' = "read"
             /\ subs' = wanted /\ wire' = <<>> /\ up' = TRUE /\ owed' = FALSE
             /\ UNCHANGED <<attempts, deadline, backoff>>
    <3>1. LifecycleTyped'
      BY <1>0, <2>4 DEF LifecycleTyped
    <3>2. wanted # {}
      BY <1>4 DEF Subscribe, ClientSteps, SubscribesToSome
    <3>3. StreamTyped'
      BY <1>0, <2>4, <3>2, NoWire, Zenon DEF StreamTyped
    <3> QED BY <1>0, <1>4, <2>4, <3>1, <3>3 DEF Subscribe, ClientSteps, world
  <2> QED BY <1>4, <2>2, <2>3, <2>4 DEF Subscribe
<1>5. CASE ReadEvent
  <2>1. EventPieces \in 1..2 /\ EventPieces <= Len(wire)
    BY <1>0, <1>5 DEF ReadEvent, EventPieces, StreamTyped
  <2>2. wire' \in Seq(Pieces) /\ Len(wire') <= MaxWire
    BY <1>0, <1>5, <2>1, RestOfWire DEF ReadEvent, StreamTyped
  <2>3. StreamTyped'
    BY <1>0, <1>5, <2>2, Zenon DEF ReadEvent, Reads, ClientSteps, StreamTyped
  <2>4. LifecycleTyped'
    BY <1>0, <1>5, NoLosses, Zenon DEF ReadEvent, Healthy, LifecycleTyped
  <2>5. Rest'
    BY <1>0, <1>5, ReturnsSomewhere DEF ReadEvent, Reads, ClientSteps, Healthy, world
  <2> QED BY <2>3, <2>4, <2>5
<1>6. CASE ReadInvalid
  <2>1. LifecycleTyped' /\ StreamTyped'
    BY <1>0, <1>6, EndTyped DEF ReadInvalid, Invalid
  <2>2. Rest'
    BY <1>0, <1>6, ReturnsSomewhere DEF ReadInvalid, Reads, ClientSteps, world
  <2> QED BY <2>1, <2>2
<1>7. CASE ReadEnd
  <2>1. LifecycleTyped' /\ StreamTyped'
    BY <1>0, <1>7, LossTyped DEF ReadEnd, Reads, ClientSteps
  <2>2. Rest'
    BY <1>0, <1>7, ReturnsSomewhere DEF ReadEnd, Reads, ClientSteps, world
  <2> QED BY <2>1, <2>2
<1>8. CASE ReadTimesOut
  <2>1. StreamTyped'
    BY <1>0, <1>8, NoWire, Zenon DEF ReadTimesOut, Reads, ClientSteps, StreamTyped
  <2>2. LifecycleTyped'
    BY <1>0, <1>8, NoLosses, Zenon DEF ReadTimesOut, Healthy, LifecycleTyped
  <2>3. Rest'
    BY <1>0, <1>8, ReturnsSomewhere DEF ReadTimesOut, Reads, ClientSteps, Healthy, world
  <2> QED BY <2>1, <2>2, <2>3
<1>9. CASE Emits \/ EmitsRest \/ Closes
  <2>1. LifecycleTyped' /\ Rest'
    BY <1>0, <1>9, Zenon
       DEF Emits, EmitsRest, Closes, Serves, lifecycle, world, LifecycleTyped
  <2>2. wire' \in Seq(Pieces) /\ Len(wire') <= MaxWire
    BY <1>0, <1>9, OneMorePiece DEF Emits, EmitsRest, Closes, StreamTyped, Pieces
  <2>3. up' \in BOOLEAN /\ owed' \in BOOLEAN /\ up /\ UNCHANGED <<phase, subs>>
    BY <1>0, <1>9, Zenon DEF Emits, EmitsRest, Closes, Serves, lifecycle, StreamTyped
  <2> QED BY <1>0, <2>1, <2>2, <2>3, Zenon DEF StreamTyped
<1>10. CASE Changes
  <2>1. run' \in 0..MaxChanges /\ shown' \in 0..run' /\ placed' \subseteq Panes
    BY <1>0, <1>10, SocketAssumption DEF Changes
  <2> QED BY <1>0, <1>10, <2>1, Zenon
        DEF Changes, lifecycle, stream, LifecycleTyped, StreamTyped
<1>11. CASE DeadlinePasses \/ BackoffPasses
  <2>1. /\ deadline' \in {"off", "set", "past"} /\ backoff' \in BOOLEAN
        /\ UNCHANGED <<client, pc, phase, attempts, wanted, shown, asked, stream, world>>
    BY <1>0, <1>11, Zenon DEF DeadlinePasses, BackoffPasses, LifecycleTyped
  <2> QED BY <1>0, <2>1, Zenon DEF stream, world, LifecycleTyped, StreamTyped
<1>12. CASE UNCHANGED vars
  BY <1>0, <1>12, Zenon DEF vars, lifecycle, stream, world, LifecycleTyped, StreamTyped
<1> QED BY <1>2, <1>3, <1>4, <1>5, <1>6, <1>7, <1>8, <1>9, <1>10, <1>11, <1>12 DEF Next, Client

LEMMA StepKeepsWanted == SubscribesToSome /\ [Next]_vars => SubscribesToSome'
<1> SUFFICES ASSUME SubscribesToSome, [Next]_vars PROVE SubscribesToSome'
  OBVIOUS
<1> USE DEF SubscribesToSome
<1>1. ASSUME pc' # "subscribe" PROVE SubscribesToSome'
  BY <1>1
<1>2. CASE Poll
  BY <1>2, ReturnsSomewhere DEF Poll, ClientSteps
<1>3. CASE ~Poll /\ ~UNCHANGED pc
  <2>1. pc' # "subscribe"
    BY <1>3, ReturnsSomewhere
       DEF Next, Client, Connect, Refresh, Collect, Key, StartWait, Subscribe, BudgetSpent,
           ReadEvent, ReadInvalid, ReadEnd, ReadTimesOut, Fallback, Reads, Emits, EmitsRest,
           Closes, Serves, Changes, DeadlinePasses, BackoffPasses, vars
  <2> QED BY <2>1, <1>1
<1>4. CASE UNCHANGED pc /\ ~Poll
  <2>1. UNCHANGED wanted \/ pc' # "subscribe"
    BY <1>4
       DEF Next, Client, Connect, Refresh, Collect, Key, StartWait, Subscribe, BudgetSpent,
           ReadEvent, ReadInvalid, ReadEnd, ReadTimesOut, Fallback, Reads, ClientSteps, Emits,
           EmitsRest, Closes, Serves, Changes, DeadlinePasses, BackoffPasses, vars
  <2> QED BY <1>4, <2>1
<1> QED BY <1>2, <1>3, <1>4

-----------------------------------------------------------------------------
(* The retries. *)

(* A loss counts as many as one more snapshot would. *)
LEMMA LossCounts ==
    ASSUME TypeOK, LossPerSnapshot, phase \in {"need", "ready", "subscribed"}, Loss,
           asked' \in Nat, asked' <= attempts + 1
    PROVE  LossPerSnapshot' /\ RetriesCapped'
BY SocketAssumption DEF TypeOK, LossPerSnapshot, RetriesCapped, Loss, Ends

LEMMA SnapshotsCount ==
    ASSUME IInv, EnsureSnapshot
    PROVE  LossPerSnapshot' /\ RetriesCapped'
<1> USE SocketAssumption DEF IInv, TypeOK, LossPerSnapshot, RetriesCapped
<1>1. CASE Steady
  BY <1>1 DEF Steady, lifecycle
<1>2. CASE phase = "need" /\ Ends("exhausted") /\ UNCHANGED <<attempts, deadline, backoff, asked>>
  BY <1>2 DEF Ends
<1>3. CASE phase = "need" /\ ~Spent /\ AsksSnapshot
  <2>1. asked' = asked + 1 /\ asked' <= attempts + 1 /\ attempts <= MAX_RECONNECTS
    BY <1>3 DEF AsksSnapshot
  <2>2. CASE Loss
    BY <1>3, <2>1, <2>2, LossCounts
  <2>3. CASE ~Loss
    BY <1>3, <2>1, <2>3 DEF AsksSnapshot, Invalid, Ends
  <2> QED BY <2>2, <2>3
<1> QED BY <1>1, <1>2, <1>3 DEF EnsureSnapshot

LEMMA StepKeepsCount == IInv /\ [Next]_vars => LossPerSnapshot' /\ RetriesCapped'
<1> SUFFICES ASSUME IInv, [Next]_vars PROVE LossPerSnapshot' /\ RetriesCapped'
  OBVIOUS
<1> USE SocketAssumption DEF IInv
<1>1. CASE Refresh \/ Poll
  BY <1>1, SnapshotsCount DEF Refresh, Poll
<1>2. CASE Subscribe
  <2>1. CASE Loss
    BY <1>2, <2>1, LossCounts DEF Subscribe, ClientSteps, TypeOK, LossPerSnapshot
  <2>2. CASE ~Loss
    BY <1>2, <2>2 DEF Subscribe, ClientSteps, TypeOK, LossPerSnapshot, RetriesCapped, Invalid,
            Ends
  <2> QED BY <2>1, <2>2
<1>3. CASE ReadEvent \/ ReadTimesOut
  BY <1>3 DEF ReadEvent, ReadTimesOut, Reads, ClientSteps, Healthy, TypeOK, LossPerSnapshot,
          RetriesCapped
<1>4. CASE ReadInvalid
  BY <1>4 DEF ReadInvalid, Reads, ClientSteps, Invalid, Ends, TypeOK, LossPerSnapshot,
          RetriesCapped
<1>5. CASE ReadEnd
  BY <1>5, LossCounts DEF ReadEnd, Reads, ClientSteps, TypeOK, LossPerSnapshot
<1>6. CASE Connect \/ Collect \/ Key \/ StartWait \/ BudgetSpent \/ Fallback
  BY <1>6 DEF Connect, Collect, Key, StartWait, BudgetSpent, Fallback, ClientSteps, Steady,
              lifecycle, LossPerSnapshot, RetriesCapped
<1>7. CASE \/ Emits \/ EmitsRest \/ Closes \/ Changes
           \/ DeadlinePasses \/ BackoffPasses \/ UNCHANGED vars
  BY <1>7 DEF Emits, EmitsRest, Closes, Changes, Serves, DeadlinePasses, BackoffPasses, lifecycle,
              vars, LossPerSnapshot, RetriesCapped
<1> QED BY <1>1, <1>2, <1>3, <1>4, <1>5, <1>6, <1>7 DEF Next, Client

-----------------------------------------------------------------------------
(* The results. *)

LEMMA Start == Init => IInv
<1> SUFFICES ASSUME Init PROVE IInv
  OBVIOUS
<1>1. LifecycleTyped
  BY NoLosses, Zenon DEF Init, LifecycleTyped
<1>2. StreamTyped
  BY NoWire, Zenon DEF Init, StreamTyped
<1>3. TypeOK
  BY <1>1, <1>2, SocketAssumption, TypedInHalves DEF Init
<1> QED BY <1>3, SocketAssumption DEF Init, IInv, SubscribesToSome, LossPerSnapshot, RetriesCapped

(* The invariant holds in every state that can be reached. *)
THEOREM Invariance == Spec => []IInv
<1>1. IInv /\ [Next]_vars => IInv'
  BY StepKeepsTypes, StepKeepsWanted, StepKeepsCount DEF IInv
<1> QED BY Start, <1>1, PTL DEF Spec

(* Every variable stays among its values: a stream belongs to the          *)
(* subscribed phase, and a client reads only then (socket_backend.rs).     *)
THEOREM TypeCorrect == Spec => []TypeOK
<1> QED BY Invariance, PTL DEF IInv

(* Between two signs of a healthy stream at most MAX_RECONNECTS snapshots  *)
(* follow the first, whatever its value (socket_backend.rs).               *)
THEOREM RetriesStayCapped == Spec => []RetriesCapped
<1> QED BY Invariance, PTL DEF IInv
=============================================================================
